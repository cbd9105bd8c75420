SPECIFICATION GateSpec
CONSTANTS
  Users = {u1}
  Handlers = {h1, h2}
  Texts = {"/journal", "hello"}
  MaxReqs = 1
  Window = 2
  Hour = 1
  MaxTime = 4
  MaxRequests = 3
  MaxRestarts = 1
INVARIANTS
  GateTypeOK
  ServedWereMembers
  NotifiedHourlyUnlessDisturbed
  AtMostMaxReqs
PROPERTIES
  ImplementsSlidingWindow
