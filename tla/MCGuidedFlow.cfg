SPECIFICATION Spec
CONSTANTS
  Users = {u1}
  Procs = {p1, p2}
  NoProc = NoProc
  MaxSessions = 2
  MaxUpdates = 6
INVARIANTS
  TypeOK
  NoDeadSession
  OwnersMoveOn
PROPERTIES
  ImplementsTradeEntry
SYMMETRY Symmetry
CHECK_DEADLOCK FALSE
