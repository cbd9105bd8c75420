SPECIFICATION Spec
CONSTANTS
  Jobs = {"challenge-announce", "challenge-finalize"}
  Due <- MCDue
  HourLen = 2
  MaxHour = 3
  MaxRestarts = 1
  Members = {m1, m2}
  Handlers = {h1}
  WeekLen = 2
  HostLag = 1
  MaxErrors = 1
SYMMETRY Symmetry
INVARIANTS
  TypeOK
  AtMostOncePerHour
  PrizesOfOneRanking
  FinalizedIsPaid
CHECK_DEADLOCK FALSE
