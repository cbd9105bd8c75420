SPECIFICATION Spec
CONSTANTS
  Members = {m1}
  NoMember = NoMember
  Workers = {w1}
  MaxPages = 2
  MaxCalls = 2
  MaxErrors = 0
  MaxRestarts = 1
SYMMETRY Symmetry
INVARIANTS
  DBIsResolved
CHECK_DEADLOCK FALSE
