SPECIFICATION Spec
CONSTANTS
  Members = {m1, m2}
  NoMember = NoMember
  Workers = {w1, w2}
  MaxPages = 3
  MaxCalls = 4
  MaxErrors = 1
  MaxRestarts = 1
SYMMETRY Symmetry
INVARIANTS
  TypeOK
  TradesInOwnDB
  SeenUnlessDisturbed
CHECK_DEADLOCK FALSE
