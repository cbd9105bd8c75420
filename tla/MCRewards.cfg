SPECIFICATION Spec
CONSTANTS
  Members = {m1, m2}
  Workers = {w1, w2}
  Badges = {b1}
  GoalBadge = GoalBadge
  Targets = {t1, t2}
  MaxMonth = 1
  MaxCalls = 4
  MaxErrors = 1
  MaxCrashes = 1
INVARIANTS
  TypeOK
  XPIsBacked
  PaidOnceUnlessDisturbed
PROPERTIES
  AchievedUnlessDisturbed
SYMMETRY Symmetry
CHECK_DEADLOCK FALSE
