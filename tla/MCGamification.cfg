SPECIFICATION MCSpec
CONSTANTS
  Members = {m1, m2}
  Workers = {w1, w2}
  Trades <- MCTrades
  Awards <- MCAwards
  FirstDay = 7
  MaxDay = 10
  MaxCalls = 3
  MaxErrors = 1
  MaxCrashes = 1
SYMMETRY Symmetry
INVARIANTS
  StreakHonest
  XPNeverOverstated
  LevelMatchesXP
  XPExactUnlessDisturbed
  StreakExactUnlessDisturbed
CHECK_DEADLOCK FALSE
