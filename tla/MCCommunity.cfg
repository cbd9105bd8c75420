SPECIFICATION CommunitySpec
CONSTANTS
  Assets = {"Forex", "Gold"}
  Amounts = {1}
  MaxLines = 2
  Members = {m1, m2, m3}
  TopN = 2
  WeekStart = 1
  MaxDay = 1
  MaxTrades = 3
INVARIANTS
  StatsAreExact
  RankingsAgree
  StreakFollowsDays
  CountedAsWritten
SYMMETRY Symmetry
CHECK_DEADLOCK FALSE
