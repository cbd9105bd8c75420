SPECIFICATION PeriodsSpec
CONSTANTS
  DayLen = 3
  Offset = 1
  WeekLen = 3
  FirstDays = {0, 2}
  ReportHour = 2
  MaxLatency = 1
  Targets = {1, 2}
  MaxTime = 10
  MaxTrades = 2
INVARIANTS
  CardsAreComplete
  GoalIsBacked
PROPERTIES
  CountsForItsWeek
CHECK_DEADLOCK FALSE
