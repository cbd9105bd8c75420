SPECIFICATION AnalyticsSpec
CONSTANTS
  Handlers = {h1, h2}
  TTL = 2
  MaxLatency = 1
  PageSize = 2
  MaxTime = 6
  MaxTrades = 3
PROPERTIES
  ShownIsRecent
  CacheIsUsedUnlessDisturbed
CHECK_DEADLOCK FALSE
