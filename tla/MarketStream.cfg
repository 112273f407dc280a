SPECIFICATION MarketSpec
CONSTANTS
  a = a
  b = b
  n1 = n1
  Tokens <- TwoTokens
  Scanners <- OneScanner
  MaxSubscriptions = 1
  MaxConnections = 3
  Watched = a
  MaxBucket = 2
  MaxTrade = 1
  MaxCounter = 3
  MaxTraded = 2
  MaxHistory = 2
INVARIANTS SubscriptionsAreSent HeartbeatIsKept ValidVolumeIsExact
CHECK_DEADLOCK FALSE
