SPECIFICATION Spec
CONSTANTS
  Symbols = {s1, s2}
  MaxConcurrent = 1
  TopN = 2
  Premiums <- OnePremium
  StopPct = 30
  TargetPct = 20
  TrailPct = 12
  KeepSamples = 1
  LoadMayFail = FALSE
  LastDay = 1
  MaxTrades = 2
  MaxCrashes = 2
SYMMETRY Symmetric
INVARIANT AuditOfOneTrade
CHECK_DEADLOCK FALSE
