SPECIFICATION Spec
CONSTANTS
  Symbols = {s1}
  MaxConcurrent = 1
  TopN = 1
  Premiums <- FewPremiums
  StopPct = 30
  TargetPct = 20
  TrailPct = 12
  KeepSamples = 1
  LoadMayFail = TRUE
  LastDay = 0
  MaxTrades = 2
  MaxCrashes = 1
INVARIANT WeakExitJustified
CHECK_DEADLOCK FALSE
