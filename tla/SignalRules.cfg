SPECIFICATION Spec
CONSTANTS
  Symbols = {s1}
  MaxOpen = 2
  MaxSetupsDay = 3
  MaxSl = 1
  DailyStop <- TwoR
  Cooldown = 0
  FlipGap = 1
  EntryStart = 0
  EntryEnd = 2
  CloseSlot = 2
  LastSlot = 3
  Risk = 2
  T1 = 2
  T2 = 4
  Noise = 1
  Favours <- StopOrGain
  LastDay = 1
  MaxRows = 2
  MaxCrashes = 0
INVARIANT OneLiveTradePerSymbol StopsPerSideBounded VerdictMatchesResult FlatAfterClose
PROPERTY ProgressIsKept
CHECK_DEADLOCK FALSE
