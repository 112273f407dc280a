SPECIFICATION Spec
CONSTANTS
  Symbols = {s1, s2}
  MaxOpen = 1
  MaxSetupsDay = 2
  MaxSl = 1
  DailyStop <- OneR
  Cooldown = 0
  FlipGap = 0
  EntryStart = 0
  EntryEnd = 1
  CloseSlot = 1
  LastSlot = 2
  Risk = 2
  T1 = 2
  T2 = 4
  Noise = 1
  Favours <- StopOrTarget
  LastDay = 1
  MaxRows = 2
  MaxCrashes = 1
INVARIANT LiveWithinCap LossBounded
CHECK_DEADLOCK FALSE
