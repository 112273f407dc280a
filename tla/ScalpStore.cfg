SPECIFICATION FairSpec
CONSTANTS
  Symbols = {s1, s2}
  MaxConcurrent = 1
  TopN = 2
  Premiums <- OnePremium
  StopPct = 30
  TargetPct = 20
  TrailPct = 12
  KeepSamples = 2
  LoadMayFail = FALSE
  LastDay = 1
  MaxTrades = 2
  MaxCrashes = 1
INVARIANT StoreMatchesMemory LearnsQuotedExitsOnce NoEntryAfterHardFlat CapOnStore
PROPERTY OutcomeIsFinal ImplementsLedger EveryPositionEnds
CHECK_DEADLOCK FALSE
