SPECIFICATION Spec
CONSTANTS
  Levels <- TwoLevels
  DaySignals <- BothWays
  FeedSources <- TwoSources
  Elapses = {1, 3}
  Short = 2
  Long = 4
  MaxSpan = 3
  MaxGap = 2
  MinHistory = 1
  Persistence = 2
  RequiredScans = 2
  CandidateMove = 1
  DayLength = 20
  LastDay = 1
  MaxScans = 4
INVARIANT WindowIsPure EntriesPersist
PROPERTY DayReversalsWait
