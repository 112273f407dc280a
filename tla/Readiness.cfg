SPECIFICATION FairSpec
CONSTANTS
  Threads = {"recheck", "other"}
  Breaker = 1
  MaxBreaker = 1
  Gap = 1
  MaxRun = 1
  PostExpiry = 1
  PreExpiry = 2
  MaxExtras = 1
INVARIANTS VerdictIsRecent ReadyInSessionIsLive
PROPERTIES BlockedRecovers OutageIsReported
