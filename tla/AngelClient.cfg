SPECIFICATION FairSpec
CONSTANTS
  t1 = t1
  t2 = t2
  Threads <- TwoThreads
  Breaker = 1
  MaxBreaker = 3
  QuoteGap = 1
  HistGap = 2
  RetryWait = 1
  Cooldown = 1
  MaxCooldown = 3
PROPERTIES LoginBackoff HistSpacing CooldownHonoured LoginRecovers
