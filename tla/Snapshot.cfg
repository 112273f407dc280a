SPECIFICATION ScopedSpec
CONSTANTS
  i1 = i1
  i2 = i2
  t1 = t1
  t2 = t2
  signal = signal
  scalp = scalp
  Instances <- TwoInstances
  Threads <- TwoThreads
  Signals <- OneSignal
  Scalps <- OneScalp
  LastDay = 3
  Retention = 1
  MaxDepth = 3
  Target = 2
  Seed = 2
PROPERTIES HistoryNeverShrinks TradesAreKept
SYMMETRY Alike
