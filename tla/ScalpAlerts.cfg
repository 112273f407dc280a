SPECIFICATION Spec
CONSTANTS
  s1 = s1
  s2 = s2
  Symbols <- TwoSymbols
  MaxId = 2
  Retry = 1
  MaxLag = 0
INVARIANTS NotifiedOnce EveryScalpIsNotified
SYMMETRY Alike
