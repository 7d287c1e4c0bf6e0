SPECIFICATION Spec
CONSTANTS
  Digits = 3
  Heads = 4
  LongAt = 3
  Modes <- MCForest
  HandKeys <- MCHandKeys
INVARIANTS
  ForestCovers
CHECK_DEADLOCK FALSE
