SPECIFICATION FairSpec
CONSTANTS
  Digits = 3
  Heads = 4
  LongAt = 3
  Modes <- MCModes
  HandKeys <- MCHandKeys
INVARIANTS
  TreeCovers
PROPERTIES
  OrderPlaces
  
  WorkDrains
CHECK_DEADLOCK FALSE
