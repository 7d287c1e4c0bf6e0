SPECIFICATION FairSpec
CONSTANTS
  r1 = r1
  r2 = r2
  Paths = {"root", "archive", "design"}
  Archive = "archive"
  Design = "design"
  Readers = {r1, r2}
  Modes <- MCModes
  Sizes = {1}
  MaxClock = 3
INVARIANTS
  SkipSound
PROPERTIES
  RightRowStays
  IndexConverges
CHECK_DEADLOCK FALSE
