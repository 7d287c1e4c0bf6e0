SPECIFICATION FairSpec
CONSTANTS
  Procs = {1, 2, 3, 4}
  Notes = {"note"}
  Tickets = {"ticket"}
  Designs = {"design"}
  Modes <- MCModes
  MaxTick = 1
INVARIANT HandlesSound
PROPERTIES
  NoEditLost
  StopDrains
CHECK_DEADLOCK FALSE
