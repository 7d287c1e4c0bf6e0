SPECIFICATION FairSpec
CONSTANTS
  Procs = {1, 2, 3}
  NoProc = 0
  Names = {1, 2, 3, 4}
  Dirs <- MCDirs
  Repos <- MCRepos
  Tickets = {1, 2}
  Modes <- MCModes
  MaxDeaths = 1
INVARIANTS
  RegistrationsSound
PROPERTIES
  OwnEntries
  RenameWhole
  VerbsEnd
CHECK_DEADLOCK FALSE
