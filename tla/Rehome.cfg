SPECIFICATION Spec
CONSTANTS
  Procs = {p1, p2, p3}
  NoProc = NoProc
  Scopes = {1, 2}
  Letters = {1, 2}
  MaxShort = 2
  Docs = {"a", "b", "c", "d"}
  NoDoc = "none"
  MaxVersion = 3
  Modes <- MCModes
  MaxDeaths = 1
  MaxFails = 2
SYMMETRY MCSymmetry
PROPERTIES
  CopiesKept
  MovedWhole
  FailedUndone
CHECK_DEADLOCK FALSE
