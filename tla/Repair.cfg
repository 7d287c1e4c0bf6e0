SPECIFICATION Spec
CONSTANTS
  Scope <- MCScope
  Worlds <- MCWorlds
  Created <- MCCreated
  Held <- MCHeld
  Alphabet <- MCAlphabet
  MaxLen = 2
  SelfCommits = TRUE
  MaxDeaths = 2
INVARIANTS
  DocumentsKept
  HeadWhole
  NoFork
  DoctorClean
  ReferencesFollow
  OutsideReported
