\* Two notes and a spare id, two things done in the folder and two changes from elsewhere.
SPECIFICATION FairSpec
CONSTANTS
  Notes = {1, 2, 3}
  Paths = {p, q, r}
  Numbered = {r}
  Links <- LinksOfTwo
  None = None
  MaxLocal = 2
  MaxRemote = 2
  MaxStarts = 1
  Races = FALSE
  Hasty = FALSE
INVARIANTS
  InStep
  NothingErased
PROPERTY Settles
CHECK_DEADLOCK FALSE
