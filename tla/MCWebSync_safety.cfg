\* Drops, a closed tab and changing permissions.
SPECIFICATION FairSpec
CONSTANTS
  Ops = {x, y, z}
  None = None
  MaxDrops = 1
  MaxTabs = 1
  MaxRoles = 2
  SlowCache = FALSE
  Reopens = FALSE
INVARIANTS
  NothingForgotten
PROPERTY EditsArrive
CHECK_DEADLOCK FALSE
