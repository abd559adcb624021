\* Two vaults, two notes (one there at the start), two requests at a time.
SPECIFICATION Spec
CONSTANTS
  n1 = n1  n2 = n2  pa = pa  pb = pb
  Vaults = {A, B}
  Order <- MCOrder
  Paths = {pa, pb}
  Restored <- MCRestored
  Tasks = {t1, t2}
  None = None
  MaxOps = 3
  MaxChange = 1
  MaxCrashes = 1
  MaxPurges = 1
SYMMETRY Symmetry
INVARIANTS RowsFollowDoc RoomIsStored OneCreatePerPath
CHECK_DEADLOCK FALSE
