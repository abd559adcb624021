\* Two notes of the source and one of the destination; a merge given up anywhere and made again.
SPECIFICATION MergeSpec
CONSTANTS
  Ids = {n1, n2}
  Own = {o1}
  Spare = {x1, x2}
  Pictured = {n1, o1}
  Home <- Homes
  Picture <- APicture
  Marks = {a, b}
  Places = {"src", "dst"}
  None = None
  MaxRuns = 2
  MaxOps = 2
SYMMETRY Symmetry
INVARIANTS
  NothingLost
  CarriedWhole
CHECK_DEADLOCK FALSE
