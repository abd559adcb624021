\* Convergence: edits made before, between and after connections, a drop or a crash.
SPECIFICATION FairSpec
CONSTANTS
  Clients = {c1, c2}
  Slots = {s1}
  Apis = {}
  RoomIds = {r1}
  Ops = {x, y}
  Labels = {}
  NoLabel = NoLabel
  None = None
  SnapshotEvery = 2
  SnapshotInterval = 1
  Retain = 0
  BusCap = 1
  MaxFaults = 1
  ApiMayStop = FALSE
  StoreMayFail = FALSE
INVARIANTS
  EvictionIsSafe
  PublishedIsStored
  NothingMissed
PROPERTY ImplementsSharedDoc
CHECK_DEADLOCK FALSE
