\* Requests dropped half way, a store that refuses appends, and crashes.
SPECIFICATION Spec
CONSTANTS
  Clients = {c1}
  Slots = {s1, s2}
  Apis = {a1}
  RoomIds = {r1, r2}
  Ops = {x, y}
  Labels = {}
  NoLabel = NoLabel
  None = None
  SnapshotEvery = 2
  SnapshotInterval = 1
  Retain = 0
  BusCap = 1
  MaxFaults = 2
  ApiMayStop = TRUE
  StoreMayFail = TRUE
SYMMETRY Symmetry
INVARIANT RoomCoversStore
PROPERTY StoreNeverShrinks
CHECK_DEADLOCK FALSE
