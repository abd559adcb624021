\* One document: two updates, a maintenance that snapshots at the second, a window of one tick.
SPECIFICATION Spec
CONSTANTS
  Ops = {a, b}
  Labels = {l1, l2}
  NoLabel = NoLabel
  SnapshotEvery = 2
  SnapshotInterval = 1
  Retain = 1
  Horizon = 3
  Gap = 2
  Unknown = Unknown
SYMMETRY Symmetry
INVARIANTS
  ReloadGivesDoc
  SeqsNeverReused
  VersionsReadBack
  NamedVersionsSurvive
  WindowReadable
  HistoryIsTrue
PROPERTY SnapshotsNeverOverwritten
