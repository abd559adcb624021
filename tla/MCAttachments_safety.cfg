\* Two replicas and a save at the server; two things that happen: edits, faults, sweeps.
SPECIFICATION FilesSpec
CONSTANTS
  Replicas = {a, b}
  Saves = {s1}
  MaxOps = 2
  MaxStamp = 5
  Absent = Absent
SYMMETRY Symmetry
INVARIANTS EntriesResolve InStep
PROPERTY VersionsStay
CHECK_DEADLOCK FALSE
