\* Saves, updates, removals, a stop, a crash and a write that fails.
SPECIFICATION FairSpec
CONSTANTS
  Marks = {m1, m2, m3}
  None = None
  MaxRemovals = 2
  MaxStops = 2
  MaxCrashes = 1
  MaxFails = 1
  Ahead = FALSE
INVARIANTS
  NothingLostUndisturbed
  NothingUndoneUndisturbed
  TrashedOnPurposeUndisturbed
PROPERTIES
  OverwritesTakenIn
  CatchesUpUndisturbed
CHECK_DEADLOCK FALSE
