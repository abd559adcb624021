\* A folder that has the note or a copy of its file, or neither, and a server it joins twice.
SPECIFICATION LinkSpec
CONSTANTS
  Marks = {a, b}
  Places = {"here", "there"}
  Old = {a}
  NoText = NoText
  MaxActs = 2
  MaxBreaks = 1
INVARIANTS
  TakenInOnce
  OnceIsSynced
PROPERTY Settles
CHECK_DEADLOCK FALSE
