\* A window, its connections dropped and made again; a second vault created in it, with a note;
\* an engine that stops once, and a queue that overflows.
SPECIFICATION Spec
CONSTANTS
  v1 = v1
  v2 = v2
  Windows = {w1}
  Slots = {s1}
  Vaults = {v1, v2}
  Notes = {n1}
  Home <- MCHome
  Start = {v1}
  None = None
  PeerQueue = 2
  MaxStops = 1
INVARIANTS
  AckedInOrder
  EveryWindowIsHeard
PROPERTY Delivered
CHECK_DEADLOCK FALSE
