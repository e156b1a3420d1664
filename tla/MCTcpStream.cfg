SPECIFICATION FairSpec
CONSTANTS
  SndBuf = 2
  MaxWrite = 3
  MaxUnits = 5
  MaxOpens = 3
  MaxArrive = 2
INVARIANTS
  StreamKept
  FlushOwed
  ReadOwed
  NoSilentDrop
PROPERTIES
  Delivered
CHECK_DEADLOCK FALSE
