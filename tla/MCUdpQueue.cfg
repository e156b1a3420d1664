SPECIFICATION FairSpec
CONSTANTS
  Lengths <- AroundHead
  SndBuf = 2
  MaxDatagrams = 4
  MaxOpens = 2
  MaxArrive = 1
INVARIANTS
  InOrder
  Addressed
  EdgeOwed
PROPERTIES
  Drained
CHECK_DEADLOCK FALSE
