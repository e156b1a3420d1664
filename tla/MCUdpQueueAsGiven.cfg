SPECIFICATION Spec
CONSTANTS
  Lengths <- OneLength
  SndBuf = 2
  MaxDatagrams = 4
  MaxOpens = 2
  MaxArrive = 1
INVARIANTS
  SentAsGiven
CHECK_DEADLOCK FALSE
