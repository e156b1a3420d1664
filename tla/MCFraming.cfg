SPECIFICATION Spec
CONSTANTS
  Cells <- SomeLengths
  Junk = Junk
  MSG_HEAD_LEN = 2
  BufSize = 4
  MaxStream = 6
INVARIANTS
  StreamKept
  EndToEnd
  Blame
