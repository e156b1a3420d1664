SPECIFICATION Spec
CONSTANTS
  Callers = {c1, c2}
  Cmds = {q1}
  SeqMod = 2
  Timeout = 1
  MaxCalls = 4
  NoOne = NoOne
SYMMETRY Symmetry
INVARIANTS
  FramesAlive
  BufferExact
  SentInOrder
