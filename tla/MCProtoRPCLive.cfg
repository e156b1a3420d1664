SPECIFICATION FairSpec
CONSTANTS
  Callers = {c1, c2}
  Cmds = {q1}
  SeqMod = 5
  Timeout = 1
  MaxCalls = 4
  NoOne = NoOne
PROPERTIES
  Implements
  CallReturns
