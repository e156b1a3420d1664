SPECIFICATION Spec
CONSTANTS
  c1 = c1
  c2 = c2
  c3 = c3
  h1 = h1
  s1 = s1
  s2 = s2
  NoOne = NoOne
  Coroutines <- ThreeCoroutines
  Chans <- OneChan
  Sockets <- TwoSockets
  MaxSleep = 3
  SleepArgs <- AllSleeps
  MaxEvents = 2
  MaxLag = 2
SYMMETRY Symmetry
INVARIANTS
  OneWaker
  StackSafe
  HandlerAlive
  WaitersRegistered
