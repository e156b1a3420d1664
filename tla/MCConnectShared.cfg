SPECIFICATION ConnectFairSpec
CONSTANTS
  c1 = c1
  c2 = c2
  t1 = t1
  t2 = t2
  t3 = t3
  h1 = h1
  h2 = h2
  s1 = s1
  s2 = s2
  NoOne = NoOne
  Coroutines <- ThreeTimers
  Callers <- TwoCallers
  Connecters <- TwoCallers
  Readers <- TwoCallers
  Chans <- TwoChans
  Chan <- ChanOfCaller
  Sockets <- TwoSockets
  Sock = s1
  Other = s2
  MaxSleep = 2
  SleepArgs <- OneSecond
  MaxEvents = 2
  MaxLag = 1
  Timeouts <- NoneOrTwo
  MaxConns = 2
INVARIANTS
  FrameAlive
  SlotsFree
  TimeoutCloses
PROPERTIES
  ConnectReturns
