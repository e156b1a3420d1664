SPECIFICATION ConnectSpec
CONSTANTS
  c1 = c1
  c2 = c2
  t1 = t1
  t2 = t2
  t3 = t3
  h1 = h1
  h2 = h2
  s1 = s1
  s2 = s2
  NoOne = NoOne
  Coroutines <- TwoTimers
  Callers <- TwoCallers
  Connecters <- OneConnecter
  Readers <- OneReader
  Chans <- TwoChans
  Chan <- ChanOfCaller
  Sockets <- TwoSockets
  Sock = s1
  Other = s2
  MaxSleep = 2
  SleepArgs <- OneSecond
  MaxEvents = 2
  MaxLag = 2
  Timeouts <- OneOrTwo
  MaxConns = 3
PROPERTIES
  TrueOutcome
