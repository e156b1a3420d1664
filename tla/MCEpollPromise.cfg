SPECIFICATION FairSpec
CONSTANTS
  c1 = c1
  c2 = c2
  c3 = c3
  h1 = h1
  s1 = s1
  s2 = s2
  NoOne = NoOne
  Coroutines <- ThreeCoroutines
  Chans <- OneChan
  Sockets <- OneSocket
  MaxSleep = 3
  SleepArgs <- AllSleeps
  MaxEvents = 1
  MaxLag = 2
PROPERTIES
  Implements
  ReadyRuns
  SleeperWakes
