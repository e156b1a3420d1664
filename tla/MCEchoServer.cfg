SPECIFICATION ServerFairSpec
CONSTANTS
  a = a
  c1 = c1
  c2 = c2
  c3 = c3
  l = l
  s1 = s1
  s2 = s2
  s3 = s3
  NoOne = NoOne
  NoFd = NoFd
  Coroutines <- ThreeHandlers
  Sockets <- TheirSockets
  Stack <- StackOf
  Acceptor = a
  Listener = l
  Chans <- NoChans
  SleepArgs <- NoSleeps
  MaxSleep = 1
  MaxEvents = 3
  MaxLag = 0
  Fds = {f1, f2}
  MaxConns = 4
  MaxUnread = 1
INVARIANTS
  DescriptorOwned
  NobodyForgotten
PROPERTIES
  Served
  AcceptorYields
