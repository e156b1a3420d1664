SPECIFICATION FairSpec
CONSTANTS
  Goroutines = {g1, g2}
  MaxSlices = 2
  MaxUnits = 4
  NoOne = NoOne
  Sender = Sender
INVARIANTS
  NotifyReady
  Disjoint
  NoLostWakeup
  StreamKept
PROPERTIES
  Implements
  Delivered
  SenderReturns
