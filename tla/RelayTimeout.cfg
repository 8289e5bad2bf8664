\* dhtclient.go: the loops end when the timeout is reached.
SPECIFICATION FairSpec
CONSTANTS
  Persistent = TRUE
  MaxEnvelopes = 2
  MaxCrashes = 2
  MaxDrops = 1
PROPERTIES
  LoopReturns
CHECK_DEADLOCK FALSE
