\* Three concurrent requests to one target compete for a slow queue of two, and may
\* take the status of what another has sent.
SPECIFICATION FairSpec
CONSTANTS
  a = a
  t = t
  Addresses <- MCAddresses
  Pairs <- CallersToTarget
  Conns = {}
  AddrOf <- MCAddrOf
  Callers = {k1, k2, k3}
  CallerAddr <- MCCallerAddr
  Routes <- RoutesShared
  PairQueueSize = 1
  SlowQueueSize = 2
  Overlap = FALSE
  MaxSent = 1
  MayClose = FALSE
  NoConn = NoConn
  NoEnv = NoEnv
INVARIANTS
  Conservation
PROPERTIES
  KeepsPromise
  EverythingSettles
CHECK_DEADLOCK FALSE
