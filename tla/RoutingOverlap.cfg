\* A delegate client connects again before the handler of its first connection has returned.
SPECIFICATION Spec
CONSTANTS
  a = a
  t = t
  Addresses <- MCAddresses
  Pairs <- DelegateToTarget
  Conns = {c1, c2}
  AddrOf <- MCAddrOf
  Callers = {}
  CallerAddr <- MCCallerAddr
  Routes <- RoutesAgent
  PairQueueSize = 2
  SlowQueueSize = 2
  Overlap = TRUE
  MaxSent = 2
  MayClose = FALSE
  NoConn = NoConn
  NoEnv = NoEnv
INVARIANTS
  OneGoroutinePerPair
CHECK_DEADLOCK FALSE
