\* A delegate client reconnects while its envelopes to a target that is found in every
\* way there is are on their way; Close may run at any point.
SPECIFICATION Spec
CONSTANTS
  a = a
  t = t
  Addresses <- MCAddresses
  Pairs <- DelegateToTarget
  Conns = {c1, c2}
  AddrOf <- MCAddrOf
  Callers = {}
  CallerAddr <- MCCallerAddr
  Routes <- RoutesAll
  PairQueueSize = 1
  SlowQueueSize = 3
  Overlap = FALSE
  MaxSent = 2
  MayClose = TRUE
  NoConn = NoConn
  NoEnv = NoEnv
SYMMETRY Symmetry
INVARIANTS
  TypeOK
  Conservation
  OvertakenIsSlow
PROPERTIES
  KeepsPromise
  FastPathOrder
  SlowPathOrder
CHECK_DEADLOCK FALSE
