\* Two connections of an agent, one of which the peer may refuse to register.
SPECIFICATION Spec
CONSTANTS
  Conns = {c1, c2}
  Routers = {r1}
  StatusQueueSize = 1
  MaxEnvelopes = 1
  NoConn = NoConn
INVARIANTS
  GaugeCounts
CHECK_DEADLOCK FALSE
