\* An agent reconnects, before or after its previous handler has returned, while
\* envelopes are delivered to it.
SPECIFICATION FairSpec
CONSTANTS
  Conns = {c1, c2}
  Routers = {r1}
  StatusQueueSize = 1
  MaxEnvelopes = 2
  NoConn = NoConn
INVARIANTS
  TypeOK
  ServedIsMapped
  MappedIsServed
  OwnStatusUnlessLate
PROPERTIES
  ClosedIsCleaned
CHECK_DEADLOCK FALSE
