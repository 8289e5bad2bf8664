\* The relay crashes and restarts, the connection is lost, while the client starts and routes.
SPECIFICATION FairSpec
CONSTANTS
  Persistent = TRUE
  MaxEnvelopes = 2
  MaxCrashes = 2
  MaxDrops = 1
INVARIANTS
  TypeOK
  NoErrorMeansDelivered
PROPERTIES
  Reconnects
CHECK_DEADLOCK FALSE
