\* The agent moves between two peers while a third looks it up; a fourth answers what
\* it likes, or nothing.
SPECIFICATION FairSpec
CONSTANTS
  Peers = {o, s, t, f}
  Origin = o
  Client = c
  Foreign = {f}
  MaxMoves = 2
  MaxCrashes = 2
  MaxDepth = 4
  NoPeer = NoPeer
INVARIANTS
  TypeOK
  FoundIsFresh
PROPERTIES
  LookupReturns
CHECK_DEADLOCK FALSE
