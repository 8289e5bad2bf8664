\* A careful agent a, and an agent b that may register while it has a session.
SPECIFICATION Spec
CONSTANTS
  Sessions = {s1, s2, s3}
  Addresses = {a, b}
  Careful = {a}
  Requests = {q1, q2}
  EnvelopesLimit = 2
  MaxEnvelopes = 3
  NoAddr = NoAddr
  NoSession = NoSession
SYMMETRY Symmetry
INVARIANTS
  TypeOK
  NoOrphan
  SessionsServed
  FetchOrder
  NilOnlyIfClosed
PROPERTIES
  KeptUntilFetched
CHECK_DEADLOCK FALSE
