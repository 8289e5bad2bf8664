------------------------- MODULE MCEnvelopeRouting -------------------------
(***************************************************************************)
(* Instances of EnvelopeRouting.  Agent a is a delegate client with two     *)
(* connections, each caller sends for an agent of its own (that of the      *)
(* node, or the owner of a mailbox), and t is a target whose ways to be     *)
(* found differ between the runs.                                           *)
(***************************************************************************)
EXTENDS EnvelopeRouting, TLC

CONSTANTS a, t

\* a caller is named by the address it sends for
MCAddresses == {a, t} \cup Callers
MCAddrOf == [c \in Conns |-> a]
MCCallerAddr == [k \in Callers |-> k]

\* the connections of a are interchangeable
Symmetry == Permutations(Conns)

DelegateToTarget == {<<t, a>>}
CallersToTarget == {<<t, k>> : k \in Callers}

\* t is a delegate client of this peer, or known to the DHT only: by a relayed node or
\* a mailbox of another peer
RoutesShared == [x \in MCAddresses |-> IF x = t THEN {"remote", "delegate"} ELSE {}]
\* t is known to the DHT only, also as the agent of another peer
RoutesAgent == [x \in MCAddresses |-> IF x = t THEN {"remote", "remoteAgent"} ELSE {}]
\* t is found in every way there is
RoutesAll == [x \in MCAddresses |-> IF x = t THEN Kinds ELSE {}]
=============================================================================
