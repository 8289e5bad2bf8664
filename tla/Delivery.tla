----------------------------- MODULE Delivery ------------------------------
(***************************************************************************)
(* What a peer promises about the envelopes it accepts, without a word on   *)
(* channels, goroutines, the slow path or Close.  An accepted envelope gets *)
(* one verdict at most.  Its target gets it at most once by each way the    *)
(* peer has of sending it, even after the verdict.  It succeeds only when   *)
(* its target has it, with two exceptions that the statuses of the ACN      *)
(* protocol force: a way whose statuses name the target and not the         *)
(* envelope (Acked) gives one success for each envelope that reached that   *)
(* target, not necessarily to the same one; and the peer of a Careless      *)
(* target may answer for an envelope that it has lost.                      *)
(* EnvelopeRouting implements this.                                         *)
(***************************************************************************)
EXTENDS Naturals, Sequences

CONSTANTS
    Pairs,      \* <<to, from>>: the pairs of agents that exchange envelopes
    Vias,       \* the ways an envelope can take
    Acked,      \* those whose statuses are matched by the address of the target
    Careless    \* targets whose peer may answer for what it has lost

VARIABLES
    sent,       \* sent[p]: number of envelopes accepted for p
    delivered,  \* delivered[p]: copies the target has got, in order
    lost,       \* copies sent that the target will not get
    acks,       \* envelopes delivered by a way in Acked that stand for no success yet
    succeeded,  \* envelopes reported as routed
    failed      \* envelopes given up

vars == <<sent, delivered, lost, acks, succeeded, failed>>

Init ==
    /\ sent = [p \in Pairs |-> 0]
    /\ delivered = [p \in Pairs |-> <<>>]
    /\ lost = {}
    /\ acks = {}
    /\ succeeded = {}
    /\ failed = {}

Accept(p) ==
    /\ sent' = [sent EXCEPT ![p] = @ + 1]
    /\ UNCHANGED <<delivered, lost, acks, succeeded, failed>>

Envelope(p, n) == [pair |-> p, n |-> n]
Copied(p, n, via) == [env |-> Envelope(p, n), via |-> via]
Has(p, n, via) == \E i \in 1..Len(delivered[p]) : delivered[p][i] = [n |-> n, via |-> via]

\* A copy that has not been handled by this way.
Fresh(p, n, via) == ~ Has(p, n, via) /\ Copied(p, n, via) \notin lost

Hand(p, n, via) ==
    /\ Fresh(p, n, via)
    /\ delivered' = [delivered EXCEPT ![p] = Append(@, [n |-> n, via |-> via])]

Deliver(p, n, via) ==
    /\ Hand(p, n, via)
    /\ acks' = IF via \in Acked THEN acks \cup {Envelope(p, n)} ELSE acks
    /\ UNCHANGED <<sent, lost, succeeded, failed>>

Lose(p, n, via) ==
    /\ via \in Acked \/ p[1] \in Careless
    /\ Fresh(p, n, via)
    /\ lost' = lost \cup {Copied(p, n, via)}
    /\ UNCHANGED <<sent, delivered, acks, succeeded, failed>>

NoVerdict(p, n) == Envelope(p, n) \notin succeeded \cup failed

\* With the delivery, after it, or by an acknowledgement of the same target.
Succeed(p, n) ==
    /\ NoVerdict(p, n)
    /\ succeeded' = succeeded \cup {Envelope(p, n)}
    /\ \/ /\ \E via \in Vias \ Acked :
                Hand(p, n, via) \/ (~ Fresh(p, n, via) /\ UNCHANGED delivered)
          /\ UNCHANGED acks
       \/ /\ \E x \in acks : x.pair[1] = p[1] /\ acks' = acks \ {x}
          /\ UNCHANGED delivered
    /\ UNCHANGED <<sent, lost, failed>>

Fail(p, n) ==
    /\ NoVerdict(p, n)
    /\ failed' = failed \cup {Envelope(p, n)}
    /\ UNCHANGED <<sent, delivered, lost, acks, succeeded>>

Next ==
    \/ \E p \in Pairs : Accept(p)
    \/ \E p \in Pairs : \E n \in 1..sent[p] :
           \/ Succeed(p, n) \/ Fail(p, n)
           \/ \E via \in Vias : Deliver(p, n, via) \/ Lose(p, n, via)

Spec == Init /\ [][Next]_vars
=============================================================================
