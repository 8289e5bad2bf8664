----------------------------- MODULE MCMailbox -----------------------------
(* Instances of Mailbox; sessions and requests are interchangeable.         *)
EXTENDS Mailbox, TLC

Symmetry == Permutations(Sessions) \cup Permutations(Requests)
=============================================================================
