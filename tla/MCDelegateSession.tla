------------------------- MODULE MCDelegateSession -------------------------
(* Instances of DelegateSession; the constants are given in the .cfg files.   *)
EXTENDS DelegateSession
=============================================================================
