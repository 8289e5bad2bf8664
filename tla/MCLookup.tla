------------------------------ MODULE MCLookup ------------------------------
(* Instances of Lookup; the constants are given in the .cfg files.          *)
EXTENDS Lookup
=============================================================================
