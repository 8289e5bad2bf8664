------------------------------ MODULE MCFraming -----------------------------
(* The instance of Framing for TLC.                                         *)
EXTENDS Framing

MCMessages == {<<1>>, <<0, 2>>}
=============================================================================
