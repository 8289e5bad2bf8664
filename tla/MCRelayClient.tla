--------------------------- MODULE MCRelayClient ---------------------------
(***************************************************************************)
(* The instance of RelayClient for TLC.                                     *)
(***************************************************************************)
EXTENDS RelayClient
=============================================================================
