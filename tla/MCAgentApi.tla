----------------------------- MODULE MCAgentApi -----------------------------
(***************************************************************************)
(* The instance of AgentApi for TLC: the capacities are small enough for    *)
(* every queue to be full while the loops wait for each other.              *)
(***************************************************************************)
EXTENDS AgentApi

\* The first envelope can keep the router in Put, the others fill out_queue and
\* the hand of the listener.
MCScript == <<{"self", "bad"}, {"other", "foreign"}, {"other"}>>
=============================================================================
