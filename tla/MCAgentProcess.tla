--------------------------- MODULE MCAgentProcess ---------------------------
(* An instance of AgentProcess. *)
EXTENDS AgentProcess
=============================================================================
