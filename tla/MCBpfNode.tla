------------------------------ MODULE MCBpfNode ------------------------------
(* An instance of BpfNode. *)
EXTENDS BpfNode
=============================================================================
