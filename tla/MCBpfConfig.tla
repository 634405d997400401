---------------------------- MODULE MCBpfConfig ----------------------------
(* Model-checking instance of BpfConfig: one step of every shape. *)
EXTENDS BpfConfig

\* An object with values of Config, one without, the annotation of it, and the
\* namespace.
OneOfEachShape == {"configMap", "agentService", "annotation", "namespace"}

=============================================================================
