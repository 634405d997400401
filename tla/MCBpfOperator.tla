--------------------------- MODULE MCBpfOperator ---------------------------
(* Model-checking instances of BpfOperator: symmetry of the node names. *)
EXTENDS BpfOperator, TLC

\* Nodes are treated alike; only safety runs use the symmetry.
NodeSymmetry == Permutations(Nodes)

=============================================================================
