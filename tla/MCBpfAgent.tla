----------------------------- MODULE MCBpfAgent -----------------------------
(* Model-checking instances of BpfAgent: symmetry of names. *)
EXTENDS BpfAgent, TLC

\* Names of state objects carry no meaning, they are drawn at random, and nothing
\* tells one function of an application from another.
NameSymmetry == Permutations(StateIds) \cup Permutations(Progs)

=============================================================================
