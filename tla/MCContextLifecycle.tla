------------------------- MODULE MCContextLifecycle -------------------------
(* Model values for checking ContextLifecycle with TLC. *)
EXTENDS ContextLifecycle, TLC

\* Workers, nodes, other entities and remote participants are interchangeable.
EntitySymmetry ==
  Permutations(Workers) \cup Permutations(Nodes) \cup Permutations(Others)
    \cup Permutations(Remotes)
=============================================================================
