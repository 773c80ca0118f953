--------------------------- MODULE MCRuntimeGuards ---------------------------
(***************************************************************************)
(* RuntimeGuards for TLC: nothing tells adapters, the names the kernel     *)
(* gives their interfaces, or reporters apart.                             *)
(***************************************************************************)
EXTENDS RuntimeGuards, TLC

Symmetry ==
    Permutations(Adapters) \cup Permutations(Names) \cup Permutations(Reporters)
=============================================================================
