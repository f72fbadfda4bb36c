---------------------------- MODULE MCGroupStore ----------------------------
(* Instances of GroupStore for TLC. *)
EXTENDS GroupStore

Symmetry == Permutations(Threads) \cup Permutations(Conns)
=============================================================================
