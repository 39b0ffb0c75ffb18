------------------------------ MODULE MCSSEHub ------------------------------
(* Instances of SSEHub for TLC. *)
EXTENDS SSEHub, TLC

Symmetry == Permutations(Publishers) \cup Permutations(Listeners)
=============================================================================
