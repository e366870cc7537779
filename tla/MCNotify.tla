------------------------------ MODULE MCNotify ------------------------------
(* Model values for checking Notify. *)
EXTENDS Notify, TLC

CONSTANTS p1, p2, p3, s1, s2

Symmetry == Permutations(Surfaces) \cup Permutations(Agents)

=============================================================================
