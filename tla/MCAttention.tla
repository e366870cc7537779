---------------------------- MODULE MCAttention ----------------------------
(* Model values for checking Attention: two calls have either the same     *)
(* name or one each, three any names.                                      *)
EXTENDS Attention, TLC

CONSTANTS c1, c2, c3

CONSTANTS k1, k2, k3

Symmetry == Permutations(Calls) \cup Permutations(Keys)

=============================================================================
