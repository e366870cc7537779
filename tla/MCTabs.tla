------------------------------- MODULE MCTabs -------------------------------
(***************************************************************************)
(* Model checking Tabs: interchangeable apps and syncs.                    *)
(***************************************************************************)
EXTENDS Tabs, TLC

CONSTANTS a1, a2, s1, s2

Symmetry == Permutations(Apps) \cup Permutations(Syncs)

=============================================================================
