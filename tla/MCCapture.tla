----------------------------- MODULE MCCapture ------------------------------
(***************************************************************************)
(* Model checking Capture: interchangeable calls and contents.             *)
(***************************************************************************)
EXTENDS Capture, TLC

Symmetry == Permutations(Edits) \cup Permutations(Commands) \cup Permutations(Contents)

=============================================================================
