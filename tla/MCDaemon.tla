------------------------------ MODULE MCDaemon ------------------------------
(* Model values for checking Daemon. *)
EXTENDS Daemon, TLC

CONSTANTS f1, f2, p1, p2, p3

Symmetry == Permutations(Fronts) \cup Permutations(Pids)

=============================================================================
