----------------------------- MODULE MCLockFile -----------------------------
(***************************************************************************)
(* Model checking LockFile: symmetry for the safety runs, and a later      *)
(* starting point for the run whose counterexample is long.                *)
(***************************************************************************)
EXTENDS LockFile, TLC

Symmetry == Permutations(Procs) \cup Permutations(Files)

CONSTANTS p1, p2, p3, p4, f1, f2

\* A state Spec reaches by ordinary steps: p4 died holding the lock f1; p1 and p2 judged it; p1 broke
\* it, took the lock as f2 and died in turn; p2 has just taken the free claim, and p3 has been called.
MidBreak ==
  /\ pc = (p1 :> "dead" @@ p2 :> "check" @@ p3 :> "create" @@ p4 :> "dead")
  /\ mine = [p \in Procs |-> NoFile]
  /\ judged = [p \in Procs |-> IF p = p2 THEN [file |-> f1, by |-> p4, age |-> Stale] ELSE Gone]
  /\ at = [p \in Procs |-> 0]
  /\ seen = [p \in Procs |-> Unclaimed]
  /\ lock = [file |-> f2, by |-> p1, age |-> Young]
  /\ claim = [n \in Claims |-> IF n = 0 THEN [by |-> p2, age |-> Young] ELSE Unclaimed]
  /\ crashes = MaxCrashes

SpecMidBreak == MidBreak /\ [][Next]_vars

=============================================================================
