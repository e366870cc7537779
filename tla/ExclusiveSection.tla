-------------------------- MODULE ExclusiveSection --------------------------
(***************************************************************************)
(* What withLock and withFileMutation promise their callers (packages/     *)
(* core/src/store.ts): an action runs alone, from its start to its end or  *)
(* to the death of its process.  The models of the log and of the capture  *)
(* path rely on it: each of their locked sections is a single step.        *)
(***************************************************************************)
CONSTANT Procs

VARIABLE inside   \* the processes running an action under the lock

Init == inside = {}

Enter(p) == inside = {} /\ inside' = {p}

\* The action returned, threw, or died with its process.
Leave(p) == p \in inside /\ inside' = inside \ {p}

Next == \E p \in Procs : Enter(p) \/ Leave(p)

Spec == Init /\ [][Next]_inside

=============================================================================
