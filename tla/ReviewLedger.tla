---------------------------- MODULE ReviewLedger ----------------------------
(***************************************************************************)
(* What a session's log promises its reviewer, without lines, ids or       *)
(* rewrites: every captured edit stays in the ledger until it carries a    *)
(* verdict and is cleared, or is one of those the reviewer's rules or the  *)
(* repair of phantoms take out; and only a reviewer's decision changes a   *)
(* verdict.                                                                *)
(***************************************************************************)
EXTENDS FiniteSets

CONSTANT Edits

VARIABLES
  verdict,   \* the status of the edits in the ledger, "none" before capture, "cleared" after
  ended,     \* the same as it falls back to if its last entry, not yet safe in the log, is lost
  excluded   \* the edits of files that rules cover, and those no change of a file stands behind

Status == {"pending", "kept", "undone"}

Init ==
  /\ verdict \in [Edits -> {"none", "pending"}]
  /\ ended = verdict
  /\ excluded \in SUBSET Edits

(* Steps as relations between the ledger as it was and as it is now. *)

\* Capturing an edit enters it as pending.
Captured(was, now) ==
  \E e \in Edits : was[e] = "none" /\ now = [was EXCEPT ![e] = "pending"]

\* A reviewer's decision gives some of the edits in the ledger a status.
Decided(was, now) ==
  \E s \in Status : \A e \in Edits : now[e] = was[e] \/ (was[e] \in Status /\ now[e] = s)

\* A clear takes out edits that carry a verdict, and no pending one.
Cleared(was, now) ==
  \A e \in Edits : now[e] = was[e] \/ (was[e] \in {"kept", "undone"} /\ now[e] = "cleared")

\* A sweep or a repair takes out excluded edits, whatever their status.
TakenOut(was, now) ==
  \A e \in Edits : now[e] = was[e] \/ (e \in excluded /\ was[e] \in Status /\ now[e] = "cleared")

Step(was, now) == Captured(was, now) \/ Decided(was, now) \/ Cleared(was, now) \/ TakenOut(was, now)

\* A step starts from the ledger, or from what it falls back to; the entries it makes are one such step, and so are
\* those of them that are safe.
Next ==
  /\ \E was \in {verdict}, back \in {ended}, now \in {verdict'}, safe \in {ended'} :
       /\ {now, safe} \subseteq [Edits -> Status \cup {"none", "cleared"}]
       /\ \/ now = was /\ safe = back
          \/ \E from \in {was, back} : Step(from, now) /\ Step(from, safe)
  /\ excluded' \in SUBSET Edits

Spec == Init /\ [][Next]_<<verdict, ended, excluded>>

=============================================================================
