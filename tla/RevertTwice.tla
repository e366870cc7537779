---------------------------- MODULE RevertTwice -----------------------------
(***************************************************************************)
(* Two reverts of the last journaled operation in a row, by a reviewer who *)
(* does nothing in between (cmdOplog in packages/cli/src/index.ts over     *)
(* revertOperation in packages/core/src/undo.ts).                          *)
(***************************************************************************)
EXTENDS MCSessionLog

VARIABLES
  reverts,   \* reverts begun since anything else was asked for
  before     \* the ledger when the first of them was

MayRevert == reverts < 2 /\ \A f \in FrontEnds : Idle(f)

RevertInit == Init /\ reverts = 0 /\ before = Verdicts

\* cmdOplog --revert-last: the newest journaled operation, read again each time.
Revert(f) ==
  /\ MayRevert
  /\ RevertLast(f)
  /\ reverts' = reverts + 1
  /\ before' = IF reverts = 0 THEN Verdicts ELSE before

Settle(f) ==
  /\ ReadStatuses(f) \/ AppendStatuses(f)
  /\ UNCHANGED <<reverts, before>>

Other ==
  /\ CaptureEdit \/ \E f \in FrontEnds : Keep(f) \/ Undo(f) \/ Redo(f)
  /\ reverts' = 0
  /\ UNCHANGED before

RevertNext == Other \/ \E f \in FrontEnds : Revert(f) \/ Settle(f)

RevertSpec == RevertInit /\ [][RevertNext]_<<vars, reverts, before>>

-----------------------------------------------------------------------------

\* "`oplog --revert-last` twice lands where it started" (setStatusMany, and revertOperation in its own
\* words): the ledger after two reverts is the ledger before them.
TwiceLandsWhereItStarted ==
  reverts = 2 /\ (\A f \in FrontEnds : Idle(f)) => Verdicts = before

=============================================================================
