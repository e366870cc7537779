----------------------------- MODULE FileReview -----------------------------
(***************************************************************************)
(* Reviewing the edits of one file: undo, redo, force, keep and the repair *)
(* (packages/core/src/undo.ts; cmdKeep in packages/cli/src/index.ts).  An  *)
(* undo or a redo rewrites the file under the file lock (LockFile) and     *)
(* then writes statuses to the session's log (SessionLog): two stores that *)
(* no transaction joins, with agents and other reviewers at both.          *)
(*                                                                         *)
(* A content is the set of edits whose change is in the file.  An edit has *)
(* its two captured snapshots and the edits whose lines it shares; merges  *)
(* are three-way merges over these.  Every edit is a review unit of its    *)
(* own, every one has a before-state that was captured, and a status write *)
(* is one step (SessionLog opens it up) but where a verb reads statuses    *)
(* long before.                                                            *)
(***************************************************************************)
EXTENDS Integers, Sequences, FiniteSets, SequencesExt, FiniteSetsExt

CONSTANTS
  Reviewers,    \* processes that review: the CLI, the TUI, the editors
  Nobody,       \* the holder of a free lock
  Sessions,     \* bound: who reviews (by), what they ask for (verbs), the edits captured, the reviewers that die
  Kinds,        \* what agents do to the file: "modify", "create", "delete"
  AgentsRace    \* whether an agent may write between a verb's read of the file and its write

ASSUME ReviewAssumption ==
  /\ Nobody \notin Reviewers
  /\ Kinds \subseteq {"modify", "create", "delete"}
  /\ \A s \in Sessions :
       /\ s.by \subseteq Reviewers /\ s.edits \in Nat /\ s.crashes \in Nat
       /\ s.verbs \subseteq {"undo", "undoScope", "redo", "redoScope", "restoreFile", "reapplyFile",
                              "keepGroup", "keepIds", "recordOnly"}
  /\ AgentsRace \in BOOLEAN

VARIABLES
  session,   \* the one of Sessions that is explored
  disk,      \* the file
  recs,      \* the edits captured: snapshots before and after, and whose lines they share
  verdict,   \* the status of each in the session's log
  prior,     \* the status each had before it was last undone (statusesBeforeUndone)
  lock,      \* who holds the file lock
  job,       \* what each reviewer is doing
  owed,      \* the --record-only commands that reports have named and nobody has run yet
  lost,      \* edits rewritten by a process that died before it could record or report them
  crashes

vars == <<session, disk, recs, verdict, prior, lock, job, owed, lost, crashes>>

-----------------------------------------------------------------------------
(* Contents and merges.                                                    *)

Status == {"pending", "kept", "undone"}
Edits == DOMAIN recs

Absent == [there |-> FALSE, has |-> {}]
Holding(S) == [there |-> TRUE, has |-> S]

Changed(a, b) == (a.has \ b.has) \cup (b.has \ a.has)
Overlap(d, e) == d \in recs[e].over \/ e \in recs[d].over

\* threeWayMerge: both sides' changes, unless they touch the same lines.  The operators below answer
\* the contents a verb may leave: none on a conflict, and a merge that changes nothing is one too.
Merged(base, ours, theirs) ==
  LET mine  == Changed(base, ours)
      yours == Changed(base, theirs)
      both  == Holding((base.has \ (mine \cup yours)) \cup ((mine \cup yours) \ base.has))
  IN  IF both = ours \/ \E d \in mine, e \in yours : Overlap(d, e) THEN {} ELSE {both}

\* Mutant of UndoResult: the file is put back as it was before the edit, without a merge.
UndoByRestore(r, now) == {r.before}

\* undoRecordUnlocked, one branch each.
UndoResult(r, now) ==
  CASE r.before = Absent -> IF now.there /\ now # r.after THEN {} ELSE {Absent}
    [] r.before # Absent /\ r.after = Absent -> IF now.there THEN {} ELSE {r.before}
    [] r.before # Absent /\ r.after # Absent ->
         IF ~now.there \/ now = r.after THEN {r.before} ELSE Merged(r.after, now, r.before)

\* redoRecordUnlocked.  redoMerge goes by the file's later recorded states to find the place of lines
\* among their neighbours, which a set of edits does not have.
RedoResult(r, now) ==
  CASE r.before = Absent -> IF now.there /\ now # r.after THEN {} ELSE {r.after}
    [] r.before # Absent /\ r.after = Absent -> IF now.there /\ now # r.before THEN {} ELSE {Absent}
    [] r.before # Absent /\ r.after # Absent ->
         IF ~now.there \/ now = r.before THEN {r.after} ELSE Merged(r.before, now, r.after)

WithStatus(S) == {e \in Edits : verdict[e] \in S}

\* laterSameFile: what a wholesale rewrite from edit `e` on drops.
LaterSameFile(e) == {d \in WithStatus({"pending", "kept"}) : d > e}

-----------------------------------------------------------------------------
(* A reviewer's job: the verb, its targets still to do, the file as it     *)
(* read it, the targets it has rewritten, and the status writes it owes.   *)

Job(verb, at, todo, parts) == [verb |-> verb, at |-> at, todo |-> todo, base |-> Absent, parts |-> parts]
Idle == Job("none", "idle", {}, <<>>)
Part(verb, ids) == [verb |-> verb, ids |-> ids]
IsBulk(verb) == verb \in {"undoScope", "redoScope"}
DoesUndo(verb) == verb \in {"undo", "undoScope"}

Init ==
  /\ session \in Sessions
  /\ disk = IF "create" \in Kinds THEN Absent ELSE Holding({})
  /\ recs = <<>>
  /\ verdict = <<>>
  /\ prior = <<>>
  /\ lock = Nobody
  /\ job = [r \in Reviewers |-> Idle]
  /\ owed = {}
  /\ lost = {}
  /\ crashes = 0

Ask(r, verb, at, todo, parts) ==
  /\ r \in session.by /\ verb \in session.verbs
  /\ job[r] = Idle
  /\ job' = [job EXCEPT ![r] = Job(verb, at, todo, parts)]
  /\ UNCHANGED <<session, disk, recs, verdict, prior, lock, owed, lost, crashes>>

-----------------------------------------------------------------------------
(* Agents edit the file, and hooks capture what they did.                  *)

\* The new content an edit of a kind leaves of the file.
Edited(kind, e) ==
  CASE kind = "create" -> IF disk.there THEN {} ELSE {Holding({e})}
    [] kind = "modify" -> IF disk.there THEN {Holding(disk.has \cup {e})} ELSE {}
    [] kind = "delete" -> IF disk.there THEN {Absent} ELSE {}

AgentEdit ==
  /\ Len(recs) < session.edits
  /\ AgentsRace \/ \A r \in Reviewers : job[r].at # "write"
  /\ \E kind \in Kinds, over \in SUBSET Edits :
       \E now \in Edited(kind, Len(recs) + 1) :
         /\ disk' = now
         /\ recs' = Append(recs, [before |-> disk, after |-> now, over |-> over])
  /\ verdict' = Append(verdict, "pending")
  /\ prior' = Append(prior, "pending")
  /\ UNCHANGED <<session, lock, job, owed, lost, crashes>>

-----------------------------------------------------------------------------
(* What a reviewer asks for; the statuses it goes by are read here, before *)
(* any lock.                                                               *)

\* undoEdit: one edit, kept or not.
Undo(r) == \E e \in WithStatus({"pending", "kept"}) : Ask(r, "undo", "next", {e}, <<>>)

\* undoScope: pending edits of a scope.
UndoScope(r) == \E S \in (SUBSET WithStatus({"pending"})) \ {{}} : Ask(r, "undoScope", "next", S, <<>>)

Redo(r) == \E e \in WithStatus({"undone"}) : Ask(r, "redo", "next", {e}, <<>>)

\* redoScope: undone edits of a scope.
RedoScope(r) == \E S \in (SUBSET WithStatus({"undone"})) \ {{}} : Ask(r, "redoScope", "next", S, <<>>)

\* `undo --force` and `redo --force`, whatever the edit's status.
RestoreFile(r) == \E e \in Edits : Ask(r, "restoreFile", "next", {e}, <<>>)
ReapplyFile(r) == \E e \in Edits : Ask(r, "reapplyFile", "next", {e}, <<>>)

\* keepGroup and keepTask: only pending edits.
KeepGroup(r) ==
  \E S \in (SUBSET WithStatus({"pending"})) \ {{}} : Ask(r, "keepGroup", "keep", {}, <<Part("keep", S)>>)

\* `keep --ids`: setStatusMany on every edit of the set that is not kept yet.
KeepIds(r) ==
  \E S \in (SUBSET WithStatus({"pending", "undone"})) \ {{}} :
    Ask(r, "keepIds", "keep", {}, <<Part("keep", S)>>)

\* `--record-only`, as a report named it; no file is touched.
RecordOnly(r) ==
  \E p \in owed :
    /\ r \in session.by /\ "recordOnly" \in session.verbs
    /\ job[r] = Idle
    /\ job' = [job EXCEPT ![r] = Job("recordOnly", "record", {}, <<p>>)]
    /\ owed' = owed \ {p}
    /\ UNCHANGED <<session, disk, recs, verdict, prior, lock, lost, crashes>>

-----------------------------------------------------------------------------
(* Rewriting the file, target by target (withFileMutation).                *)

\* Mutant of Target: every walk takes the edits in the order they were captured.
TargetAsCaptured(r) == Min(job[r].todo)

\* A bulk undo goes newest first, a bulk redo in the original order.
Target(r) == IF job[r].verb = "undoScope" THEN Max(job[r].todo) ELSE Min(job[r].todo)

\* On to the next target, or to the status writes of a bulk verb, or done.
NextTarget(r, parts) ==
  LET left == job[r].todo \ {Target(r)}
  IN  job' = [job EXCEPT ![r] =
                IF left = {} /\ parts = <<>> THEN Idle
                ELSE [@ EXCEPT !.at = IF left = {} THEN "record" ELSE "next",
                               !.base = Absent, !.todo = left, !.parts = parts]]

\* Mutant of Look: the file is read without waiting for the lock.
LookUnlocked(r) ==
  /\ job[r].at = "next"
  /\ lock' = r
  /\ job' = [job EXCEPT ![r].at = "write", ![r].base = disk]
  /\ UNCHANGED <<session, disk, recs, verdict, prior, owed, lost, crashes>>

\* The lock is taken and the file read.
Look(r) ==
  /\ job[r].at = "next"
  /\ lock = Nobody
  /\ lock' = r
  /\ job' = [job EXCEPT ![r].at = "write", ![r].base = disk]
  /\ UNCHANGED <<session, disk, recs, verdict, prior, owed, lost, crashes>>

\* FileBusyError: this target is refused.
Busy(r) ==
  /\ job[r].at = "next"
  /\ lock # Nobody
  /\ NextTarget(r, job[r].parts)
  /\ UNCHANGED <<session, disk, recs, verdict, prior, lock, owed, lost, crashes>>

Results(r) ==
  LET e == Target(r)
  IN  IF DoesUndo(job[r].verb) THEN UndoResult(recs[e], job[r].base) ELSE RedoResult(recs[e], job[r].base)

\* The status writes of a bulk verb that has rewritten one target more.
Flushing(r) ==
  LET verb == IF DoesUndo(job[r].verb) THEN "undo" ELSE "redo"
  IN  IF job[r].parts = <<>> THEN <<Part(verb, {Target(r)})>>
      ELSE <<[job[r].parts[1] EXCEPT !.ids = @ \cup {Target(r)}]>>

\* An undo or a redo rewrites the file.  A bulk one lets go of it with its status still to be
\* written; a single one records under the lock.
Write(r) ==
  /\ job[r].at = "write"
  /\ job[r].verb \in {"undo", "undoScope", "redo", "redoScope"}
  /\ disk' \in Results(r)
  /\ IF IsBulk(job[r].verb)
     THEN NextTarget(r, Flushing(r)) /\ lock' = Nobody
     ELSE job' = [job EXCEPT ![r].at = "record", ![r].todo = {}, ![r].parts = Flushing(r), ![r].base = Absent]
          /\ UNCHANGED lock
  /\ UNCHANGED <<session, recs, verdict, prior, owed, lost, crashes>>

\* A conflict: the file is untouched and no status is written.
Conflict(r) ==
  /\ job[r].at = "write"
  /\ job[r].verb \in {"undo", "undoScope", "redo", "redoScope"}
  /\ Results(r) = {}
  /\ NextTarget(r, job[r].parts)
  /\ lock' = Nobody
  /\ UNCHANGED <<session, disk, recs, verdict, prior, owed, lost, crashes>>

\* restoreFileUnlocked and reapplyFileUnlocked: the snapshot is written wholesale.
WriteSnapshot(r) ==
  /\ job[r].at = "write"
  /\ job[r].verb \in {"restoreFile", "reapplyFile"}
  /\ LET e == Target(r)
         undo == job[r].verb = "restoreFile"
         its == Part(IF undo THEN "undo" ELSE "redo", {e})
         parts == IF LaterSameFile(e) = {} THEN <<its>> ELSE <<its, Part("undo", LaterSameFile(e))>>
     IN  /\ disk' = IF undo THEN recs[e].before ELSE recs[e].after
         /\ job' = [job EXCEPT ![r].at = "record", ![r].todo = {}, ![r].parts = parts, ![r].base = Absent]
  /\ UNCHANGED <<session, recs, verdict, prior, lock, owed, lost, crashes>>

-----------------------------------------------------------------------------
(* Writing statuses.                                                       *)

Unlocked(r) == lock' = IF lock = r THEN Nobody ELSE lock

\* setStatusMany, and restoreStatuses for a redo.
SetStatuses(part) ==
  LET to(e) == CASE part.verb = "undo" -> "undone" [] part.verb = "keep" -> "kept" [] OTHER -> prior[e]
  IN  /\ verdict' = [e \in Edits |-> IF e \in part.ids THEN to(e) ELSE verdict[e]]
      /\ prior' = [e \in Edits |->
                     IF e \in part.ids /\ to(e) = "undone" /\ verdict[e] # "undone" THEN verdict[e] ELSE prior[e]]

\* recordOnly goes by the statuses it finds: an edit that is not undone is not redone.
Recorded(r) ==
  LET p == Head(job[r].parts)
  IN  IF job[r].verb = "recordOnly" /\ p.verb = "redo" THEN [p EXCEPT !.ids = @ \cap WithStatus({"undone"})] ELSE p

\* recordAfterDisk, one part at a time.
Record(r) ==
  /\ job[r].at \in {"record", "keep"}
  /\ SetStatuses(Recorded(r))
  /\ IF Len(job[r].parts) > 1
     THEN job' = [job EXCEPT ![r].parts = Tail(@)] /\ UNCHANGED lock
     ELSE job' = [job EXCEPT ![r] = Idle] /\ Unlocked(r)
  /\ UNCHANGED <<session, disk, recs, owed, lost, crashes>>

\* Mutant of RecordFails: the failure is not reported.
RecordFailsSilently(r) ==
  /\ job[r].at = "record"
  /\ job' = [job EXCEPT ![r] = Idle]
  /\ Unlocked(r)
  /\ UNCHANGED <<session, disk, recs, verdict, prior, owed, lost, crashes>>

\* UnrecordedError: the store stayed busy.  The failed part and every part after it are reported with
\* the command that records them.
RecordFails(r) ==
  /\ job[r].at = "record"
  /\ owed' = owed \cup ToSet(job[r].parts)
  /\ job' = [job EXCEPT ![r] = Idle]
  /\ Unlocked(r)
  /\ UNCHANGED <<session, disk, recs, verdict, prior, lost, crashes>>

\* StoreBusyError out of a keep: nothing was done.
KeepFails(r) ==
  /\ job[r].at = "keep"
  /\ job' = [job EXCEPT ![r] = Idle]
  /\ UNCHANGED <<session, disk, recs, verdict, prior, lock, owed, lost, crashes>>

\* Its file lock is broken as a dead owner's (LockFile).
Crash(r) ==
  /\ crashes < session.crashes
  /\ job[r].at \in {"next", "write", "record"}
  /\ crashes' = crashes + 1
  /\ lost' = lost \cup (UNION {p.ids : p \in ToSet(job[r].parts)})
  /\ job' = [job EXCEPT ![r] = Idle]
  /\ Unlocked(r)
  /\ UNCHANGED <<session, disk, recs, verdict, prior, owed>>

-----------------------------------------------------------------------------

Next ==
  \/ AgentEdit
  \/ \E r \in Reviewers :
       \/ Undo(r) \/ UndoScope(r) \/ Redo(r) \/ RedoScope(r) \/ RestoreFile(r) \/ ReapplyFile(r)
       \/ KeepGroup(r) \/ KeepIds(r) \/ RecordOnly(r)
       \/ Look(r) \/ Busy(r) \/ Write(r) \/ Conflict(r) \/ WriteSnapshot(r)
       \/ Record(r) \/ RecordFails(r) \/ KeepFails(r) \/ Crash(r)

Spec == Init /\ [][Next]_vars

-----------------------------------------------------------------------------
(* Properties.                                                             *)

Contents == [there : BOOLEAN, has : SUBSET (1 .. session.edits)]

TypeOK ==
  /\ session \in Sessions
  /\ disk \in Contents
  /\ \A e \in Edits : recs[e].before \in Contents /\ recs[e].after \in Contents /\ recs[e].over \subseteq 1 .. e - 1
  /\ verdict \in [Edits -> Status]
  /\ prior \in [Edits -> {"pending", "kept"}]
  /\ lock \in Reviewers \cup {Nobody}
  /\ \A r \in Reviewers :
       /\ job[r].at \in {"idle", "next", "write", "record", "keep"}
       /\ job[r].at \in {"next", "write"} => job[r].todo # {}
       /\ job[r].at \in {"record", "keep"} => job[r].parts # <<>>
       /\ job[r].at = "write" => lock = r
  /\ lost \subseteq Edits
  /\ \A p \in owed : p.ids \subseteq Edits
  /\ crashes \in 0 .. session.crashes

\* The ledger says of the edit what the file does not show.
Mismatch(e) ==
  /\ disk.there
  /\ IF recs[e].after = Absent THEN verdict[e] # "undone" ELSE (verdict[e] = "undone") = (e \in disk.has)

\* A status write for the edit is on its way, or was reported as still to be made.
InHand(e) ==
  \/ \E r \in Reviewers : \E p \in ToSet(job[r].parts) : e \in p.ids
  \/ \E p \in owed : e \in p.ids

\* Where the ledger disagrees with the file, a reviewer is about to write the status, a report has named
\* the command that does ("Records whose files were rewritten but whose status could not be written -
\* reported, never dropped", Unrecorded), or its process died.
AccountedAlways == \A e \in Edits : Mismatch(e) => InHand(e) \/ e \in lost

\* What agents do: they modify the file, and none writes between a verb's read and write.
Modifying == Kinds = {"modify"} /\ ~AgentsRace

\* No verb overwrites the file wholesale or keeps what was undone.
Merges == session.verbs \cap {"restoreFile", "reapplyFile", "keepIds"} = {}

\* At most one process reviews.
Alone == \A r, q \in session.by : r = q

OnlyUndoes == session.verbs \subseteq {"undo", "undoScope", "recordOnly"}

\* So it is, of verbs that merge into a file that agents only modify, for one reviewer, whatever it asks for after
\* whatever refusals, failed status writes and deaths, and for several, in any interleaving, that undo and repair.
\* FilePairs.cfg has what else breaks AccountedAlways: a second reviewer that redoes or keeps may settle an edit while
\* its status is still another's to write (undo.ts:966), and a snapshot put back whole brings other edits with it.
Accounted == Modifying /\ Merges /\ (Alone \/ OnlyUndoes) => AccountedAlways

\* An undo or a redo changes its own edit in the file and no other one ("undo only N while keeping
\* later edits", and "external writers are still detected by content comparison").
OnlyItsEdit ==
  [][\A r \in Reviewers : Write(r) => Changed(disk, disk') = {Target(r)}]_vars

\* A bulk undo goes newest first so that no target stands in the way of another: what it conflicts
\* with is an edit that is not among the targets it has still to reach, unless the target itself was
\* reverted meanwhile (undoScope).
ScopeConflictsAreOthers ==
  [][\A r \in Reviewers : Conflict(r) /\ job[r].verb = "undoScope" =>
       \/ \E d \in Edits \ job[r].todo : Overlap(d, Target(r))
       \/ Target(r) \notin disk.has]_vars

\* A kept edit is in the file ("keeping an already-undone edit would assert a change that isn't on
\* disk", keepTask and keepGroup).
KeptIsOnDisk ==
  \A e \in Edits : Mismatch(e) /\ verdict[e] = "kept" => InHand(e) \/ e \in lost

=============================================================================
