----------------------------- MODULE SessionLog -----------------------------
(***************************************************************************)
(* A session's append-only log and the operations on it (packages/core/    *)
(* src/store.ts, and undo.ts for the review verbs that end in a status     *)
(* write).  The log is a file of lines: edits, and control ops that refer  *)
(* to edits by their small display id.  Capture hooks append edits, review *)
(* front ends append verdicts and journal bulk ones; `clear`, the sweep of *)
(* ignored files and the repair of case phantoms rewrite the file.  Every  *)
(* locked section is one step (ExclusiveSection); what a front end read    *)
(* before it took the lock is a step of its own, and may be stale by the   *)
(* time it appends.                                                        *)
(***************************************************************************)
EXTENDS Integers, Sequences, FiniteSets, SequencesExt, FiniteSetsExt

CONSTANTS
  FrontEnds,    \* CLI, TUI and editor processes
  MaxEdits,     \* bound: edits captured in any session; the n-th one has uid n
  TailLines,    \* how many lines the bounded tail read of nextId sees
  Sessions      \* what is explored, and its bounds: see LogAssumption

\* A session starts from a log of captured edits; `by`: the front ends that review it; `edits`, `lines`,
\* `skips`: the bounds of edits captured, lines in the log, capture gaps reported; `torn`: whether an append may
\* be cut short (a full disk, a power loss); `ignorable`: the edits of files that rules may come to cover;
\* `phantoms`: the pairs of edits that one command's walk recorded under two cases of a drive letter.
ASSUME LogAssumption ==
  /\ MaxEdits \in Nat
  /\ TailLines \in Nat
  /\ \A s \in Sessions :
       /\ s.by \subseteq FrontEnds
       /\ s.edits \in 0 .. MaxEdits /\ s.lines \in Nat /\ s.skips \in Nat
       /\ s.torn \in BOOLEAN
       /\ s.ignorable \subseteq 1 .. MaxEdits
       /\ s.phantoms \subseteq (1 .. MaxEdits) \X (1 .. MaxEdits)
       /\ s.log \in Seq([t : {"edit"}, id : Nat, uid : Nat, status : {"pending"}])
       /\ Len(s.log) <= s.edits /\ Len(s.log) <= s.lines
       /\ \A i \in DOMAIN s.log : s.log[i].uid = i

VARIABLES
  session,  \* the one of Sessions that is explored
  log,      \* the lines of log.jsonl that parse
  torn,     \* "line": the last of them lacks its newline; "part": an unreadable part of one follows; or "no"
  filed,    \* capture gaps filed beside the log because it was busy
  edits,    \* how many edits have been captured
  missed,   \* those of them whose line was cut short, or glued to another
  gaps,     \* how many capture gaps have been reported
  rule,     \* whether an .observatoryignore covers the ignorable edits' files
  todo,     \* the status writes each front end still has to make
  read      \* what it has read for the first of them, or Nothing

vars == <<session, log, torn, filed, edits, missed, gaps, rule, todo, read>>

-----------------------------------------------------------------------------
(* Lines, and how they are read.                                           *)

\* The elements of a sequence that are in a set, in order.  (SelectSeq would do for the runs; the proofs need a
\* definition they can unfold.)
Only(s, S) ==
  LET only[n \in 0 .. Len(s)] ==
        IF n = 0 THEN <<>> ELSE IF s[n] \in S THEN Append(only[n - 1], s[n]) ELSE only[n - 1]
  IN  only[Len(s)]

\* The lines of some kinds.
LinesOf(lines, kinds) == Only(lines, {l \in ToSet(lines) : l.t \in kinds})

Status == {"pending", "kept", "undone"}

Edit(id, uid, status) == [t |-> "edit", id |-> id, uid |-> uid, status |-> status]
StatusOp(id, status) == [t |-> "status", id |-> id, status |-> status]
\* `of`: the edits the operation flipped (not in the file; the ids stand for them there).
BatchOp(kind, prev, of) == [t |-> "batch", kind |-> kind, prev |-> prev, of |-> of]
ScopeOp(ids) == [t |-> "scope", ids |-> ids]
SkipOp(n) == [t |-> "skip", n |-> n]
SweptOp(n) == [t |-> "swept", n |-> n]

Records == Seq([id : Nat, uid : Nat, status : Status])

\* Mutant of Parse: ids are taken as they are written.
ParseAsWritten(recs, line) ==
  CASE line.t = "edit" -> Append(recs, [id |-> line.id, uid |-> line.uid, status |-> line.status])
    [] line.t = "status" ->
         [i \in DOMAIN recs |->
            IF recs[i].id = line.id THEN [recs[i] EXCEPT !.status = line.status] ELSE recs[i]]
    [] OTHER -> recs

\* parseLogFile: an edit with an id already used is re-keyed above every id seen so far; a status op
\* lands on the edit that holds its id at that point of the file, if any.
Parse(recs, line) ==
  LET used == {recs[i].id : i \in DOMAIN recs}
  IN  CASE line.t = "edit" ->
             Append(recs, [id |-> IF line.id \in used THEN Max(used) + 1 ELSE line.id,
                           uid |-> line.uid, status |-> line.status])
        [] line.t = "status" ->
             [i \in DOMAIN recs |->
                IF recs[i].id = line.id THEN [recs[i] EXCEPT !.status = line.status] ELSE recs[i]]
        [] OTHER -> recs

\* A fold over the lines, with functions for TLC to evaluate each prefix once.
ReadLog(lines) ==
  LET parsed[n \in 0 .. Len(lines)] ==
        LET extended[recs \in Records] == Parse(recs, lines[n])
        IN  IF n = 0 THEN <<>> ELSE extended[parsed[n - 1]]
  IN  parsed[Len(lines)]

Ids(lines) == {r.id : r \in ToSet(ReadLog(lines))}
Uids(lines) == {r.uid : r \in ToSet(ReadLog(lines))}
With(lines, id) == CHOOSE r \in ToSet(ReadLog(lines)) : r.id = id
Of(lines, uid) == CHOOSE r \in ToSet(ReadLog(lines)) : r.uid = uid

IsIncreasing(s) == \A i \in 1 .. Len(s) - 1 : s[i] < s[i + 1]

\* Mutant of NextId: the bounded read starts at the head of the file.
NextIdFromHead(lines) ==
  LET head == LinesOf(SubSeq(lines, 1, TailLines), {"edit"})
      ids  == [i \in DOMAIN head |-> head[i].id]
  IN  IF Len(lines) > TailLines /\ Len(ids) >= 2 /\ IsIncreasing(ids)
      THEN Last(ids) + 1
      ELSE Max({0} \cup Ids(lines)) + 1

\* nextId: the tail of a long log answers alone when its edits' ids, as written, increase.
NextId(lines) ==
  LET from == Len(lines) - TailLines + 1
      tail == LinesOf(SubSeq(lines, from, Len(lines)), {"edit"})
      ids  == [i \in DOMAIN tail |-> tail[i].id]
  IN  IF from > 1 /\ Len(ids) >= 2 /\ IsIncreasing(ids)
      THEN Last(ids) + 1
      ELSE Max({0} \cup Ids(lines)) + 1

\* Mutant of Remembered: an undo of what is already undone counts as one.
RememberedAgain(acc, status) == IF status = "undone" THEN acc.cur ELSE acc.out

\* What a walk that stands at acc.cur answers for the last undo after a status op.
Remembered(acc, status) == IF status = "undone" /\ acc.cur # "undone" THEN acc.cur ELSE acc.out

\* statusesBeforeUndone: the verdict edit `id` held just before it was last undone.
BeforeUndone(lines, id) ==
  LET eff == ReadLog(lines)
      Walk(acc, line) ==
        CASE line.t = "edit" ->
               IF eff[acc.n + 1].id = id
               THEN [n |-> acc.n + 1, cur |-> line.status,
                     out |-> IF line.status = "undone" THEN "pending" ELSE acc.out]
               ELSE [acc EXCEPT !.n = @ + 1]
          [] line.t = "status" /\ line.id = id ->
               [acc EXCEPT !.cur = line.status, !.out = Remembered(acc, line.status)]
          [] OTHER -> acc
      walked[n \in 0 .. Len(lines)] ==
        IF n = 0 THEN [n |-> 0, cur |-> "pending", out |-> "pending"] ELSE Walk(walked[n - 1], lines[n])
  IN  walked[Len(lines)].out

\* retainedOpLines: what a rewrite carries over; verdicts are folded into the edits it writes.
RetainedOps(lines) == LinesOf(lines, {"batch", "scope", "skip", "swept"})

\* The edits of a log that are not in `dropped`.
Survivors(lines, dropped) == Only(ReadLog(lines), {r \in ToSet(ReadLog(lines)) : r.id \notin dropped})

\* Mutant of Rewritten: the verdicts are dropped with their lines.
RewrittenUnfolded(lines, dropped) ==
  LET kept == Survivors(lines, dropped)
  IN  RetainedOps(lines) \o [i \in DOMAIN kept |-> Edit(kept[i].id, kept[i].uid, "pending")]

\* Mutant of Rewritten: only the capture gaps are carried over.
RewrittenWithGaps(lines, dropped) ==
  LET kept == Survivors(lines, dropped)
  IN  LinesOf(lines, {"skip"}) \o [i \in DOMAIN kept |-> Edit(kept[i].id, kept[i].uid, kept[i].status)]

\* The log without the edits in `dropped`.
Rewritten(lines, dropped) ==
  LET kept == Survivors(lines, dropped)
  IN  RetainedOps(lines) \o [i \in DOMAIN kept |-> Edit(kept[i].id, kept[i].uid, kept[i].status)]

\* dropRecords: lines go by the id as written; every other line stays as it is.
DroppedRaw(lines, dead) == Only(lines, {l \in ToSet(lines) : l.t \in {"edit", "status"} => l.id \notin dead})

\* readSweep: how many edits sweeps have removed, as the last of them counted.
Swept(lines) == LET counts == LinesOf(lines, {"swept"}) IN IF counts = <<>> THEN 0 ELSE Last(counts).n

\* readSkips: the gaps marked in the log and those filed beside it.
ReadSkips == {l.n : l \in {m \in ToSet(log) : m.t = "skip"}} \cup filed

-----------------------------------------------------------------------------

Nothing == [changed |-> <<>>]

Init ==
  /\ session \in Sessions
  /\ log = session.log
  /\ torn = "no"
  /\ filed = {}
  /\ edits = Len(log)
  /\ missed = {}
  /\ gaps = 0
  /\ rule = FALSE
  /\ todo = [f \in FrontEnds |-> <<>>]
  /\ read = [f \in FrontEnds |-> Nothing]

\* The lines an append leaves readable: it is glued to one without its newline, and both are lost.
Ended == IF torn = "line" THEN Front(log) ELSE log

\* Of what is appended, the line that is glued to another, or to a part of one, is lost.
Glued(payload) == IF torn # "no" /\ payload # <<>> THEN Tail(payload) ELSE payload

\* appendFileSync, done in full.
AppendLines(payload) ==
  /\ Len(log) + Len(payload) <= session.lines
  /\ log' = Ended \o Glued(payload)
  /\ torn' = "no"

\* appendFileSync cut short: the first n lines get into the file, and what follows their newlines is nothing,
\* an unreadable part of the next line, or nothing with the last newline missing.
AppendTorn(payload) ==
  /\ session.torn
  /\ Len(log) + Len(payload) <= session.lines
  /\ \E n \in 0 .. Len(payload), cut \in {"no", "part", "line"} :
       /\ cut = "no" => n \in 1 .. Len(payload) - 1
       /\ cut = "part" => n < Len(payload)
       /\ cut = "line" => n > 0
       /\ log' = Ended \o Glued(SubSeq(payload, 1, n))
       /\ torn' = IF cut = "line" /\ n = 1 /\ torn # "no" THEN "part" ELSE cut

\* The captured edits that an append leaves out of the log for good.
Miss == missed' = missed \cup ((Uids(log) \cup (edits + 1) .. edits') \ Uids(log'))

-----------------------------------------------------------------------------
(* Capture hooks.                                                          *)

NewEdit == <<Edit(NextId(log), edits + 1, "pending")>>

\* The edits that rules cover now.
Ignored == IF rule THEN session.ignorable ELSE {}

\* appendLog: id allocation and append under the lock.  A file that rules cover is not captured (resolveFile).
CaptureEdit ==
  /\ edits < session.edits
  /\ edits + 1 \notin Ignored
  /\ AppendLines(NewEdit)
  /\ edits' = edits + 1
  /\ Miss
  /\ UNCHANGED <<session, filed, gaps, rule, todo, read>>

CaptureTorn ==
  /\ edits < session.edits
  /\ edits + 1 \notin Ignored
  /\ AppendTorn(NewEdit)
  /\ edits' = edits + 1
  /\ Miss
  /\ UNCHANGED <<session, filed, gaps, rule, todo, read>>

\* Mutant of ReportSkip: a gap met while the log is busy is not filed.
ReportSkipIfIdle ==
  /\ gaps < session.skips
  /\ gaps' = gaps + 1
  /\ AppendLines(<<SkipOp(gaps + 1)>>) \/ UNCHANGED <<log, torn>>
  /\ UNCHANGED <<session, filed, edits, rule, todo, read>>
  /\ Miss

\* appendSkip: a capture gap is reported in the log, or in a file of its own when the log is busy.  An append
\* that fails otherwise reports nothing, and the hook says so.
ReportSkip ==
  /\ gaps < session.skips
  /\ \/ AppendLines(<<SkipOp(gaps + 1)>>) /\ gaps' = gaps + 1 /\ UNCHANGED filed
     \/ filed' = filed \cup {gaps + 1} /\ gaps' = gaps + 1 /\ UNCHANGED <<log, torn>>
     \/ AppendTorn(<<SkipOp(gaps + 1)>>) /\ UNCHANGED <<gaps, filed>>
  /\ UNCHANGED <<session, edits, rule, todo, read>>
  /\ Miss

\* An .observatoryignore is written or taken away.
WriteRule ==
  /\ session.ignorable # {}
  /\ rule' = ~rule
  /\ UNCHANGED <<session, log, torn, filed, edits, missed, gaps, todo, read>>

\* sweepIgnoredIfChanged, after a capture: dropIgnored rewrites the log without the edits that rules cover,
\* whatever their status, and counts them.  (Capture gaps reported here are of files no rule covers.)
Sweep ==
  LET dead == {r.id : r \in {q \in ToSet(ReadLog(log)) : q.uid \in Ignored}}
      ops  == LinesOf(log, {"batch", "scope", "skip"})
      kept == LinesOf(Rewritten(log, dead), {"edit"})
  IN  /\ dead # {}
      /\ log' = ops \o <<SweptOp(Swept(log) + Cardinality(dead))>> \o kept
      /\ torn' = "no"
      /\ UNCHANGED <<session, filed, edits, missed, gaps, rule, todo, read>>

-----------------------------------------------------------------------------
(* Review front ends: a verb asks for status writes by id, each of which   *)
(* reads the log without the lock and appends under it.                    *)

Idle(f) == todo[f] = <<>>
Ready(f) == f \in session.by /\ Idle(f)

\* `meant`: the edits the reviewer was shown under these ids (not in the program).
Write(ids, status) == [ids |-> ids, status |-> status, meant |-> {With(log, i).uid : i \in ids}]

\* The status writes that give each edit its status in `to`, one per status, in the order of their first ids: the
\* one sequence of them.
Grouped(to) ==
  LET group(s) == {i \in DOMAIN to : to[i] = s}
      statuses == {to[i] : i \in DOMAIN to}
      orders   == {o \in [1 .. Cardinality(statuses) -> statuses] :
                     \A j, k \in DOMAIN o : j < k => Min(group(o[j])) < Min(group(o[k]))}
  IN  {[k \in DOMAIN o |-> Write(group(o[k]), o[k])] : o \in orders}

Ask(f, writes) ==
  /\ todo' = [todo EXCEPT ![f] = writes]
  /\ UNCHANGED <<session, log, torn, filed, edits, missed, gaps, rule, read>>

WithStatus(S) == {r.id : r \in {q \in ToSet(ReadLog(log)) : q.status \in S}}

\* Keeps of pending edits, and `keep --ids`, which takes undone ones too.
\* (resolveSession is a Keep of all that is pending and a Clear.)
Keep(f) ==
  /\ Ready(f)
  /\ \E ids \in (SUBSET WithStatus({"pending", "undone"})) \ {{}} : Ask(f, <<Write(ids, "kept")>>)

\* A bulk undo takes pending edits, an undo of one edit a kept one too; the files were rewritten.
Undo(f) ==
  /\ Ready(f)
  /\ \E ids \in (SUBSET WithStatus({"pending", "kept"})) \ {{}} :
       /\ ids \subseteq WithStatus({"pending"}) \/ Cardinality(ids) = 1
       /\ Ask(f, <<Write(ids, "undone")>>)

\* restoreStatuses: each redone edit goes back to the verdict it had before it was undone.
Redo(f) ==
  /\ Ready(f)
  /\ \E ids \in (SUBSET WithStatus({"undone"})) \ {{}} :
       \E writes \in Grouped([i \in ids |-> BeforeUndone(log, i)]) : Ask(f, writes)

Batches == LinesOf(log, {"batch"})

\* revertOperation on the last journaled operation.  Before-statuses of the operation's own kind are
\* replayed on the files (undoScope takes what is pending, redoScope what is undone); the others are
\* put back in the ledger alone.
RevertLast(f) ==
  /\ Ready(f)
  /\ Batches # <<>>
  /\ LET op == Last(Batches)
         canonical == CASE op.kind = "undo" -> "pending" [] op.kind = "redo" -> "undone" [] OTHER -> "none"
         live == DOMAIN op.prev \cap Ids(log)
         ledger == {i \in live : op.prev[i] # canonical}
         disk == live \ ledger
         replay == CASE op.kind = "undo" ->
                          Grouped([i \in disk \cap WithStatus({"undone"}) |-> BeforeUndone(log, i)])
                     [] op.kind = "redo" ->
                          Grouped([i \in disk \cap WithStatus({"pending"}) |-> "undone"])
                     [] OTHER -> {<<>>}
     IN  \E first \in Grouped([i \in ledger |-> op.prev[i]]), then \in replay :
           LET writes == first \o then
           IN  /\ writes # <<>>
               /\ Ask(f, [k \in DOMAIN writes |-> [writes[k] EXCEPT !.meant = op.of]])

\* repairCasePhantoms: pairs that are both pending, as the log was read without the lock.
Repair(f) ==
  LET pairs == {p \in session.phantoms :
                  \A u \in {p[1], p[2]} : \E r \in ToSet(ReadLog(log)) : r.uid = u /\ r.status = "pending"}
      doomed == {Of(log, p[1]).id : p \in pairs} \cup {Of(log, p[2]).id : p \in pairs}
  IN  /\ Ready(f)
      /\ doomed # {}
      /\ Ask(f, <<Write(doomed, "dropped")>>)

Dropping(f) == ~Idle(f) /\ Head(todo[f]).status = "dropped"

\* dropRecords, under the lock.
DropRecords(f) ==
  /\ Dropping(f)
  /\ log' = DroppedRaw(log, Head(todo[f]).ids)
  /\ torn' = "no"
  /\ todo' = [todo EXCEPT ![f] = Tail(@)]
  /\ UNCHANGED <<session, filed, edits, missed, gaps, rule, read>>

\* setStatus and setStatusMany, first half: which edits would change, from what.
ReadStatuses(f) ==
  /\ ~Idle(f) /\ ~Dropping(f)
  /\ read[f] = Nothing
  /\ LET want == Head(todo[f])
         changed == Only(ReadLog(log), {r \in ToSet(ReadLog(log)) : r.id \in want.ids /\ r.status # want.status})
     IN  IF changed = <<>>
         THEN todo' = [todo EXCEPT ![f] = Tail(@)] /\ UNCHANGED read
         ELSE read' = [read EXCEPT ![f] = [changed |-> changed]] /\ UNCHANGED todo
  /\ UNCHANGED <<session, log, torn, filed, edits, missed, gaps, rule>>

KindOf(status) == CASE status = "kept" -> "keep" [] status = "undone" -> "undo" [] OTHER -> "redo"

\* Second half: the payload built from what was read.  A bulk change is journaled in the same append.
Payload(f) ==
  LET status  == Head(todo[f]).status
      changed == read[f].changed
      ops     == [i \in DOMAIN changed |-> StatusOp(changed[i].id, status)]
      prev    == [i \in {r.id : r \in ToSet(changed)} |->
                    (CHOOSE r \in ToSet(changed) : r.id = i).status]
  IN  IF Len(changed) >= 2
      THEN <<BatchOp(KindOf(status), prev, {r.uid : r \in ToSet(changed)})>> \o ops
      ELSE ops

AppendStatuses(f) ==
  /\ read[f] # Nothing
  /\ AppendLines(Payload(f))
  /\ todo' = [todo EXCEPT ![f] = Tail(@)]
  /\ read' = [read EXCEPT ![f] = Nothing]
  /\ UNCHANGED <<session, filed, edits, gaps, rule>>
  /\ Miss

\* The lock was busy past the budget, or the append failed: the whole verb ends there.
Abandon(f) ==
  /\ \/ (read[f] # Nothing \/ Dropping(f)) /\ UNCHANGED <<log, torn>>
     \/ read[f] # Nothing /\ AppendTorn(Payload(f))
  /\ todo' = [todo EXCEPT ![f] = <<>>]
  /\ read' = [read EXCEPT ![f] = Nothing]
  /\ UNCHANGED <<session, filed, edits, gaps, rule>>
  /\ Miss

\* appendScopeOverride (`assign`): these edits belong to another prompt.
Assign(f) ==
  /\ Ready(f)
  /\ \E i \in Ids(log) : AppendLines(<<ScopeOp({i})>>) \/ AppendTorn(<<ScopeOp({i})>>)
  /\ UNCHANGED <<session, filed, edits, gaps, rule, todo, read>>
  /\ Miss

\* clearResolved and clearResolvedIds: read, rewrite and rename under the lock.
Clear(f) ==
  /\ Ready(f)
  /\ UNCHANGED <<session, filed, edits, missed, gaps, rule, todo, read>>
  /\ torn' = "no"
  /\ \E ids \in (SUBSET WithStatus({"kept", "undone"})) \ {{}} : log' = Rewritten(log, ids)

-----------------------------------------------------------------------------

Next ==
  \/ CaptureEdit \/ CaptureTorn \/ ReportSkip \/ WriteRule \/ Sweep
  \/ \E f \in FrontEnds :
       \/ Keep(f) \/ Undo(f) \/ Redo(f) \/ RevertLast(f)
       \/ ReadStatuses(f) \/ AppendStatuses(f) \/ Abandon(f)
       \/ Assign(f) \/ Clear(f) \/ Repair(f) \/ DropRecords(f)

Spec == Init /\ [][Next]_vars

-----------------------------------------------------------------------------
(* Properties.                                                             *)

TypeOK ==
  /\ session \in Sessions
  /\ \A l \in ToSet(log) : l.t \in {"edit", "status", "batch", "scope", "skip", "swept"}
  /\ Len(log) <= session.lines
  /\ torn \in {"no", "part", "line"}
  /\ filed \subseteq 1 .. session.skips
  /\ edits \in 0 .. session.edits
  /\ missed \subseteq 1 .. edits
  /\ rule \in BOOLEAN
  /\ gaps \in 0 .. session.skips
  /\ \A f \in FrontEnds : \A w \in ToSet(todo[f]) : 
       w.ids \in SUBSET (1 .. MaxEdits) /\ w.status \in Status \cup {"dropped"}
  /\ \A f \in FrontEnds : read[f] # Nothing => ~Idle(f) /\ Len(read[f].changed) \in 1 .. MaxEdits

\* The ledger that some lines of the log stand for, when the edits in `out` are lost.
LedgerOf(lines, out) ==
  LET held[recs \in Records] ==
        [e \in 1 .. MaxEdits |->
           IF \E i \in DOMAIN recs : recs[i].uid = e THEN recs[CHOOSE i \in DOMAIN recs : recs[i].uid = e].status
           ELSE IF e <= edits /\ e \notin out THEN "cleared" ELSE "none"]
  IN  held[ReadLog(lines)]

Verdicts == LedgerOf(log, missed)

\* The ledger without the last line, while that lacks its newline.
EndedVerdicts ==
  IF torn = "line" THEN LedgerOf(Ended, missed \cup (Uids(log) \ Uids(Ended))) ELSE Verdicts

Excluded == Ignored \cup {p[1] : p \in session.phantoms} \cup {p[2] : p \in session.phantoms}

\* The log implements the ledger: through stale reads, appends cut short, retained ops, rewrites and re-keyed ids,
\* an edit is lost only by a clear that found a verdict on it, a pending edit never ("keeping every pending one",
\* clearResolved), and no append or rewrite changes a verdict, but for that of a last line without its newline.
Ledger == INSTANCE ReviewLedger WITH
            Edits <- 1 .. MaxEdits, verdict <- Verdicts, ended <- EndedVerdicts, excluded <- Excluded
ImplementsLedger == Ledger!Spec

\* The steps that write the file anew.
Rewrites == Sweep \/ \E f \in FrontEnds : Clear(f) \/ DropRecords(f)

\* The lines a step starts from: a rewrite ends a line that lacks its newline, an append is glued to it.
Base == IF Rewrites THEN log ELSE Ended

\* An edit keeps its display id, shared with no other, until it is cleared, even in a log with
\* duplicate ids ("effective ids are stable across future appends", parseLogFile): the id a reviewer
\* was shown goes on naming that edit.
StableIds ==
  [][\A was \in {ReadLog(log)}, now \in {ReadLog(log')} :
       /\ \A i, j \in DOMAIN now : now[i].id = now[j].id => i = j
       /\ \A i \in DOMAIN was, j \in DOMAIN now : was[i].uid = now[j].uid => was[i].id = now[j].id]_log

\* The id appendLog answers is the id every reader gives the edit ("a subsequent append can't re-collide",
\* nextId), whether the tail of the log answered or all of it, if no line is cut short and the session started
\* without duplicate ids.
AnswersItsId ==
  [][CaptureEdit /\ torn = "no" /\ IsIncreasing([i \in DOMAIN session.log |-> session.log[i].id])
       => Of(log', edits').id = NextId(log)]_vars

\* "`nextId`, reading this reconciled log, won't re-collide" (parseLogFile): so in every log, the duplicates that
\* unlocked writers left included.
AnswersInAnyLog ==
  [][CaptureEdit /\ torn = "no" => Of(log', edits').id = NextId(log)]_vars

\* Redo restores the verdict an edit had when it was undone: whatever other front ends append, the walk of
\* statusesBeforeUndone remembers it until a rewrite discards the history.  (A verdict whose line lacks its
\* newline is one of Base only for a rewrite; LogGlued shows the append that takes it away.)
RedoRemembers ==
  [][\A base \in {Base} : \A was \in {ReadLog(base)}, now \in {ReadLog(log')} :
       \A i \in DOMAIN was, j \in DOMAIN now :
         was[i].uid = now[j].uid /\ now[j].status = "undone" =>
           LET remembered == BeforeUndone(log', now[j].id)
           IN  \/ was[i].status # "undone" /\ remembered = was[i].status
               \/ was[i].status = "undone" /\ remembered = BeforeUndone(base, was[i].id)
               \/ (Sweep \/ \E f \in FrontEnds : Clear(f)) /\ remembered = "pending"]_log

\* A capture gap once reported is reported to every later reader, whether the log was busy at the
\* time and whatever was cleared since ("A capture failure must remain visible even while
\* maintenance owns the log", appendSkip), where no append is cut short.
GapsStayVisible == ~session.torn => ReadSkips = 1 .. gaps

\* A rewrite loses and reorders nothing that is not an edit or folded into one: capture gaps,
\* journaled operations and attributions only accumulate, and so does the count of what sweeps removed
\* (retainedOpLines, readSweep); so do they through appends, but for a last line without its newline.
JournalOnlyGrows ==
  [][\A base \in {Base} :
       /\ IsPrefix(LinesOf(base, {"batch", "scope", "skip"}), LinesOf(log', {"batch", "scope", "skip"}))
       /\ Swept(base) <= Swept(log')]_log

\* "Reads stay lock-free (append-only + torn-line tolerance)" (store.ts, the advisory lock): what a reader has read
\* stays in the log until a rewrite.
SeenStays ==
  [][~Rewrites => IsPrefix(log, log')]_log

\* An edit that appendLog reports as captured can be read back ("append-only + torn-line tolerance").
CapturedIsReadable ==
  [][CaptureEdit => edits' \in Uids(log')]_vars

\* A new edit's id was never another's: no journaled operation or attribution in the log already
\* speaks of it ("Monotonic per-session integer id").
FreshIds ==
  [][CaptureEdit =>
       \A l \in ToSet(RetainedOps(log)) :
         /\ l.t = "batch" => NextId(log) \notin DOMAIN l.prev
         /\ l.t = "scope" => NextId(log) \notin l.ids]_vars

\* A status write changes only edits its reviewer was shown under those ids ("safe against a
\* concurrent capture-hook append", setStatus).
DecisionLandsOnItsEdit ==
  [][\A f \in FrontEnds : AppendStatuses(f) =>
       \A u \in Uids(log) \cap Uids(log') :
         Of(log, u).status # Of(log', u).status => u \in Head(todo[f]).meant]_vars

\* A journaled operation carries each edit's status just before it was flipped ("a bulk status flip
\* with each record's BEFORE-status", BatchOp).
JournalTellsBefore ==
  [][\A f \in FrontEnds : AppendStatuses(f) =>
       \A r \in ToSet(read[f].changed) :
         Len(read[f].changed) >= 2 /\ r.uid \in Uids(log) => Of(log, r.uid).status = r.status]_vars

=============================================================================
