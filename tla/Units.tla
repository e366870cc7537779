------------------------------- MODULE Units -------------------------------
(***************************************************************************)
(* Review units (packages/core/src/units.ts): what a person is asked to    *)
(* accept or revert.  A session's edits of one file are split into         *)
(* contiguous spans by the lines they share, and a decision is made about  *)
(* a whole span (keepGroup, undoGroup in undo.ts) or about edits by their  *)
(* ids (undoScope).  Every line is terminated, no record's before-state is *)
(* uncertain, and an ask stands for its prompt and the model that ran it.  *)
(***************************************************************************)
EXTENDS Lines, FiniteSetsExt

CONSTANTS
  Texts,       \* what a file may hold: sequences of lines
  Foreign,     \* what it holds at first, or someone else makes of it
  Scoped,      \* the lines of the file's one function; the others are in none
  Absent,      \* no file: no blob
  MaxEdits,    \* bound: the session's edits
  MaxAsks,     \* bound: the asks they belong to
  MaxWrites,   \* bound: writes nobody records
  MaxVerbs     \* bound: decisions

Contents == Texts \cup {Absent}
Statuses == {"pending", "kept", "undone"}

ASSUME UnitsAssumption ==
  /\ Absent \notin Texts /\ Foreign \subseteq Contents
  /\ MaxEdits \in Nat /\ MaxAsks \in Nat /\ MaxWrites \in Nat /\ MaxVerbs \in Nat

VARIABLES
  log,      \* the file's records, in order of their ids
  verdict,  \* the status of each
  file,     \* what is on disk
  ask,      \* the window of the newest ask
  writes,   \* writes nobody recorded so far
  verbs     \* decisions so far

unitsVars == <<log, verdict, file, ask, writes, verbs>>

\* What an older store wrote: a record with no blob.
BlobLess == [before |-> Absent, after |-> Absent, ask |-> 1]

UnitsInit ==
  /\ log \in {<<>>, <<BlobLess>>} /\ verdict = [i \in DOMAIN log |-> "pending"]
  /\ file \in Foreign
  /\ ask = 1 /\ writes = 0 /\ verbs = 0

Ids(status) == {i \in DOMAIN log : verdict[i] = status}

-----------------------------------------------------------------------------
(* One record's hop.                                                       *)

TextOf(content) == IF content = Absent THEN <<>> ELSE content

\* Pairs whose lines line up in one way only: which of several ways diffArrays picks is left to Lines.
Hops == {p \in Contents \X Contents : Cardinality(Alignments(TextOf(p[1]), TextOf(p[2]))) = 1}

\* The k-th of some lines, and the text they make.
Nth(lines, k) == CHOOSE l \in lines : Cardinality({m \in lines : m <= l}) = k
Block(text, lines) == [k \in 1 .. Cardinality(lines) |-> text[Nth(lines, k)]]

\* hopShape: what one record did.
\*   keep     the lines that survive, from where to where
\*   added    the lines of the text after that it produced
\*   changed  the lines of the text before that it removed, and for what it inserts the line it stands at
\*   scope    whether all it produced is in the function (scopeNameOf)
\*   blocks   what it removed if it only removes, what it inserted if it only inserts, at one place
HopShape(p) ==
  LET before  == TextOf(p[1])
      after   == TextOf(p[2])
      keep    == CHOOSE M \in Alignments(before, after) : TRUE
      added   == DOMAIN after \ {q[2] : q \in keep}
      changed == UNION {(c.start + 1 .. End(c)) \cup (IF c.ins = <<>> THEN {} ELSE {End(c) + 1}) :
                          c \in ChangesOf(before, after, keep)}
  IN  [keep    |-> keep,
       added   |-> added,
       changed |-> changed,
       scope   |-> added # {} /\ \A l \in added : after[l] \in Scoped,
       blocks  |-> [gone |-> IF added = {} THEN Block(before, changed) ELSE <<>>,
                    new  |-> IF Cardinality(changed) = 1 THEN Block(after, added) ELSE <<>>]]

Shapes == [p \in Hops |-> HopShape(p)]

Hop(i) == Shapes[<<log[i].before, log[i].after>>]

\* Lines carried across a hop.
Carried(hop, lines) == {p[2] : p \in {q \in hop.keep : q[1] \in lines}}

\* sameBlock: the same lines, from another start.
SameBlock(x, y) ==
  /\ Len(x) = Len(y)
  /\ \E k \in 0 .. Len(x) : SubSeq(y \o y, k + 1, k + Len(x)) = x

-----------------------------------------------------------------------------
(* Spans of one status: runs, components, spans.                           *)

\* S cut between the neighbours that are not linked.
Pieces(S, links) ==
  LET cuts == {k \in S : k # Min(S) /\ <<Max({l \in S : l < k}), k>> \notin links}
  IN  {{j \in S : \A k \in cuts : k <= i <=> k <= j} : i \in S}

\* The second begins with the content the first left.
Chained(i, j) == log[i].after # Absent /\ log[j].before # Absent /\ log[i].after = log[j].before

\* Mutant of Follows: a record of another status may stand between the two.
FollowsOver(i, j) == Chained(i, j) /\ log[i].ask = log[j].ask

\* Nothing stands between the two, and one ask made both.
Follows(i, j) == Chained(i, j) /\ j = i + 1 /\ log[i].ask = log[j].ask

RunsOf(mine) == Pieces(mine, {e \in mine \X mine : Follows(e[1], e[2])})

\* Mutant of Tracked: the lines of the edit just before, and of no older one.
TrackedAdjacent(hops, a, b) == IF a + 1 < b THEN {} ELSE hops[a].added

\* The lines a produced that are left when b of the same run comes, where they are then.
Tracked(hops, a, b) ==
  LET lines[k \in a + 1 .. b] ==
        IF k = a + 1 THEN hops[a].added
        ELSE IF k - 1 \in DOMAIN hops THEN Carried(hops[k - 1], lines[k - 1]) ELSE lines[k - 1]
  IN  lines[b]

\* The later of the two changed lines of the earlier, is in the function as well, or moved its block.
SameCode(hops, a, b) ==
  \/ Tracked(hops, a, b) \cap hops[b].changed # {}
  \/ hops[a].scope /\ hops[b].scope
  \/ hops[a].blocks.gone # <<>> /\ SameBlock(hops[a].blocks.gone, hops[b].blocks.new)
  \/ hops[a].blocks.new # <<>> /\ SameBlock(hops[b].blocks.gone, hops[a].blocks.new)

\* componentsOf: the members one after the other, each joining all it shares code with.
ComponentsOf(run) ==
  LET hops == [i \in run |-> Hop(i)]
      parts[b \in 0 .. Max(run)] ==
        IF b = 0 THEN {}
        ELSE LET before == parts[b - 1]
                 joined == {C \in before : \E a \in C : SameCode(hops, a, b)}
             IN  IF b \in run THEN (before \ joined) \cup {{b} \cup UNION joined} ELSE before
  IN  parts[Max(run)]

\* Components widened to spans, and spans that interleave to one.
SpansOf(run) ==
  LET components == ComponentsOf(run)
  IN  Pieces(run, UNION {(Min(C) .. Max(C)) \X (Min(C) .. Max(C)) : C \in components})

-----------------------------------------------------------------------------
(* Units: spans folded where the file is gone, and where they cancel out.  *)

BeforeOf(span) == log[Min(span)].before
AfterOf(span) == log[Max(span)].after
Adjacent(a, b) == Min(b) = Max(a) + 1

\* No content on either side of any member.
Inert(span) == \A i \in span : log[i].before = Absent /\ log[i].after = Absent

Cancels(span) == ~Inert(span) /\ BeforeOf(span) = AfterOf(span)

InOrder(spans) == [i \in 1 .. Cardinality(spans) |-> CHOOSE s \in spans : Cardinality({t \in spans : Min(t) < Min(s)}) = i - 1]

\* Where the file is gone between two spans there is no state to review.
Meet(a, b) ==
  /\ AfterOf(a) = Absent /\ BeforeOf(b) = Absent
  /\ Adjacent(a, b) /\ ~Inert(a) /\ ~Inert(b)

AbsenceFolded(spans) ==
  LET met    == {e \in spans \X spans : Meet(e[1], e[2])}
      groups == Pieces({Min(a) : a \in spans}, {<<Min(e[1]), Min(e[2])>> : e \in met})
  IN  {UNION {a \in spans : Min(a) \in G} : G \in groups}

\* Mutant of Joins: over edits that are decided.
JoinsAcross(a, b) == AfterOf(a) = BeforeOf(b) /\ Max(a) < Min(b) /\ ~Inert(a) /\ ~Inert(b)

Joins(a, b) == AfterOf(a) = BeforeOf(b) /\ Adjacent(a, b) /\ ~Inert(a) /\ ~Inert(b)

\* Mutant of Partners: only the next span.
PartnersNext(spans, k) ==
  {j \in {k + 1} : j <= Len(spans) /\ AfterOf(spans[j]) = BeforeOf(spans[k]) /\ Joins(spans[k], spans[j])}

\* The later spans of an unbroken chain that end on the content the k-th began with.
Partners(spans, k) ==
  {j \in k + 1 .. Len(spans) :
     AfterOf(spans[j]) = BeforeOf(spans[k]) /\ \A i \in k .. j - 1 : Joins(spans[i], spans[i + 1])}

\* foldChains: a span and the first later one that cancels it are one unit, and so is a span without one.
LastOf(spans, k) == IF Partners(spans, k) = {} THEN k ELSE Min(Partners(spans, k))

UnitAt(spans, k) ==
  LET last == LastOf(spans, k)
      unit == UNION {spans[i] : i \in k .. last}
  IN  [ids |-> unit, cancelled |-> last > k \/ Cancels(unit)]

FoldChains(folded) ==
  LET spans == InOrder(folded)
      from[k \in 1 .. Len(spans) + 1] ==
        IF k > Len(spans) THEN {} ELSE {UnitAt(spans, k)} \cup from[LastOf(spans, k) + 1]
  IN  from[1]

\* computeUnits: the units of the file's records of one status.
UnitsOf(mine) == FoldChains(AbsenceFolded(UNION {SpansOf(run) : run \in RunsOf(mine)}))

GroupsOf(mine) == {u.ids : u \in UnitsOf(mine)}

Groups(status) == GroupsOf(Ids(status))

-----------------------------------------------------------------------------
(* Dependencies between units.                                             *)

\* repIndex
RepIn(groups, i) == Max(CHOOSE g \in groups : i \in g)

\* The units whose lines the i-th edit finds in the file, each with those lines, where they are then.
Owners(rep) ==
  LET carried[i \in 1 .. Len(log)] ==
        IF i = 1 THEN {}
        ELSE IF ~Chained(i - 1, i) THEN {}
        ELSE {<<rep[i - 1], l>> : l \in Hop(i - 1).added}
             \cup UNION {{<<c[1], l>> : l \in Carried(Hop(i - 1), {c[2]})} : c \in carried[i - 1]}
  IN  carried

\* unitDeps: a unit depends on those whose lines one of its edits changed.
UnitDeps ==
  LET groups == UNION {Groups(s) : s \in Statuses}
      rep    == [i \in DOMAIN log |-> RepIn(groups, i)]
      owners == Owners(rep)
  IN  {d \in UNION {{<<rep[i], c[1]>> : c \in {o \in owners[i] : o[2] \in Hop(i).changed}} : i \in DOMAIN log} :
         d[1] # d[2]}

-----------------------------------------------------------------------------
(* Decisions.                                                              *)

Conflict(content) == [file |-> content, done |-> FALSE]
Left(content) == [file |-> content, done |-> TRUE]

\* The merge of an undo; one that leaves the file as it is has nothing to take out.
Merged(before, after, now) ==
  UNION {LET m == MergeLines(after, A, B)
         IN  IF m = {} \/ (m = {now} /\ after # before) THEN {Conflict(now)} ELSE {Left(t) : t \in m} :
           A \in TokenChanges(after, now), B \in TokenChanges(after, before)}

\* undoRecordUnlocked: what taking a change out may come to.
UndoRecord(before, after, now) ==
  IF before = Absent THEN IF now \in {Absent, after} THEN {Left(Absent)} ELSE {Conflict(now)}
  ELSE IF after = Absent THEN IF now = Absent THEN {Left(before)} ELSE {Conflict(now)}
  ELSE IF now \in {Absent, after} THEN {Left(before)}
  ELSE Merged(before, after, now)

UndoUnit(ids, now) == UndoRecord(BeforeOf(ids), AfterOf(ids), now)

\* undoScope: the edits one by one, the newest first; what is left of the file, and those taken out.
UndoScope(ids) ==
  LET from[i \in 1 .. Len(log) + 1] ==
        IF i > Len(log) THEN {[file |-> file, undone |-> {}]}
        ELSE IF i \notin ids THEN from[i + 1]
        ELSE UNION {{[file |-> r.file, undone |-> s.undone \cup IF r.done THEN {i} ELSE {}] :
                       r \in UndoRecord(log[i].before, log[i].after, s.file)} : s \in from[i + 1]}
  IN  from[1]

Decide(ids, status) ==
  /\ verbs < MaxVerbs /\ verbs' = verbs + 1
  /\ verdict' = [i \in DOMAIN log |-> IF i \in ids THEN status ELSE verdict[i]]
  /\ UNCHANGED <<log, ask, writes>>

KeepGroup(ids) == Decide(ids, "kept") /\ UNCHANGED file

UndoGroup(ids) == \E r \in UndoUnit(ids, file) : r.done /\ file' = r.file /\ Decide(ids, "undone")

UndoIds(ids) == \E r \in UndoScope(ids) : r.undone # {} /\ file' = r.file /\ Decide(r.undone, "undone")

\* A tool call that changes the file is recorded.
Capture(to) ==
  /\ Len(log) < MaxEdits /\ to # file /\ <<file, to>> \in Hops
  /\ log' = Append(log, [before |-> file, after |-> to, ask |-> ask])
  /\ verdict' = Append(verdict, "pending")
  /\ file' = to /\ UNCHANGED <<ask, writes, verbs>>

\* A person, or a tool that is not captured.
OtherWrite(to) ==
  /\ writes < MaxWrites /\ to # file
  /\ file' = to /\ writes' = writes + 1 /\ UNCHANGED <<log, verdict, ask, verbs>>

\* The person's next ask.
NewAsk ==
  /\ ask < MaxAsks /\ Len(log) < MaxEdits /\ \E i \in DOMAIN log : log[i].ask = ask
  /\ ask' = ask + 1 /\ UNCHANGED <<log, verdict, file, writes, verbs>>

UnitsNext ==
  \/ \E to \in Contents : Capture(to)
  \/ \E to \in Foreign : OtherWrite(to)
  \/ NewAsk
  \/ \E g \in Groups("pending") : KeepGroup(g) \/ UndoGroup(g)
  \/ \E ids \in SUBSET Ids("pending") \ {{}} : UndoIds(ids)

UnitsSpec == UnitsInit /\ [][UnitsNext]_unitsVars

-----------------------------------------------------------------------------
(* What holds of them.                                                     *)

\* Every edit is in one unit of its status, and a unit is an unbroken run of the file's records, each of
\* which begins where the one before left off: the pair of its ends is all it did to the file.
UnitsAreExact ==
  \A status \in Statuses :
    LET groups == Groups(status)
    IN  /\ UNION groups = Ids(status)
        /\ \A g, h \in groups : g # h => g \cap h = {}
        /\ \A g \in groups : \A i \in g :
             i < Max(g) => i + 1 \in g /\ log[i].after = log[i + 1].before

\* Two edits of one ask, with nothing between them but edits of it that are pending too, are one decision
\* when the later changed a line of the earlier: componentsOf puts together whatever unitDeps, which
\* carries the lines through the whole file, finds of one edit in the other.
OneCodeOneDecision ==
  LET groups == Groups("pending")
      owners == Owners([i \in DOMAIN log |-> i])
  IN  \A run \in RunsOf(Ids("pending")) : \A i \in run : \A o \in owners[i] :
        o[1] \in run /\ o[2] \in Hop(i).changed => \E g \in groups : {o[1], i} \subseteq g

\* No row is about a file that is gone, no two rows of an unbroken chain take back one another, and a
\* unit is said to cancel out when it does and holds any content at all.
RowsTellOneStory ==
  LET units   == UnitsOf(Ids("pending"))
      Next2(u, v) == Adjacent(u.ids, v.ids) /\ AfterOf(u.ids) = BeforeOf(v.ids) /\ ~Inert(u.ids) /\ ~Inert(v.ids)
      Between(u, v) == {w \in units : Min(u.ids) <= Min(w.ids) /\ Min(w.ids) <= Min(v.ids)}
      Chain(u, v) == \A x, y \in Between(u, v) : Min(y.ids) = Max(x.ids) + 1 => Next2(x, y)
  IN  /\ \A u \in units : u.cancelled <=> Cancels(u.ids)
      /\ \A u, v \in units : Next2(u, v) => AfterOf(u.ids) # Absent
      /\ \A u, v \in units :
           /\ ~u.cancelled /\ Min(u.ids) < Min(v.ids)
           /\ Max(v.ids) - Min(u.ids) + 1 = Cardinality(UNION {w.ids : w \in Between(u, v)})
           /\ Chain(u, v)
           => AfterOf(v.ids) # BeforeOf(u.ids)

\* Deciding whole units, one or several, leaves the other pending ones as they are: nobody's rows change
\* under a decision about something else.
DecidingLeavesOthers ==
  LET groups == Groups("pending")
  IN  \A decided \in SUBSET groups : GroupsOf(Ids("pending") \ UNION decided) = groups \ decided

-----------------------------------------------------------------------------
(* What the code's comments say, and what does not hold.                   *)

Dependents(g) == {h \in Groups("pending") \cup Groups("kept") : <<Max(h), Max(g)>> \in UnitDeps}

Conflicts(g) == \E r \in UndoUnit(g, file) : ~r.done

\* "exactly the set `undo --ids` takes to revert this change and its dependents in one call" (undo.ts:35).
ClosureUndoes ==
  \A g \in Groups("pending") :
    LET closure == UNION (Dependents(g) \cup {g})
    IN  Conflicts(g) /\ Dependents(g) # {} /\ closure \subseteq Ids("pending")
        => \A r \in UndoScope(closure) : r.undone = closure

\* A conflict that no unit depends on "means a manual or external change" (undo.ts:178).
ConflictNamed ==
  writes = 0 => \A g \in Groups("pending") : ~Inert(g) /\ Conflicts(g) => Dependents(g) # {}

=============================================================================
