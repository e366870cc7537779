-------------------------- MODULE FileReviewProofs --------------------------
(***************************************************************************)
(* Machine-checked proofs about FileReview, for every set of reviewers and *)
(* of sessions.  TypeInv gives the types and needs nothing.  ReviewInv     *)
(* adds what snapshots hold and that a content, of the edits whose lines   *)
(* one of its edits shares, has just those the edit was made on; it needs  *)
(* agents that modify the file and none that writes between a verb's read  *)
(* and its write (Modifying).  LedgerInv adds where the status of an edit  *)
(* is while it is not in the log, and what the file says of it then; it    *)
(* is about sessions of one reviewer, or of any number that only undo and  *)
(* repair (Accounted).  FilePairs.cfg shows what goes wrong without these. *)
(***************************************************************************)
EXTENDS FileReview, TLAPS, SequenceTheorems, FiniteSetTheorems, WellFoundedInduction

-----------------------------------------------------------------------------
(* The ends of a set of ids, which CHOOSE names.                           *)

\* A set of naturals has a least element.
LEMMA MinIsLeast ==
  ASSUME NEW S, S \subseteq Nat, S # {}
  PROVE  Min(S) \in S /\ \A y \in S : Min(S) <= y
<1> DEFINE Below == {1 .. k : k \in S}
           Sub == StrictSubsetOrdering(Nat)
<1>1. Below \subseteq FiniteSubsetsOf(Nat) /\ Below # {}
  <2>1. ASSUME NEW k \in S PROVE 1 .. k \in FiniteSubsetsOf(Nat)
    <3>1. k \in Int /\ 1 .. k \subseteq Nat
      OBVIOUS
    <3> QED BY <3>1, FS_Interval DEF FiniteSubsetsOf
  <2> QED BY <2>1
<1>2. PICK X \in Below : \A Y \in Below : <<Y, X>> \notin Sub
  <2> HIDE DEF Below, Sub
  <2> QED BY <1>1, WFMin, FS_StrictSubsetOrderingWellFounded DEF Sub
<1>3. PICK x \in S : X = 1 .. x
  OBVIOUS
<1>4. ASSUME NEW y \in S PROVE x <= y
  <2> SUFFICES ASSUME y < x PROVE FALSE
    BY <1>3
  <2>1. 1 .. y \subseteq 1 .. x /\ x \in 1 .. x /\ x \notin 1 .. y
    OBVIOUS
  <2>2. <<1 .. y, X>> \in Sub
    BY <2>1, <1>1, <1>3 DEF StrictSubsetOrdering
  <2> QED BY <2>2, <1>2
<1> QED BY <1>4 DEF Min

\* A set of ids up to a bound has a greatest element: the least of its bounds.
LEMMA MaxIsGreatest ==
  ASSUME NEW n \in Nat, NEW S, S \subseteq 1 .. n, S # {}
  PROVE  Max(S) \in S /\ \A y \in S : Max(S) >= y
<1> DEFINE Up == {k \in Nat : \A y \in S : k >= y}
<1>1. n \in Up
  OBVIOUS
<1>2. Up # {} /\ Up \subseteq Nat
  BY <1>1
<1>3. Min(Up) \in Up /\ \A k \in Up : Min(Up) <= k
  BY <1>2, MinIsLeast
<1>4. Min(Up) \in S
  <2> SUFFICES ASSUME Min(Up) \notin S PROVE FALSE
    OBVIOUS
  <2>1. \A y \in S : Min(Up) - 1 >= y /\ Min(Up) - 1 \in Nat
    BY <1>3
  <2>2. Min(Up) - 1 \in Up
    BY <2>1, <1>3
  <2> QED BY <2>2, <1>3
<1> QED BY <1>3, <1>4 DEF Max

-----------------------------------------------------------------------------
(* Types.                                                                  *)

Verbs == {"none", "undo", "undoScope", "redo", "redoScope", "restoreFile", "reapplyFile", "keepGroup", "keepIds",
          "recordOnly"}
Parts == [verb : {"undo", "redo", "keep"}, ids : SUBSET Nat]
Jobs == [verb : Verbs, at : {"idle", "next", "write", "record", "keep"}, todo : SUBSET Nat, base : Contents,
         parts : Seq(Parts)]
Records == [before : Contents, after : Contents, over : SUBSET Nat]

\* The log, and the statuses it gives each edit.
LogInv ==
  /\ session \in Sessions
  /\ disk \in Contents
  /\ recs \in Seq(Records) /\ Len(recs) <= session.edits
  /\ \A e \in Edits : recs[e].over \subseteq 1 .. e - 1
  /\ verdict \in [Edits -> Status]
  /\ prior \in [Edits -> {"pending", "kept"}]
  /\ crashes \in 0 .. session.crashes

\* What is in a reviewer's hands, was reported, or is lost, are edits of the log.
JobInv ==
  /\ job \in [Reviewers -> Jobs]
  /\ owed \subseteq Parts
  /\ lost \subseteq Edits
  /\ \A p \in owed : p.ids \subseteq Edits
  /\ \A r \in Reviewers :
       /\ job[r].todo \subseteq Edits
       /\ \A i \in DOMAIN job[r].parts : job[r].parts[i].ids \subseteq Edits
       /\ job[r].at \in {"next", "write"} => job[r].todo # {}
       /\ job[r].at \in {"record", "keep"} => job[r].parts # <<>>

\* Whoever has read the file to rewrite it holds its lock.
LockInv ==
  /\ lock \in Reviewers \cup {Nobody}
  /\ \A r \in Reviewers : job[r].at = "write" => lock = r

TypeInv == LogInv /\ JobInv /\ LockInv

-----------------------------------------------------------------------------

USE ReviewAssumption DEF ReviewAssumption

\* At the start nothing is captured and every reviewer is idle.
LEMMA InitTypeInv == Init => TypeInv
<1> SUFFICES ASSUME Init PROVE TypeInv
  OBVIOUS
<1> USE DEF Init
<1>1. session.edits \in Nat /\ session.crashes \in Nat
  OBVIOUS
<1>2. Edits = {} /\ Len(recs) = 0 /\ recs \in Seq(Records)
  BY EmptySeq DEF Edits
<1>3. Absent \in Contents /\ disk \in Contents
  BY DEF Absent, Holding, Contents
<1>4. LogInv
  BY <1>1, <1>2, <1>3 DEF LogInv
<1>5. Idle \in Jobs
  BY <1>3, EmptySeq DEF Idle, Job, Jobs, Verbs
<1>6. JobInv
  BY <1>2, <1>5 DEF JobInv, Idle, Job
<1>7. LockInv
  BY DEF LockInv, Idle, Job
<1> QED BY <1>4, <1>6, <1>7 DEF TypeInv

\* Edits are numbered from one.
LEMMA EditNumbers ==
  ASSUME LogInv
  PROVE  Edits = 1 .. Len(recs) /\ Len(recs) \in Nat /\ session.edits \in Nat /\ Edits \subseteq 1 .. session.edits
BY LenProperties DEF LogInv, Edits

\* The next target of a walk is one of those to do, the newest of a bulk undo.
LEMMA TargetIsToDo ==
  ASSUME LogInv, JobInv, NEW r \in Reviewers, job[r].at \in {"next", "write"}
  PROVE  /\ Target(r) \in job[r].todo /\ Target(r) \in Edits
         /\ job[r].verb = "undoScope" => \A e \in job[r].todo : e <= Target(r)
<1>1. job[r].todo \subseteq Edits /\ job[r].todo # {}
  BY DEF JobInv
<1>2. job[r].todo \subseteq 1 .. Len(recs) /\ Len(recs) \in Nat
  BY <1>1, EditNumbers
<1>3. Min(job[r].todo) \in job[r].todo
  BY <1>1, <1>2, MinIsLeast
<1>4. Max(job[r].todo) \in job[r].todo /\ \A e \in job[r].todo : Max(job[r].todo) >= e
  BY <1>1, <1>2, MaxIsGreatest
<1> QED BY <1>1, <1>2, <1>3, <1>4 DEF Target

\* A merge mixes the edits of the contents it merges.
LEMMA ResultsAreContents ==
  ASSUME LogInv, JobInv, NEW r \in Reviewers, job[r].at = "write"
  PROVE  Results(r) \subseteq Contents
<1> DEFINE e == Target(r)
<1>1. e \in Edits /\ job[r].base \in Contents
  BY TargetIsToDo DEF JobInv, Jobs
<1>2. recs[e] \in Records
  BY <1>1, EditNumbers, ElementOfSeq DEF LogInv
<1>3. Absent \in Contents /\ recs[e].before \in Contents /\ recs[e].after \in Contents
  BY <1>2 DEF Absent, Holding, Contents, Records
<1>4. ASSUME NEW b \in Contents, NEW o \in Contents, NEW t \in Contents
      PROVE  Merged(b, o, t) \subseteq Contents
  <2> DEFINE all == Changed(b, o) \cup Changed(b, t)
             both == Holding((b.has \ all) \cup (all \ b.has))
  <2>1. b.has \subseteq 1 .. session.edits /\ o.has \subseteq 1 .. session.edits /\ t.has \subseteq 1 .. session.edits
    BY <1>4 DEF Contents
  <2>2. both.has \subseteq 1 .. session.edits
    BY <2>1 DEF Holding, Changed
  <2>3. both \in Contents
    BY <2>2 DEF Contents, Holding
  <2>4. Merged(b, o, t) \subseteq {both}
    BY DEF Merged
  <2> QED BY <2>3, <2>4
<1> HIDE DEF e
<1>5. UndoResult(recs[e], job[r].base) \subseteq Contents
  BY <1>1, <1>3, <1>4 DEF UndoResult
<1>6. RedoResult(recs[e], job[r].base) \subseteq Contents
  BY <1>1, <1>3, <1>4 DEF RedoResult
<1> QED BY <1>5, <1>6 DEF Results, e

\* A step that changes what one reviewer does, and neither the log nor the other reviewers' jobs.
LEMMA JobStep ==
  ASSUME TypeInv, NEW r \in Reviewers, NEW j \in Jobs, job' = [job EXCEPT ![r] = j],
         UNCHANGED <<session, recs>>,
         j.todo \subseteq Edits, \A i \in DOMAIN j.parts : j.parts[i].ids \subseteq Edits,
         j.at \in {"next", "write"} => j.todo # {},
         j.at \in {"record", "keep"} => j.parts # <<>>,
         owed' \subseteq Parts, lost' \subseteq Edits, \A p \in owed' : p.ids \subseteq Edits
  PROVE  JobInv'
<1>1. Edits' = Edits
  BY DEF Edits
<1>2. job' \in [Reviewers -> Jobs] /\ \A q \in Reviewers : job'[q] = IF q = r THEN j ELSE job[q]
  BY DEF TypeInv, JobInv
<1>3. \A q \in Reviewers :
        /\ job'[q].todo \subseteq Edits
        /\ \A i \in DOMAIN job'[q].parts : job'[q].parts[i].ids \subseteq Edits
        /\ job'[q].at \in {"next", "write"} => job'[q].todo # {}
        /\ job'[q].at \in {"record", "keep"} => job'[q].parts # <<>>
  BY <1>2 DEF TypeInv, JobInv
<1>4. owed' \subseteq Parts /\ lost' \subseteq Edits' /\ \A p \in owed' : p.ids \subseteq Edits'
  BY <1>1
<1>5. Jobs' = Jobs
  BY DEF Jobs, Contents
<1>6. \A q \in Reviewers :
        /\ job'[q].todo \subseteq Edits'
        /\ \A i \in DOMAIN job'[q].parts : job'[q].parts[i].ids \subseteq Edits'
        /\ job'[q].at \in {"next", "write"} => job'[q].todo # {}
        /\ job'[q].at \in {"record", "keep"} => job'[q].parts # <<>>
  BY <1>1, <1>3
<1> QED BY <1>2, <1>4, <1>5, <1>6 DEF JobInv

\* An idle reviewer's job.
LEMMA IdleIsJob ==
  /\ Idle \in Jobs /\ Idle.todo = {} /\ Idle.parts = <<>> /\ Idle.at = "idle"
BY EmptySeq DEF Idle, Job, Jobs, Verbs, Absent, Holding, Contents

\* A step that leaves the log alone.
LEMMA LogFrame ==
  ASSUME LogInv, UNCHANGED <<session, recs, verdict, prior>>, disk' \in Contents, crashes' = crashes
  PROVE  LogInv'
<1>1. Edits' = Edits /\ Contents' = Contents
  BY DEF Edits, Contents
<1>2. Records' = Records
  BY <1>1 DEF Records
<1> QED BY <1>1, <1>2 DEF LogInv

\* A step that changes one reviewer's job, to one that does not hold the file, or has just taken the lock.
LEMMA LockStep ==
  ASSUME LockInv, NEW r \in Reviewers, job \in [Reviewers -> Jobs], NEW j \in Jobs, job' = [job EXCEPT ![r] = j],
         \/ lock' = lock /\ (j.at = "write" => job[r].at = "write")
         \/ lock' = Nobody /\ j.at # "write" /\ lock \in {r, Nobody}
         \/ lock = Nobody /\ lock' = r
  PROVE  LockInv'
BY DEF LockInv

\* A request for edits of the log.
LEMMA AskTypeInv ==
  ASSUME TypeInv, NEW r \in Reviewers, NEW verb \in Verbs, NEW at \in {"next", "record", "keep"},
         NEW todo, todo \subseteq Edits, NEW parts \in Seq(Parts),
         \A i \in DOMAIN parts : parts[i].ids \subseteq Edits,
         at = "next" => todo # {}, at \in {"record", "keep"} => parts # <<>>,
         Ask(r, verb, at, todo, parts)
  PROVE  TypeInv'
<1> DEFINE j == [verb |-> verb, at |-> at, todo |-> todo, base |-> Absent, parts |-> parts]
<1> USE DEF Ask
<1>1. todo \subseteq Nat
  BY EditNumbers DEF TypeInv
<1>2. j \in Jobs
  BY <1>1 DEF Jobs, Absent, Holding, Contents
<1>3. job' = [job EXCEPT ![r] = j]
  BY DEF Job
<1>4. LogInv'
  BY LogFrame DEF TypeInv, LogInv
<1>5. JobInv'
  <2> HIDE DEF j
  <2>1. j.todo = todo /\ j.parts = parts /\ j.at = at
    BY DEF j
  <2>2. owed' \subseteq Parts /\ lost' \subseteq Edits /\ \A p \in owed' : p.ids \subseteq Edits
    BY DEF TypeInv, JobInv
  <2> QED BY <1>2, <1>3, <2>1, <2>2, JobStep
<1>6. LockInv'
  <2>1. lock' = lock /\ j.at # "write"
    OBVIOUS
  <2> HIDE DEF j
  <2> QED BY <1>2, <1>3, <2>1, LockStep DEF TypeInv, JobInv
<1> QED BY <1>4, <1>5, <1>6 DEF TypeInv

\* On to the next target, the status writes, or the end: the parts are carried along.
LEMMA NextTargetJob ==
  ASSUME TypeInv, NEW r \in Reviewers, job[r].at \in {"next", "write"}, NEW parts \in Seq(Parts),
         NextTarget(r, parts)
  PROVE  \E j \in Jobs :
           /\ job' = [job EXCEPT ![r] = j]
           /\ j.todo \subseteq job[r].todo \ {Target(r)}
           /\ j.parts = parts
           /\ j.at \in {"idle", "next", "record"}
           /\ j.at = "next" => j.todo # {}
           /\ j.at = "record" => j.parts # <<>>
           /\ j = Idle \/ (j.at # "idle" /\ j.verb = job[r].verb)
<1> DEFINE left == job[r].todo \ {Target(r)}
           next == [job[r] EXCEPT !.at = IF left = {} THEN "record" ELSE "next",
                                  !.base = Absent, !.todo = left, !.parts = parts]
<1>1. job[r] \in Jobs
  BY DEF TypeInv, JobInv
<1>2. job' = [job EXCEPT ![r] = IF left = {} /\ parts = <<>> THEN Idle ELSE next]
  BY DEF NextTarget
<1>3. CASE left = {} /\ parts = <<>>
  <2>1. job' = [job EXCEPT ![r] = Idle]
    BY <1>2, <1>3
  <2> QED BY <1>3, <2>1, IdleIsJob
<1>4. CASE ~(left = {} /\ parts = <<>>)
  <2>1. left \in SUBSET Nat /\ Absent \in Contents
    BY <1>1 DEF Jobs, Absent, Holding, Contents
  <2> HIDE DEF left
  <2>2. next \in Jobs
    BY <1>1, <2>1 DEF Jobs
  <2>3. /\ next.todo = left /\ next.parts = parts /\ next.verb = job[r].verb
        /\ next.at = IF left = {} THEN "record" ELSE "next"
    BY <1>1 DEF Jobs
  <2>4. job' = [job EXCEPT ![r] = next]
    BY <1>2, <1>4
  <2>5. left \subseteq job[r].todo \ {Target(r)}
    BY DEF left
  <2> HIDE DEF next
  <2> QED BY <1>4, <2>2, <2>3, <2>4, <2>5
<1> QED BY <1>3, <1>4

\* The parts of a bulk verb that has rewritten one target more.
LEMMA FlushingParts ==
  ASSUME TypeInv, NEW r \in Reviewers, job[r].at = "write"
  PROVE  /\ Flushing(r) \in Seq(Parts) /\ Flushing(r) # <<>>
         /\ \A i \in DOMAIN Flushing(r) : Flushing(r)[i].ids \subseteq Edits
<1> DEFINE its == Part(IF DoesUndo(job[r].verb) THEN "undo" ELSE "redo", {Target(r)})
           more == [job[r].parts[1] EXCEPT !.ids = @ \cup {Target(r)}]
<1>1. Target(r) \in Edits /\ Target(r) \in Nat
  BY TargetIsToDo, EditNumbers DEF TypeInv
<1>2. its \in Parts /\ its.ids \subseteq Edits
  BY <1>1 DEF Part, Parts
<1>3. CASE job[r].parts = <<>>
  <2>1. Flushing(r) = <<its>>
    BY <1>3 DEF Flushing
  <2> HIDE DEF its
  <2> QED BY <1>2, <2>1
<1>4. CASE job[r].parts # <<>>
  <2>1. job[r].parts \in Seq(Parts) /\ 1 \in DOMAIN job[r].parts
    BY <1>4, EmptySeq, LenProperties DEF TypeInv, JobInv, Jobs
  <2>2. job[r].parts[1] \in Parts /\ job[r].parts[1].ids \subseteq Edits
    BY <2>1 DEF TypeInv, JobInv
  <2>3. more \in Parts /\ more.ids \subseteq Edits
    BY <1>1, <2>2 DEF Parts
  <2>4. Flushing(r) = <<more>>
    BY <1>4 DEF Flushing
  <2> HIDE DEF more
  <2> QED BY <2>3, <2>4
<1> QED BY <1>3, <1>4

\* What is left of a sequence of parts, as a set.
LEMMA PartsInHand ==
  ASSUME JobInv, NEW r \in Reviewers
  PROVE  /\ job[r].parts \in Seq(Parts)
         /\ ToSet(job[r].parts) \subseteq Parts
         /\ \A p \in ToSet(job[r].parts) : p.ids \subseteq Edits
<1>1. job[r].parts \in Seq(Parts)
  BY DEF JobInv, Jobs
<1> QED BY <1>1 DEF JobInv, ToSet

\* An agent's edit: the log grows by one edit, and nothing else learns of it.
LEMMA AgentEditTypeInv == TypeInv /\ AgentEdit => TypeInv'
<1> SUFFICES ASSUME TypeInv, AgentEdit PROVE TypeInv'
  OBVIOUS
<1> DEFINE n == Len(recs) + 1
<1>1. PICK kind \in Kinds, over \in SUBSET Edits :
        \E now \in Edited(kind, n) :
          disk' = now /\ recs' = Append(recs, [before |-> disk, after |-> now, over |-> over])
  BY DEF AgentEdit
<1>2. /\ Edits = 1 .. Len(recs) /\ Len(recs) \in Nat /\ Len(recs) < session.edits /\ session.edits \in Nat
      /\ recs \in Seq(Records) /\ disk \in Contents
  BY EditNumbers DEF TypeInv, LogInv, AgentEdit
<1>3. n \in 1 .. session.edits
  BY <1>2
<1>4. disk' \in Contents
  <2>1. disk.has \cup {n} \subseteq 1 .. session.edits /\ disk.there \in BOOLEAN
    BY <1>2, <1>3 DEF Contents
  <2>2. Holding({n}) \in Contents /\ Holding(disk.has \cup {n}) \in Contents /\ Absent \in Contents
    BY <1>3, <2>1 DEF Contents, Holding, Absent
  <2>3. kind \in {"modify", "create", "delete"}
    OBVIOUS
  <2>4. Edited(kind, n) \subseteq Contents
    <3> HIDE DEF n
    <3> QED BY <2>2, <2>3 DEF Edited
  <2> QED BY <1>1, <2>4
<1>5. [before |-> disk, after |-> disk', over |-> over] \in Records
  BY <1>2, <1>4 DEF Records
<1>6. /\ recs' \in Seq(Records) /\ Len(recs') = n /\ Edits' = 1 .. n
      /\ \A e \in Edits : recs'[e] = recs[e]
      /\ recs'[n] = [before |-> disk, after |-> disk', over |-> over]
  <2>1. recs' = Append(recs, [before |-> disk, after |-> disk', over |-> over])
    BY <1>1
  <2> QED BY <1>2, <1>5, <2>1, AppendProperties, LenProperties DEF Edits
<1>7. /\ UNCHANGED <<session, crashes, job, owed, lost, lock>>
      /\ Contents' = Contents /\ Records' = Records /\ Jobs' = Jobs
  BY DEF AgentEdit, Contents, Records, Jobs
<1>8. verdict' \in [Edits' -> Status] /\ prior' \in [Edits' -> {"pending", "kept"}]
  <2>1. verdict \in Seq(Status) /\ Len(verdict) = Len(recs)
    BY <1>2 DEF TypeInv, LogInv
  <2>2. prior \in Seq({"pending", "kept"}) /\ Len(prior) = Len(recs)
    BY <1>2 DEF TypeInv, LogInv
  <2>3. verdict' = Append(verdict, "pending") /\ prior' = Append(prior, "pending")
    BY DEF AgentEdit
  <2>4. "pending" \in Status
    BY DEF Status
  <2>5. verdict' \in Seq(Status) /\ Len(verdict') = n
    BY <2>1, <2>3, <2>4, AppendProperties
  <2>6. prior' \in Seq({"pending", "kept"}) /\ Len(prior') = n
    BY <2>2, <2>3, AppendProperties
  <2> QED BY <1>6, <2>5, <2>6, LenProperties
<1>9. \A e \in Edits' : recs'[e].over \subseteq 1 .. e - 1
  <2> SUFFICES ASSUME NEW e \in 1 .. n PROVE recs'[e].over \subseteq 1 .. e - 1
    BY <1>6
  <2>1. CASE e = n
    BY <1>2, <1>6, <2>1
  <2>2. CASE e # n
    <3>1. e \in Edits
      BY <1>2, <2>2
    <3> QED BY <1>6, <3>1 DEF TypeInv, LogInv
  <2> QED BY <2>1, <2>2
<1>10. LogInv'
  BY <1>3, <1>4, <1>6, <1>7, <1>8, <1>9 DEF TypeInv, LogInv
<1>11. Edits \subseteq Edits'
  BY <1>2, <1>6
<1>12. JobInv'
  <2>1. \A r \in Reviewers : /\ job[r].todo \subseteq Edits'
                             /\ \A i \in DOMAIN job[r].parts : job[r].parts[i].ids \subseteq Edits'
    BY <1>11 DEF TypeInv, JobInv
  <2> QED BY <1>7, <1>11, <2>1 DEF TypeInv, JobInv
<1>13. LockInv'
  BY <1>7 DEF TypeInv, LockInv
<1> QED BY <1>10, <1>12, <1>13 DEF TypeInv

\* A rewrite, a refusal or a conflict, on its way to the next target.
LEMMA WalkTypeInv ==
  ASSUME TypeInv, NEW r \in Reviewers, job[r].at \in {"next", "write"}, NEW parts \in Seq(Parts),
         \A i \in DOMAIN parts : parts[i].ids \subseteq Edits,
         NextTarget(r, parts), disk' \in Contents,
         (lock' = lock /\ job[r].at = "next") \/ (lock' = Nobody /\ job[r].at = "write"),
         UNCHANGED <<session, recs, verdict, prior, owed, lost, crashes>>
  PROVE  TypeInv'
<1>1. PICK j \in Jobs :
        /\ job' = [job EXCEPT ![r] = j]
        /\ j.todo \subseteq job[r].todo \ {Target(r)}
        /\ j.parts = parts
        /\ j.at \in {"idle", "next", "record"}
        /\ j.at = "next" => j.todo # {}
        /\ j.at = "record" => j.parts # <<>>
        /\ j = Idle \/ (j.at # "idle" /\ j.verb = job[r].verb)
  BY NextTargetJob
<1>2. LogInv'
  BY LogFrame DEF TypeInv
<1>3. JobInv'
  <2>1. j.todo \subseteq Edits
    BY <1>1 DEF TypeInv, JobInv
  <2>2. \A i \in DOMAIN j.parts : j.parts[i].ids \subseteq Edits
    BY <1>1
  <2>3. owed' \subseteq Parts /\ lost' \subseteq Edits /\ \A p \in owed' : p.ids \subseteq Edits
    BY DEF TypeInv, JobInv
  <2>4. /\ j.at \in {"next", "write"} => j.todo # {}
        /\ j.at \in {"record", "keep"} => j.parts # <<>>
    BY <1>1
  <2> QED BY <1>1, <2>1, <2>2, <2>3, <2>4, JobStep
<1>4. LockInv'
  BY <1>1, LockStep DEF TypeInv, JobInv, LockInv
<1> QED BY <1>2, <1>3, <1>4 DEF TypeInv

\* A job that ends, with its lock given back if it held it.
LEMMA EndTypeInv ==
  ASSUME TypeInv, NEW r \in Reviewers, job' = [job EXCEPT ![r] = Idle],
         lock' = lock \/ Unlocked(r), LogInv', UNCHANGED <<session, recs>>,
         owed' \subseteq Parts, lost' \subseteq Edits, \A p \in owed' : p.ids \subseteq Edits
  PROVE  TypeInv'
<1>1. JobInv'
  <2>1. /\ Idle \in Jobs /\ Idle.todo \subseteq Edits /\ \A i \in DOMAIN Idle.parts : Idle.parts[i].ids \subseteq Edits
        /\ Idle.at \notin {"next", "write", "record", "keep"}
    BY IdleIsJob
  <2> QED BY <2>1, JobStep
<1>2. LockInv'
  BY IdleIsJob DEF TypeInv, LockInv, JobInv, Unlocked
<1> QED BY <1>1, <1>2 DEF TypeInv

\* A status write leaves statuses.
LEMMA StatusesTypeInv ==
  ASSUME LogInv, NEW part \in Parts, SetStatuses(part), UNCHANGED <<session, disk, recs, crashes>>
  PROVE  LogInv'
<1>1. Edits' = Edits /\ Contents' = Contents /\ Records' = Records
  BY DEF Edits, Contents, Records
<1>2. \A e \in Edits : verdict[e] \in Status /\ prior[e] \in {"pending", "kept"}
  BY DEF LogInv
<1>3. verdict' \in [Edits -> Status]
  BY <1>2 DEF SetStatuses, Status
<1>4. prior' \in [Edits -> {"pending", "kept"}]
  BY <1>2 DEF SetStatuses, Status
<1> QED BY <1>1, <1>3, <1>4 DEF LogInv

\* The statuses a part writes: the part itself, but for a repair of a redo, which goes by what it finds undone.
LEMMA RecordedPart ==
  ASSUME JobInv, NEW r \in Reviewers, job[r].at \in {"record", "keep"}
  PROVE  /\ Recorded(r) \in Parts
         /\ job[r].parts \in Seq(Parts) /\ 1 \in DOMAIN job[r].parts /\ Head(job[r].parts) = job[r].parts[1]
         /\ Recorded(r).verb = job[r].parts[1].verb
         /\ Recorded(r) = job[r].parts[1] \/
              (/\ job[r].verb = "recordOnly" /\ job[r].parts[1].verb = "redo"
               /\ Recorded(r).ids = job[r].parts[1].ids \cap WithStatus({"undone"}))
<1>1. job[r].parts \in Seq(Parts) /\ job[r].parts # <<>>
  BY DEF JobInv, Jobs
<1>2. 1 \in DOMAIN job[r].parts /\ Head(job[r].parts) = job[r].parts[1] /\ job[r].parts[1] \in Parts
  BY <1>1, HeadTailProperties, EmptySeq, LenProperties
<1> DEFINE p == job[r].parts[1]
<1>3. Recorded(r) = IF job[r].verb = "recordOnly" /\ p.verb = "redo"
                    THEN [p EXCEPT !.ids = @ \cap WithStatus({"undone"})] ELSE p
  BY <1>2 DEF Recorded
<1>4. [p EXCEPT !.ids = @ \cap WithStatus({"undone"})] \in Parts
  BY <1>2 DEF Parts
<1> QED BY <1>1, <1>2, <1>3, <1>4 DEF Parts

\* The steps by which a reviewer asks for something.
Steps(r) ==
  \/ Undo(r) \/ UndoScope(r) \/ Redo(r) \/ RedoScope(r) \/ RestoreFile(r) \/ ReapplyFile(r)
  \/ KeepGroup(r) \/ KeepIds(r)

\* What a verb is asked for: its targets and their statuses, or the part it is to write.
Asked(r, verb, at, todo, parts) ==
  /\ Ask(r, verb, at, todo, parts)
  /\ at = "next" => /\ todo # {} /\ parts = <<>>
                    /\ verb \in {"undo", "undoScope", "redo", "redoScope", "restoreFile", "reapplyFile"}
  /\ at = "keep" => /\ todo = {} /\ parts # <<>> /\ \E S \in SUBSET Edits : parts = <<Part("keep", S)>>
                    /\ verb \in {"keepGroup", "keepIds"}
  /\ verb \in {"undo", "undoScope"} => todo \subseteq WithStatus({"pending", "kept"})
  /\ verb \in {"redo", "redoScope"} => todo \subseteq WithStatus({"undone"})
  /\ verb = "keepGroup" => parts[1].ids \subseteq WithStatus({"pending"})

\* Whatever a reviewer asks for, its targets or its part are edits of the log.
LEMMA AskedFor ==
  ASSUME LogInv, NEW r \in Reviewers, Steps(r)
  PROVE  \E verb \in Verbs, at \in {"next", "keep"}, todo \in SUBSET Edits, parts \in Seq(Parts) :
           Asked(r, verb, at, todo, parts)
<1>1. <<>> \in Seq(Parts) /\ \A T : WithStatus(T) \subseteq Edits
  BY EmptySeq DEF WithStatus
<1>2. ASSUME NEW S \in SUBSET Edits
      PROVE  Part("keep", S).ids = S /\ <<Part("keep", S)>> \in Seq(Parts)
  BY EditNumbers DEF Part, Parts
<1>3. {"undo", "undoScope", "redo", "redoScope", "restoreFile", "reapplyFile", "keepGroup", "keepIds"} \subseteq Verbs
  BY DEF Verbs
<1>4. CASE Undo(r)
  <2>1. PICK e \in WithStatus({"pending", "kept"}) : Ask(r, "undo", "next", {e}, <<>>)
    BY <1>4 DEF Undo
  <2>2. {e} \in SUBSET Edits /\ Asked(r, "undo", "next", {e}, <<>>)
    BY <1>1, <2>1 DEF Asked, WithStatus
  <2> QED BY <1>1, <1>3, <2>2
<1>5. CASE UndoScope(r)
  <2>1. PICK S \in (SUBSET WithStatus({"pending"})) \ {{}} : Ask(r, "undoScope", "next", S, <<>>)
    BY <1>5 DEF UndoScope
  <2>2. S \in SUBSET Edits /\ Asked(r, "undoScope", "next", S, <<>>)
    BY <1>1, <2>1 DEF Asked, WithStatus
  <2> QED BY <1>1, <1>3, <2>2
<1>6. CASE Redo(r)
  <2>1. PICK e \in WithStatus({"undone"}) : Ask(r, "redo", "next", {e}, <<>>)
    BY <1>6 DEF Redo
  <2>2. {e} \in SUBSET Edits /\ Asked(r, "redo", "next", {e}, <<>>)
    BY <1>1, <2>1 DEF Asked, WithStatus
  <2> QED BY <1>1, <1>3, <2>2
<1>7. CASE RedoScope(r)
  <2>1. PICK S \in (SUBSET WithStatus({"undone"})) \ {{}} : Ask(r, "redoScope", "next", S, <<>>)
    BY <1>7 DEF RedoScope
  <2>2. S \in SUBSET Edits /\ Asked(r, "redoScope", "next", S, <<>>)
    BY <1>1, <2>1 DEF Asked, WithStatus
  <2> QED BY <1>1, <1>3, <2>2
<1>8. CASE RestoreFile(r)
  <2>1. PICK e \in Edits : Ask(r, "restoreFile", "next", {e}, <<>>)
    BY <1>8 DEF RestoreFile
  <2>2. {e} \in SUBSET Edits /\ Asked(r, "restoreFile", "next", {e}, <<>>)
    BY <1>1, <2>1 DEF Asked, WithStatus
  <2> QED BY <1>1, <1>3, <2>2
<1>9. CASE ReapplyFile(r)
  <2>1. PICK e \in Edits : Ask(r, "reapplyFile", "next", {e}, <<>>)
    BY <1>9 DEF ReapplyFile
  <2>2. {e} \in SUBSET Edits /\ Asked(r, "reapplyFile", "next", {e}, <<>>)
    BY <1>1, <2>1 DEF Asked, WithStatus
  <2> QED BY <1>1, <1>3, <2>2
<1>10. CASE KeepGroup(r)
  <2>1. PICK S \in (SUBSET WithStatus({"pending"})) \ {{}} : Ask(r, "keepGroup", "keep", {}, <<Part("keep", S)>>)
    BY <1>10 DEF KeepGroup
  <2>2. S \in SUBSET Edits
    BY <1>1
  <2>3. Asked(r, "keepGroup", "keep", {}, <<Part("keep", S)>>)
    BY <1>2, <2>1, <2>2 DEF Asked
  <2> QED BY <1>2, <1>3, <2>2, <2>3
<1>11. CASE KeepIds(r)
  <2>1. PICK S \in (SUBSET WithStatus({"pending", "undone"})) \ {{}} :
          Ask(r, "keepIds", "keep", {}, <<Part("keep", S)>>)
    BY <1>11 DEF KeepIds
  <2>2. S \in SUBSET Edits
    BY <1>1
  <2>3. Asked(r, "keepIds", "keep", {}, <<Part("keep", S)>>)
    BY <1>2, <2>1, <2>2 DEF Asked
  <2> QED BY <1>2, <1>3, <2>2, <2>3
<1> QED BY <1>4, <1>5, <1>6, <1>7, <1>8, <1>9, <1>10, <1>11 DEF Steps

\* The invariant is kept by every step.
LEMMA StepTypeInv == TypeInv /\ [Next]_vars => TypeInv'
<1> SUFFICES ASSUME TypeInv, [Next]_vars PROVE TypeInv'
  OBVIOUS
<1>1. CASE AgentEdit
  BY <1>1, AgentEditTypeInv
<1>2. ASSUME NEW r \in Reviewers, Steps(r) PROVE TypeInv'
  <2>1. PICK verb \in Verbs, at \in {"next", "keep"}, todo \in SUBSET Edits, parts \in Seq(Parts) :
          Asked(r, verb, at, todo, parts)
    BY <1>2, AskedFor DEF TypeInv
  <2>2. \A i \in DOMAIN parts : parts[i].ids \subseteq Edits
    BY <2>1 DEF Asked, Part
  <2>3. Ask(r, verb, at, todo, parts) /\ (at = "next" => todo # {}) /\ (at = "keep" => parts # <<>>)
    BY <2>1 DEF Asked
  <2> QED BY <2>2, <2>3, AskTypeInv
<1>3. ASSUME NEW r \in Reviewers, RecordOnly(r) PROVE TypeInv'
  <2>1. PICK p \in owed : job' = [job EXCEPT ![r] = Job("recordOnly", "record", {}, <<p>>)] /\ owed' = owed \ {p}
    BY <1>3 DEF RecordOnly
  <2>2. p \in Parts /\ p.ids \subseteq Edits
    BY DEF TypeInv, JobInv
  <2> DEFINE j == Job("recordOnly", "record", {}, <<p>>)
  <2>3. j \in Jobs /\ j.todo = {} /\ j.parts = <<p>> /\ j.at = "record"
    BY <2>2 DEF Job, Jobs, Verbs, Absent, Holding, Contents
  <2>4. LogInv'
    BY <1>3, LogFrame DEF TypeInv, LogInv, RecordOnly
  <2>5. JobInv'
    <3> HIDE DEF j
    <3>1. owed' \subseteq Parts /\ lost' \subseteq Edits /\ \A q \in owed' : q.ids \subseteq Edits
      BY <1>3, <2>1 DEF TypeInv, JobInv, RecordOnly
    <3>2. (\A i \in DOMAIN j.parts : j.parts[i].ids \subseteq Edits) /\ j.parts # <<>>
      BY <2>2, <2>3
    <3>3. UNCHANGED <<session, recs>> /\ job' = [job EXCEPT ![r] = j]
      BY <1>3, <2>1 DEF RecordOnly, j
    <3> QED BY <2>3, <3>1, <3>2, <3>3, JobStep
  <2>6. LockInv'
    <3> HIDE DEF j
    <3>1. lock' = lock /\ job' = [job EXCEPT ![r] = j]
      BY <1>3, <2>1 DEF RecordOnly, j
    <3> QED BY <2>3, <3>1, LockStep DEF TypeInv, JobInv
  <2> QED BY <2>4, <2>5, <2>6 DEF TypeInv
<1>4. ASSUME NEW r \in Reviewers, Look(r) PROVE TypeInv'
  <2> DEFINE j == [job[r] EXCEPT !.at = "write", !.base = disk]
  <2>1. job[r] \in Jobs /\ disk \in Contents
    BY DEF TypeInv, JobInv, LogInv
  <2>2. j \in Jobs /\ j.todo = job[r].todo /\ j.parts = job[r].parts /\ j.at = "write"
    BY <2>1 DEF Jobs
  <2>3. job' = [job EXCEPT ![r] = j] /\ UNCHANGED <<session, disk, recs, verdict, prior, owed, lost, crashes>>
    BY <1>4 DEF Look
  <2>4. LogInv'
    BY <2>1, <2>3, LogFrame DEF TypeInv
  <2>5. JobInv'
    <3> HIDE DEF j
    <3>1. owed' \subseteq Parts /\ lost' \subseteq Edits /\ \A q \in owed' : q.ids \subseteq Edits
      BY <2>3 DEF TypeInv, JobInv
    <3>2. j.todo \subseteq Edits /\ j.todo # {} /\ \A i \in DOMAIN j.parts : j.parts[i].ids \subseteq Edits
      BY <1>4, <2>2 DEF TypeInv, JobInv, Look
    <3> QED BY <2>2, <2>3, <3>1, <3>2, JobStep
  <2>6. LockInv'
    <3> HIDE DEF j
    <3> QED BY <1>4, <2>2, <2>3, LockStep DEF TypeInv, JobInv, Look
  <2> QED BY <2>4, <2>5, <2>6 DEF TypeInv
<1>5. ASSUME NEW r \in Reviewers, Busy(r) PROVE TypeInv'
  <2>1. disk' \in Contents
    BY <1>5 DEF Busy, TypeInv, LogInv
  <2>2. job[r].parts \in Seq(Parts) /\ \A i \in DOMAIN job[r].parts : job[r].parts[i].ids \subseteq Edits
    BY DEF TypeInv, JobInv, Jobs
  <2> QED BY <1>5, <2>1, <2>2, WalkTypeInv DEF Busy
<1>6. ASSUME NEW r \in Reviewers, Write(r) PROVE TypeInv'
  <2>1. disk' \in Contents
    BY <1>6, ResultsAreContents DEF Write, TypeInv
  <2>2. /\ Flushing(r) \in Seq(Parts) /\ Flushing(r) # <<>>
        /\ \A i \in DOMAIN Flushing(r) : Flushing(r)[i].ids \subseteq Edits
    BY <1>6, FlushingParts DEF Write
  <2>3. CASE IsBulk(job[r].verb)
    BY <1>6, <2>1, <2>2, <2>3, WalkTypeInv DEF Write
  <2>4. CASE ~IsBulk(job[r].verb)
    <3> DEFINE j == [job[r] EXCEPT !.at = "record", !.todo = {}, !.parts = Flushing(r), !.base = Absent]
    <3>1. job[r] \in Jobs /\ Absent \in Contents
      BY DEF TypeInv, JobInv, Absent, Holding, Contents
    <3>2. j \in Jobs /\ j.todo = {} /\ j.parts = Flushing(r) /\ j.at = "record"
      BY <2>2, <3>1 DEF Jobs
    <3>3. /\ job' = [job EXCEPT ![r] = j] /\ lock' = lock
          /\ UNCHANGED <<session, recs, verdict, prior, owed, lost, crashes>>
      BY <1>6, <2>4 DEF Write
    <3>4. LogInv'
      BY <2>1, <3>3, LogFrame DEF TypeInv
    <3> HIDE DEF j
    <3>5. JobInv'
      <4>1. owed' \subseteq Parts /\ lost' \subseteq Edits /\ \A q \in owed' : q.ids \subseteq Edits
        BY <3>3 DEF TypeInv, JobInv
      <4>2. j.todo \subseteq Edits /\ j.parts # <<>> /\ \A i \in DOMAIN j.parts : j.parts[i].ids \subseteq Edits
        BY <2>2, <3>2
      <4> QED BY <3>2, <3>3, <4>1, <4>2, JobStep
    <3>6. LockInv'
      BY <3>2, <3>3, LockStep DEF TypeInv, JobInv
    <3> QED BY <3>4, <3>5, <3>6 DEF TypeInv
  <2> QED BY <2>3, <2>4
<1>7. ASSUME NEW r \in Reviewers, Conflict(r) PROVE TypeInv'
  <2>1. disk' \in Contents
    BY <1>7 DEF Conflict, TypeInv, LogInv
  <2>2. job[r].parts \in Seq(Parts) /\ \A i \in DOMAIN job[r].parts : job[r].parts[i].ids \subseteq Edits
    BY DEF TypeInv, JobInv, Jobs
  <2> QED BY <1>7, <2>1, <2>2, WalkTypeInv DEF Conflict
<1>8. ASSUME NEW r \in Reviewers, WriteSnapshot(r) PROVE TypeInv'
  <2> DEFINE e == Target(r)
             its == Part(IF job[r].verb = "restoreFile" THEN "undo" ELSE "redo", {e})
             parts == IF LaterSameFile(e) = {} THEN <<its>> ELSE <<its, Part("undo", LaterSameFile(e))>>
             j == [job[r] EXCEPT !.at = "record", !.todo = {}, !.parts = parts, !.base = Absent]
  <2>1. e \in Edits /\ e \in Nat /\ recs[e] \in Records
    <3>1. e \in Edits
      BY <1>8, TargetIsToDo DEF WriteSnapshot, TypeInv
    <3> QED BY <3>1, EditNumbers, ElementOfSeq DEF TypeInv, LogInv
  <2>2. disk' \in Contents
    BY <1>8, <2>1 DEF WriteSnapshot, Records
  <2>3. LaterSameFile(e) \subseteq Edits /\ LaterSameFile(e) \subseteq Nat
    BY EditNumbers DEF LaterSameFile, WithStatus, TypeInv
  <2>4. its \in Parts /\ Part("undo", LaterSameFile(e)) \in Parts /\ its.ids \subseteq Edits
        /\ Part("undo", LaterSameFile(e)).ids \subseteq Edits
    BY <2>1, <2>3 DEF Part, Parts
  <2>5. parts \in Seq(Parts) /\ parts # <<>> /\ \A i \in DOMAIN parts : parts[i].ids \subseteq Edits
    <3> HIDE DEF e, its
    <3> QED BY <2>4
  <2>6. /\ job' = [job EXCEPT ![r] = j] /\ lock' = lock
        /\ UNCHANGED <<session, recs, verdict, prior, owed, lost, crashes>>
    BY <1>8 DEF WriteSnapshot
  <2> HIDE DEF e, its, parts
  <2>7. job[r] \in Jobs /\ Absent \in Contents
    BY DEF TypeInv, JobInv, Absent, Holding, Contents
  <2>8. j \in Jobs /\ j.todo = {} /\ j.parts = parts /\ j.at = "record"
    BY <2>5, <2>7 DEF Jobs
  <2>9. LogInv'
    BY <2>2, <2>6, LogFrame DEF TypeInv
  <2> HIDE DEF j
  <2>10. JobInv'
    <3>1. owed' \subseteq Parts /\ lost' \subseteq Edits /\ \A q \in owed' : q.ids \subseteq Edits
      BY <2>6 DEF TypeInv, JobInv
    <3>2. j.todo \subseteq Edits /\ j.parts # <<>> /\ \A i \in DOMAIN j.parts : j.parts[i].ids \subseteq Edits
      BY <2>5, <2>8
    <3> QED BY <2>6, <2>8, <3>1, <3>2, JobStep
  <2>11. LockInv'
    BY <2>6, <2>8, LockStep DEF TypeInv, JobInv
  <2> QED BY <2>9, <2>10, <2>11 DEF TypeInv
<1>9. ASSUME NEW r \in Reviewers, Record(r) PROVE TypeInv'
  <2>1. /\ Recorded(r) \in Parts
        /\ job[r].parts \in Seq(Parts) /\ 1 \in DOMAIN job[r].parts
    BY <1>9, RecordedPart DEF Record, TypeInv
  <2>2. LogInv'
    BY <1>9, <2>1, StatusesTypeInv DEF Record, TypeInv
  <2>3. owed' \subseteq Parts /\ lost' \subseteq Edits /\ \A q \in owed' : q.ids \subseteq Edits
    BY <1>9 DEF TypeInv, JobInv, Record
  <2>4. CASE Len(job[r].parts) > 1
    <3> DEFINE j == [job[r] EXCEPT !.parts = Tail(job[r].parts)]
    <3>1. job[r] \in Jobs
      BY DEF TypeInv, JobInv
    <3>2. /\ Tail(job[r].parts) \in Seq(Parts) /\ Len(Tail(job[r].parts)) = Len(job[r].parts) - 1
          /\ \A i \in 1 .. Len(Tail(job[r].parts)) : Tail(job[r].parts)[i] = job[r].parts[i + 1]
      BY <2>1, <2>4, HeadTailProperties, EmptySeq
    <3>3. Tail(job[r].parts) # <<>> /\ \A i \in DOMAIN Tail(job[r].parts) : Tail(job[r].parts)[i].ids \subseteq Edits
      <4>1. Tail(job[r].parts) # <<>>
        <5>1. Len(Tail(job[r].parts)) > 0
          BY <2>1, <2>4, <3>2, LenProperties
        <5>2. \A s : Len(s) > 0 => s # <<>>
          OBVIOUS
        <5> QED BY <5>1, <5>2, Zenon
      <4>2. \A i \in DOMAIN Tail(job[r].parts) :
              i + 1 \in DOMAIN job[r].parts /\ Tail(job[r].parts)[i] = job[r].parts[i + 1]
        BY <2>1, <2>4, <3>2, LenProperties
      <4> QED BY <4>1, <4>2 DEF TypeInv, JobInv
    <3>4. j \in Jobs /\ j.todo = job[r].todo /\ j.parts = Tail(job[r].parts) /\ j.at = job[r].at
      BY <3>1, <3>2 DEF Jobs
    <3>5. job' = [job EXCEPT ![r] = j] /\ lock' = lock /\ UNCHANGED <<session, recs>>
      BY <1>9, <2>4 DEF Record
    <3> HIDE DEF j
    <3>6. JobInv'
      <4>1. j.todo \subseteq Edits /\ (j.at \in {"next", "write"} => j.todo # {})
            /\ \A i \in DOMAIN j.parts : j.parts[i].ids \subseteq Edits
        BY <3>3, <3>4 DEF TypeInv, JobInv
      <4> QED BY <2>3, <3>3, <3>4, <3>5, <4>1, JobStep
    <3>7. LockInv'
      BY <3>4, <3>5, LockStep DEF TypeInv, JobInv
    <3> QED BY <2>2, <3>6, <3>7 DEF TypeInv
  <2>5. CASE ~(Len(job[r].parts) > 1)
    BY <1>9, <2>2, <2>3, <2>5, EndTypeInv DEF Record
  <2> QED BY <2>4, <2>5
<1>10. ASSUME NEW r \in Reviewers, RecordFails(r) PROVE TypeInv'
  <2>1. LogInv'
    BY <1>10, LogFrame DEF RecordFails, TypeInv, LogInv
  <2>2. owed' \subseteq Parts /\ lost' \subseteq Edits /\ \A q \in owed' : q.ids \subseteq Edits
    BY <1>10, PartsInHand DEF RecordFails, TypeInv, JobInv
  <2> QED BY <1>10, <2>1, <2>2, EndTypeInv DEF RecordFails
<1>11. ASSUME NEW r \in Reviewers, KeepFails(r) PROVE TypeInv'
  <2>1. LogInv'
    BY <1>11, LogFrame DEF KeepFails, TypeInv, LogInv
  <2>2. owed' \subseteq Parts /\ lost' \subseteq Edits /\ \A q \in owed' : q.ids \subseteq Edits
    BY <1>11 DEF KeepFails, TypeInv, JobInv
  <2> QED BY <1>11, <2>1, <2>2, EndTypeInv DEF KeepFails
<1>12. ASSUME NEW r \in Reviewers, Crash(r) PROVE TypeInv'
  <2>1. LogInv'
    <3>1. crashes' \in 0 .. session.crashes
      <4>1. session.crashes \in Nat
        BY DEF TypeInv, LogInv
      <4> QED BY <1>12, <4>1 DEF Crash, TypeInv, LogInv
    <3>2. Edits' = Edits /\ Contents' = Contents /\ Records' = Records
      BY <1>12 DEF Edits, Contents, Records, Crash
    <3> QED BY <1>12, <3>1, <3>2 DEF Crash, TypeInv, LogInv
  <2>2. owed' \subseteq Parts /\ lost' \subseteq Edits /\ \A q \in owed' : q.ids \subseteq Edits
    BY <1>12, PartsInHand DEF Crash, TypeInv, JobInv
  <2> QED BY <1>12, <2>1, <2>2, EndTypeInv DEF Crash
<1>13. CASE UNCHANGED vars
  <2>1. Edits' = Edits /\ Contents' = Contents /\ Records' = Records /\ Jobs' = Jobs
    BY <1>13 DEF Edits, Contents, Records, Jobs, vars
  <2> QED BY <1>13, <2>1 DEF vars, TypeInv, LogInv, JobInv, LockInv
<1> QED
  BY <1>1, <1>2, <1>3, <1>4, <1>5, <1>6, <1>7, <1>8, <1>9, <1>10, <1>11, <1>12, <1>13 DEF Next, Steps

\* The invariant, of every behaviour.
LEMMA TypeInvAlways == Spec => []TypeInv
BY InitTypeInv, StepTypeInv, PTL DEF Spec

\* Every variable keeps to its values, for any sessions of any reviewers, whatever agents do to the file and when.
THEOREM Typed == Spec => []TypeOK
<1>1. TypeInv => TypeOK
  <2> SUFFICES ASSUME TypeInv PROVE TypeOK
    OBVIOUS
  <2>1. \A e \in Edits : recs[e].before \in Contents /\ recs[e].after \in Contents
    <3> SUFFICES ASSUME NEW e \in Edits PROVE recs[e].before \in Contents /\ recs[e].after \in Contents
      OBVIOUS
    <3>1. recs[e] \in Records
      BY EditNumbers, ElementOfSeq DEF TypeInv, LogInv
    <3> QED BY <3>1 DEF Records
  <2>2. \A r \in Reviewers : job[r].at \in {"idle", "next", "write", "record", "keep"}
    BY DEF TypeInv, JobInv, Jobs
  <2> QED BY <2>1, <2>2 DEF TypeInv, LogInv, JobInv, LockInv, TypeOK
<1> QED BY <1>1, TypeInvAlways, PTL

-----------------------------------------------------------------------------
(* What a merge does to a file that agents only modify.                    *)

\* An edit's snapshots differ by its own change.
Snapshots(rec, e) ==
  /\ rec.before \in Contents /\ rec.before.there
  /\ rec.after = Holding(rec.before.has \cup {e})
  /\ e \notin rec.before.has

\* A file with some changes in it.
LEMMA Holdings == \A S : Holding(S).there /\ Holding(S).has = S /\ Holding(S) # Absent
BY DEF Holding, Absent

\* A file that is there is told by its changes.
LEMMA AFileThatIsThere ==
  ASSUME NEW c \in Contents, c.there
  PROVE  c = Holding(c.has) /\ c # Absent
<1>1. c = [there |-> c.there, has |-> c.has] /\ c.there = TRUE
  BY DEF Contents
<1> QED BY <1>1 DEF Holding, Absent

\* Undoing an edit takes its change out of the file, unless it is not there or a change that is not in the
\* edit's own snapshot shares its lines.
LEMMA UndoOf ==
  ASSUME NEW rec, NEW e, Snapshots(rec, e), NEW now \in Contents, now.there
  PROVE  /\ \A c \in UndoResult(rec, now) :
              /\ c = Holding(now.has \ {e}) /\ e \in now.has
              /\ \A d \in Changed(rec.after, now) : ~Overlap(d, e)
         /\ UndoResult(rec, now) = {} =>
              e \notin now.has \/ \E d \in Changed(rec.after, now) : Overlap(d, e)
<1> USE DEF Snapshots
<1>1. /\ rec.before = Holding(rec.before.has) /\ rec.after.there /\ rec.after.has = rec.before.has \cup {e}
      /\ rec.before # Absent /\ rec.after # Absent
  BY AFileThatIsThere, Holdings
<1>2. now = Holding(now.has)
  BY AFileThatIsThere
<1>3. Changed(rec.after, rec.before) = {e}
  BY <1>1 DEF Changed
<1>4. UndoResult(rec, now) = IF now = rec.after THEN {rec.before} ELSE Merged(rec.after, now, rec.before)
  BY <1>1 DEF UndoResult
<1>5. CASE now = rec.after
  <2>1. rec.before = Holding(now.has \ {e}) /\ e \in now.has /\ Changed(rec.after, now) = {}
    BY <1>1, <1>5 DEF Changed
  <2> QED BY <1>4, <1>5, <2>1
<1>6. CASE now # rec.after
  <2> DEFINE mine == Changed(rec.after, now)
             both == Holding((rec.after.has \ (mine \cup {e})) \cup ((mine \cup {e}) \ rec.after.has))
  <2>1. UndoResult(rec, now) = IF both = now \/ \E d \in mine, x \in {e} : Overlap(d, x) THEN {} ELSE {both}
    BY <1>3, <1>4, <1>6 DEF Merged
  <2>2. e \in now.has => both = Holding(now.has \ {e})
    BY <1>1 DEF Changed
  <2>3. e \notin now.has => both = now
    <3>1. e \notin now.has => (rec.after.has \ (mine \cup {e})) \cup ((mine \cup {e}) \ rec.after.has) = now.has
      BY <1>1 DEF Changed
    <3> QED BY <1>2, <3>1
  <2>4. e \in now.has => both # now
    BY <2>2 DEF Holding
  <2> QED BY <2>1, <2>2, <2>3, <2>4
<1> QED BY <1>5, <1>6

\* Redoing an edit puts its change back, unless it is there or a change that is not in the edit's own snapshot
\* shares its lines.
LEMMA RedoOf ==
  ASSUME NEW rec, NEW e, Snapshots(rec, e), NEW now \in Contents, now.there
  PROVE  \A c \in RedoResult(rec, now) :
           /\ c = Holding(now.has \cup {e}) /\ e \notin now.has
           /\ \A d \in Changed(rec.before, now) : ~Overlap(d, e)
<1> USE DEF Snapshots
<1>1. /\ rec.before = Holding(rec.before.has) /\ rec.after.there /\ rec.after.has = rec.before.has \cup {e}
      /\ rec.before # Absent /\ rec.after # Absent
  BY AFileThatIsThere, Holdings
<1>2. now = Holding(now.has)
  BY AFileThatIsThere
<1>3. Changed(rec.before, rec.after) = {e}
  BY <1>1 DEF Changed
<1>4. RedoResult(rec, now) = IF now = rec.before THEN {rec.after} ELSE Merged(rec.before, now, rec.after)
  BY <1>1 DEF RedoResult
<1>5. CASE now = rec.before
  <2>1. rec.after = Holding(now.has \cup {e}) /\ e \notin now.has /\ Changed(rec.before, now) = {}
    BY <1>1, <1>5 DEF Changed
  <2> QED BY <1>4, <1>5, <2>1
<1>6. CASE now # rec.before
  <2> DEFINE mine == Changed(rec.before, now)
             both == Holding((rec.before.has \ (mine \cup {e})) \cup ((mine \cup {e}) \ rec.before.has))
  <2>1. RedoResult(rec, now) = IF both = now \/ \E d \in mine, x \in {e} : Overlap(d, x) THEN {} ELSE {both}
    BY <1>3, <1>4, <1>6 DEF Merged
  <2>2. e \notin now.has => both = Holding(now.has \cup {e})
    BY <1>1 DEF Changed
  <2>3. e \in now.has => both = now
    <3>1. e \in now.has => (rec.before.has \ (mine \cup {e})) \cup ((mine \cup {e}) \ rec.before.has) = now.has
      BY <1>1 DEF Changed
    <3> QED BY <1>2, <3>1
  <2> QED BY <2>1, <2>2, <2>3
<1> QED BY <1>5, <1>6

\* The edits of the log are the file's, and what a verb read to rewrite it is still what it holds.
SnapInv ==
  /\ disk.there /\ disk.has \subseteq Edits
  /\ \A e \in Edits : Snapshots(recs[e], e) /\ recs[e].before.has \subseteq 1 .. e - 1
  /\ \A r \in Reviewers : job[r].at = "write" => job[r].base = disk

\* A content an edit is in has, of the earlier edits whose lines it shares, those the edit was made on.
Fits(c) == \A t \in Edits : t \in c.has =>
             \A d \in 1 .. t - 1 : Overlap(d, t) => (d \in c.has <=> d \in recs[t].before.has)

FitsInv == Fits(disk) /\ \A e \in Edits : Fits(recs[e].before) /\ Fits(recs[e].after)

ReviewInv == TypeInv /\ SnapInv /\ FitsInv

\* At the start the file holds no change.
LEMMA InitReviewInv == Modifying /\ Init => ReviewInv
<1> SUFFICES ASSUME Modifying, Init PROVE ReviewInv
  OBVIOUS
<1>1. disk = Holding({}) /\ Edits = {}
  BY DEF Init, Modifying, Edits
<1>2. SnapInv
  BY <1>1, Holdings DEF SnapInv, Init, Idle, Job
<1>3. FitsInv
  BY <1>1 DEF FitsInv, Fits
<1> QED BY <1>2, <1>3, InitTypeInv DEF ReviewInv

\* Only agents and rewrites touch the file, only agents add to the log, and who reviews does not change.
LEMMA FileSteps ==
  ASSUME [Next]_vars
  PROVE  /\ session' = session
         /\ \/ UNCHANGED <<disk, recs>>
            \/ AgentEdit
            \/ UNCHANGED recs /\ \E r \in Reviewers : Write(r) \/ WriteSnapshot(r)
<1>1. AgentEdit => session' = session
  BY DEF AgentEdit
<1>2. ASSUME NEW r \in Reviewers, Steps(r) PROVE UNCHANGED <<session, disk, recs>>
  BY <1>2 DEF Steps, Undo, UndoScope, Redo, RedoScope, RestoreFile, ReapplyFile, KeepGroup, KeepIds, Ask
<1>3. ASSUME NEW r \in Reviewers, RecordOnly(r) \/ Look(r) \/ Busy(r) \/ Conflict(r)
      PROVE  UNCHANGED <<session, disk, recs>>
  BY <1>3 DEF RecordOnly, Look, Busy, Conflict
<1>4. ASSUME NEW r \in Reviewers, Record(r) \/ RecordFails(r) \/ KeepFails(r) \/ Crash(r)
      PROVE  UNCHANGED <<session, disk, recs>>
  BY <1>4 DEF Record, RecordFails, KeepFails, Crash
<1>5. ASSUME NEW r \in Reviewers, Write(r) \/ WriteSnapshot(r) PROVE UNCHANGED <<session, recs>>
  BY <1>5 DEF Write, WriteSnapshot
<1>6. UNCHANGED vars => UNCHANGED <<session, disk, recs>>
  BY DEF vars
<1> QED BY <1>1, <1>2, <1>3, <1>4, <1>5, <1>6 DEF Next, Steps

\* A reviewer about to rewrite the file has just read it, or does nothing meanwhile.
LEMMA StillWriting ==
  ASSUME TypeInv, [Next]_vars, NEW r \in Reviewers, job'[r].at = "write"
  PROVE  Look(r) \/ (job'[r] = job[r] /\ ~Write(r) /\ ~WriteSnapshot(r))
<1>1. job \in [Reviewers -> Jobs]
  BY DEF TypeInv, JobInv
<1>2. ASSUME NEW q \in Reviewers, NEW j, job' = [job EXCEPT ![q] = j], j.at # "write" PROVE q # r /\ job'[r] = job[r]
  BY <1>1, <1>2
<1>3. ASSUME NEW q \in Reviewers, Steps(q) PROVE job'[r] = job[r]
  <2>1. PICK verb \in Verbs, at \in {"next", "keep"}, todo \in SUBSET Edits, parts \in Seq(Parts) :
          Asked(q, verb, at, todo, parts)
    BY <1>3, AskedFor DEF TypeInv
  <2>2. /\ job' = [job EXCEPT ![q] = Job(verb, at, todo, parts)]
        /\ Job(verb, at, todo, parts).at # "write"
    BY <2>1 DEF Asked, Ask, Job
  <2> QED BY <1>2, <2>2
<1>4. ASSUME NEW q \in Reviewers, RecordOnly(q) PROVE job'[r] = job[r]
  <2>1. PICK p \in owed : job' = [job EXCEPT ![q] = Job("recordOnly", "record", {}, <<p>>)]
    BY <1>4 DEF RecordOnly
  <2>2. Job("recordOnly", "record", {}, <<p>>).at # "write"
    BY DEF Job
  <2> QED BY <1>2, <2>1, <2>2
<1>5. ASSUME NEW q \in Reviewers, NEW parts \in Seq(Parts), job[q].at \in {"next", "write"}, NextTarget(q, parts)
      PROVE  job'[r] = job[r] /\ q # r
  <2>1. PICK j \in Jobs : job' = [job EXCEPT ![q] = j] /\ j.at \in {"idle", "next", "record"}
    BY <1>5, NextTargetJob
  <2> QED BY <1>2, <2>1
<1>6. \A q \in Reviewers : job[q].parts \in Seq(Parts)
  BY DEF TypeInv, JobInv, Jobs
<1>7. ASSUME NEW q \in Reviewers, Busy(q) \/ Conflict(q) PROVE job'[r] = job[r]
  BY <1>5, <1>6, <1>7 DEF Busy, Conflict
<1>8. ASSUME NEW q \in Reviewers, Write(q) PROVE job'[r] = job[r] /\ q # r
  <2>1. CASE IsBulk(job[q].verb)
    BY <1>5, <1>8, <2>1, FlushingParts DEF Write
  <2>2. CASE ~IsBulk(job[q].verb)
    BY <1>1, <1>8, <2>2 DEF Write, Jobs
  <2> QED BY <2>1, <2>2
<1>9. ASSUME NEW q \in Reviewers, WriteSnapshot(q) PROVE job'[r] = job[r] /\ q # r
  BY <1>1, <1>9 DEF WriteSnapshot, Jobs
<1>10. ASSUME NEW q \in Reviewers, Record(q) PROVE job'[r] = job[r]
  <2>1. CASE Len(job[q].parts) > 1
    BY <1>1, <1>10, <2>1 DEF Record, Jobs
  <2>2. CASE ~(Len(job[q].parts) > 1)
    BY <1>2, <1>10, <2>2, IdleIsJob DEF Record
  <2> QED BY <2>1, <2>2
<1>11. ASSUME NEW q \in Reviewers, RecordFails(q) \/ KeepFails(q) \/ Crash(q) PROVE job'[r] = job[r]
  BY <1>2, <1>11, IdleIsJob DEF RecordFails, KeepFails, Crash
<1>12. ASSUME NEW q \in Reviewers, Look(q) PROVE Look(r) \/ job'[r] = job[r]
  BY <1>1, <1>12 DEF Look
<1>13. (AgentEdit \/ UNCHANGED vars) => job'[r] = job[r]
  BY DEF AgentEdit, vars
<1> QED
  BY <1>3, <1>4, <1>7, <1>8, <1>9, <1>10, <1>11, <1>12, <1>13 DEF Next, Steps

\* What a rewrite makes of the file: a snapshot for a forced one, and one edit's change more or less for the others,
\* none of whose neighbours has changed since the edit.
LEMMA WriteIsOneEdit ==
  ASSUME ReviewInv, NEW r \in Reviewers, Write(r)
  PROVE  LET e == Target(r)
         IN  /\ e \in Edits
             /\ \/ /\ DoesUndo(job[r].verb) /\ disk' = Holding(disk.has \ {e}) /\ e \in disk.has
                   /\ \A d \in Changed(recs[e].after, disk) : ~Overlap(d, e)
                \/ /\ ~DoesUndo(job[r].verb) /\ disk' = Holding(disk.has \cup {e}) /\ e \notin disk.has
                   /\ \A d \in Changed(recs[e].before, disk) : ~Overlap(d, e)
<1> DEFINE e == Target(r)
<1>1. e \in Edits /\ job[r].base = disk /\ disk \in Contents /\ disk.there
  BY TargetIsToDo DEF Write, ReviewInv, TypeInv, SnapInv, LogInv
<1>2. Snapshots(recs[e], e)
  BY <1>1 DEF ReviewInv, SnapInv
<1>3. disk' \in Results(r)
  BY DEF Write
<1> HIDE DEF e
<1>4. CASE DoesUndo(job[r].verb)
  <2>1. disk' \in UndoResult(recs[e], disk)
    BY <1>1, <1>3, <1>4 DEF Results, e, DoesUndo
  <2> QED BY <1>1, <1>2, <1>4, <2>1, UndoOf DEF e
<1>5. CASE ~DoesUndo(job[r].verb)
  <2>1. disk' \in RedoResult(recs[e], disk)
    BY <1>1, <1>3, <1>5 DEF Results, e, DoesUndo
  <2> QED BY <1>1, <1>2, <1>5, <2>1, RedoOf DEF e
<1> QED BY <1>4, <1>5

\* Edits share lines with each other.
LEMMA OverlapIsMutual == \A d, e : Overlap(d, e) <=> Overlap(e, d)
BY DEF Overlap

\* A snapshot holds edits of the log up to its own.
LEMMA SnapshotsHoldEdits ==
  ASSUME ReviewInv, NEW e \in Edits
  PROVE  /\ recs[e].before \in Contents /\ recs[e].before.there /\ recs[e].before.has \subseteq 1 .. e - 1
         /\ recs[e].after \in Contents /\ recs[e].after.there /\ recs[e].after.has = recs[e].before.has \cup {e}
         /\ 1 .. e \subseteq Edits /\ e \in Nat
<1>1. e \in 1 .. Len(recs) /\ Len(recs) \in Nat /\ Edits = 1 .. Len(recs)
  BY EditNumbers DEF ReviewInv, TypeInv
<1>2. recs[e] \in Records
  BY <1>1, ElementOfSeq DEF ReviewInv, TypeInv, LogInv
<1>3. Snapshots(recs[e], e) /\ recs[e].before.has \subseteq 1 .. e - 1
  BY DEF ReviewInv, SnapInv
<1> QED BY <1>1, <1>2, <1>3, Holdings DEF Records, Snapshots

\* An agent's edit adds its own change to the file, and to no snapshot but its own.
LEMMA AgentEditReviewInv ==
  ASSUME Modifying, ReviewInv, AgentEdit
  PROVE  SnapInv' /\ FitsInv'
<1> DEFINE n == Len(recs) + 1
<1>1. PICK over \in SUBSET Edits :
        /\ disk' = Holding(disk.has \cup {n})
        /\ recs' = Append(recs, [before |-> disk, after |-> disk', over |-> over])
  <2>1. PICK kind \in Kinds, over \in SUBSET Edits :
          \E now \in Edited(kind, n) :
            disk' = now /\ recs' = Append(recs, [before |-> disk, after |-> now, over |-> over])
    BY DEF AgentEdit
  <2>2. kind = "modify" /\ disk.there
    BY DEF Modifying, ReviewInv, SnapInv
  <2>3. Edited(kind, n) = {Holding(disk.has \cup {n})}
    BY <2>2 DEF Edited
  <2> QED BY <2>1, <2>3
<1>2. Edits = 1 .. Len(recs) /\ Len(recs) \in Nat /\ recs \in Seq(Records) /\ disk \in Contents /\ disk.there
      /\ disk.has \subseteq Edits
  BY EditNumbers DEF ReviewInv, TypeInv, LogInv, SnapInv
<1>3. /\ Edits' = 1 .. n /\ \A e \in Edits : recs'[e] = recs[e]
      /\ recs'[n].before = disk /\ recs'[n].after = disk' /\ recs'[n].over = over
  <2> DEFINE rec == [before |-> disk, after |-> disk', over |-> over]
  <2>1. recs' = Append(recs, rec) /\ rec.before = disk /\ rec.after = disk' /\ rec.over = over
    BY <1>1
  <2> HIDE DEF rec
  <2> QED BY <1>2, <2>1 DEF Edits
<1>4. Contents' = Contents /\ UNCHANGED job
  BY DEF Contents, AgentEdit
<1>5. disk'.has = disk.has \cup {n} /\ disk'.there
  BY <1>1, Holdings
<1>6. \A e \in Edits' : Snapshots(recs[e], e)' /\ recs'[e].before.has \subseteq 1 .. e - 1
  <2> SUFFICES ASSUME NEW e \in 1 .. n PROVE Snapshots(recs[e], e)' /\ recs'[e].before.has \subseteq 1 .. e - 1
    BY <1>3
  <2>1. CASE e = n
    <3>1. n \notin disk.has /\ disk.has \subseteq 1 .. n - 1
      BY <1>2
    <3> QED BY <1>1, <1>2, <1>3, <1>4, <2>1, <3>1 DEF Snapshots, Holding
  <2>2. CASE e # n
    <3>1. e \in Edits
      BY <1>2, <2>2
    <3> QED BY <1>3, <1>4, <3>1 DEF ReviewInv, SnapInv, Snapshots, Holding
  <2> QED BY <2>1, <2>2
<1>7. SnapInv'
  <2>1. \A r \in Reviewers : job'[r].at # "write"
    BY <1>4 DEF Modifying, AgentEdit
  <2>2. disk'.has \subseteq Edits'
    BY <1>2, <1>3, <1>5
  <2> QED BY <1>3, <1>5, <1>6, <2>1, <2>2 DEF SnapInv
<1>8. \A d, t \in Edits : Overlap(d, t)' <=> Overlap(d, t)
  BY <1>3 DEF Overlap
<1>9. Fits(disk)'
  <2> SUFFICES ASSUME NEW t \in 1 .. n, t \in disk'.has, NEW d \in 1 .. t - 1, Overlap(d, t)'
               PROVE  d \in disk'.has <=> d \in recs'[t].before.has
    BY <1>3 DEF Fits
  <2>1. d # n
    BY <1>2
  <2>2. CASE t = n
    BY <1>3, <1>5, <2>1, <2>2
  <2>3. CASE t # n
    <3>1. t \in Edits /\ d \in Edits /\ t \in disk.has
      BY <1>2, <1>5, <2>3
    <3> QED BY <1>3, <1>5, <1>8, <2>1, <3>1 DEF ReviewInv, FitsInv, Fits
  <2> QED BY <2>2, <2>3
<1>10. ASSUME NEW e \in Edits' PROVE Fits(recs[e].before)' /\ Fits(recs[e].after)'
  <2>1. CASE e = n
    <3>1. Fits(disk) /\ disk.has \subseteq Edits
      BY <1>2 DEF ReviewInv, FitsInv
    <3>2. \A t \in Edits' : t \in disk.has =>
             \A d \in 1 .. t - 1 : Overlap(d, t)' => (d \in disk.has <=> d \in recs'[t].before.has)
      <4> SUFFICES ASSUME NEW t \in Edits', t \in disk.has, NEW d \in 1 .. t - 1, Overlap(d, t)'
                   PROVE  d \in disk.has <=> d \in recs'[t].before.has
        OBVIOUS
      <4>1. t \in Edits /\ d \in Edits
        BY <1>2
      <4> QED BY <1>3, <1>8, <3>1, <4>1 DEF Fits
    <3>3. recs'[e].before = disk /\ recs'[e].after = disk'
      BY <1>3, <2>1
    <3> QED BY <1>9, <3>2, <3>3 DEF Fits
  <2>2. CASE e # n
    <3>1. e \in Edits
      BY <1>2, <1>3, <2>2
    <3>2. recs[e].before.has \subseteq Edits /\ recs[e].after.has \subseteq Edits
      BY <1>2, <3>1, SnapshotsHoldEdits
    <3>3. Fits(recs[e].before) /\ Fits(recs[e].after) /\ recs'[e] = recs[e]
      BY <1>3, <3>1 DEF ReviewInv, FitsInv
    <3>4. ASSUME NEW c, c.has \subseteq Edits, Fits(c)
          PROVE  \A t \in Edits' : t \in c.has =>
                   \A d \in 1 .. t - 1 : Overlap(d, t)' => (d \in c.has <=> d \in recs'[t].before.has)
      <4> SUFFICES ASSUME NEW t \in Edits', t \in c.has, NEW d \in 1 .. t - 1, Overlap(d, t)'
                   PROVE  d \in c.has <=> d \in recs'[t].before.has
        OBVIOUS
      <4>1. t \in Edits /\ d \in Edits
        BY <1>2, <3>4
      <4> QED BY <1>3, <1>8, <3>4, <4>1 DEF Fits
    <3> QED BY <3>2, <3>3, <3>4 DEF Fits
  <2> QED BY <2>1, <2>2
<1> QED BY <1>7, <1>9, <1>10 DEF FitsInv

\* A merge keeps the contents consistent: it takes out an edit only when no later one that is in shares its lines.
LEMMA WriteFits ==
  ASSUME ReviewInv, NEW r \in Reviewers, Write(r)
  PROVE  /\ disk'.there /\ disk'.has \subseteq Edits
         /\ \A t \in Edits : t \in disk'.has =>
              \A d \in 1 .. t - 1 : Overlap(d, t) => (d \in disk'.has <=> d \in recs[t].before.has)
<1> DEFINE e == Target(r)
<1>1. e \in Edits /\ disk.has \subseteq Edits /\ e \in Nat
      /\ recs[e].before.has \subseteq 1 .. e - 1 /\ recs[e].after.has = recs[e].before.has \cup {e}
  BY WriteIsOneEdit, SnapshotsHoldEdits DEF ReviewInv, SnapInv
<1>2. ASSUME NEW t \in Edits, t \in disk.has, NEW d \in 1 .. t - 1, Overlap(d, t)
      PROVE  d \in disk.has <=> d \in recs[t].before.has
  BY <1>2 DEF ReviewInv, FitsInv, Fits
<1>3. Edits \subseteq Nat
  BY EditNumbers DEF ReviewInv, TypeInv
<1>4. CASE /\ disk' = Holding(disk.has \ {e}) /\ e \in disk.has
           /\ \A d \in Changed(recs[e].after, disk) : ~Overlap(d, e)
  <2>1. disk'.there /\ disk'.has = disk.has \ {e}
    BY <1>4, Holdings
  <2>2. ASSUME NEW t \in Edits, t \in disk'.has, NEW d \in 1 .. t - 1, Overlap(d, t)
        PROVE  d \in disk'.has <=> d \in recs[t].before.has
    <3>1. CASE d = e
      <4>1. t \notin recs[e].after.has /\ t \in disk.has
        BY <1>1, <1>3, <2>1, <2>2, <3>1
      <4>2. ~Overlap(t, e)
        BY <1>4, <4>1 DEF Changed
      <4> QED BY <2>2, <3>1, <4>2, OverlapIsMutual
    <3>2. CASE d # e
      BY <1>2, <2>1, <2>2, <3>2
    <3> QED BY <3>1, <3>2
  <2> QED BY <1>1, <2>1, <2>2
<1>5. CASE /\ disk' = Holding(disk.has \cup {e}) /\ e \notin disk.has
           /\ \A d \in Changed(recs[e].before, disk) : ~Overlap(d, e)
  <2>1. disk'.there /\ disk'.has = disk.has \cup {e}
    BY <1>5, Holdings
  <2>2. ASSUME NEW t \in Edits, t \in disk'.has, NEW d \in 1 .. t - 1, Overlap(d, t)
        PROVE  d \in disk'.has <=> d \in recs[t].before.has
    <3>1. CASE t = e
      <4>1. d # e
        BY <1>1, <3>1
      <4>2. ~(d \in Changed(recs[e].before, disk))
        BY <1>5, <2>2, <3>1
      <4> QED BY <2>1, <3>1, <4>1, <4>2 DEF Changed
    <3>2. CASE t # e /\ d = e
      <4>1. t \notin recs[e].before.has /\ t \in disk.has
        BY <1>1, <1>3, <2>1, <2>2, <3>2
      <4>2. ~Overlap(t, e)
        BY <1>5, <4>1 DEF Changed
      <4> QED BY <2>2, <3>2, <4>2, OverlapIsMutual
    <3>3. CASE t # e /\ d # e
      BY <1>2, <2>1, <2>2, <3>3
    <3> QED BY <3>1, <3>2, <3>3
  <2> QED BY <1>1, <2>1, <2>2
<1> QED BY <1>4, <1>5, WriteIsOneEdit

\* The invariant is kept by every step.
LEMMA StepReviewInv == Modifying /\ ReviewInv /\ [Next]_vars => ReviewInv'
<1> SUFFICES ASSUME Modifying, ReviewInv, [Next]_vars PROVE ReviewInv'
  OBVIOUS
<1>1. TypeInv'
  BY StepTypeInv DEF ReviewInv
<1>2. CASE AgentEdit
  BY <1>1, <1>2, AgentEditReviewInv DEF ReviewInv
<1>3. CASE UNCHANGED recs /\ ~AgentEdit
  <2>1. /\ Edits' = Edits /\ \A d, t : Overlap(d, t)' <=> Overlap(d, t)
    BY <1>3 DEF Edits, Overlap
  <2>2. Contents' = Contents
    BY FileSteps DEF Contents
  <2>3. \A e \in Edits' : Snapshots(recs[e], e)' /\ recs'[e].before.has \subseteq 1 .. e - 1
    BY <1>3, <2>1, <2>2 DEF ReviewInv, SnapInv, Snapshots, Holding
  <2>4. disk'.there /\ disk'.has \subseteq Edits /\ Fits(disk)'
    <3>1. CASE disk' = disk
      BY <1>3, <2>1, <3>1 DEF ReviewInv, SnapInv, FitsInv, Fits
    <3>2. ASSUME NEW q \in Reviewers, Write(q) PROVE disk'.there /\ disk'.has \subseteq Edits /\ Fits(disk)'
      BY <1>3, <2>1, <3>2, WriteFits DEF Fits
    <3>3. ASSUME NEW q \in Reviewers, WriteSnapshot(q) PROVE disk'.there /\ disk'.has \subseteq Edits /\ Fits(disk)'
      <4>1. Target(q) \in Edits
        BY <3>3, TargetIsToDo DEF WriteSnapshot, ReviewInv, TypeInv
      <4>2. disk' = recs[Target(q)].before \/ disk' = recs[Target(q)].after
        BY <3>3 DEF WriteSnapshot
      <4>3. disk'.there /\ disk'.has \subseteq Edits
        BY <4>1, <4>2, SnapshotsHoldEdits
      <4>4. \A t \in Edits : t \in disk'.has =>
              \A d \in 1 .. t - 1 : Overlap(d, t) => (d \in disk'.has <=> d \in recs[t].before.has)
        BY <4>1, <4>2 DEF ReviewInv, FitsInv, Fits
      <4> QED BY <1>3, <2>1, <4>3, <4>4 DEF Fits
    <3> QED BY <1>3, <3>1, <3>2, <3>3, FileSteps
  <2>5. \A e \in Edits' : Fits(recs[e].before)' /\ Fits(recs[e].after)'
    BY <1>3, <2>1 DEF ReviewInv, FitsInv, Fits
  <2>6. ASSUME NEW r \in Reviewers, job'[r].at = "write" PROVE job'[r].base = disk'
    <3>1. CASE Look(r)
      BY <3>1 DEF Look, ReviewInv, TypeInv, JobInv, Jobs
    <3>2. CASE job'[r] = job[r] /\ ~Write(r) /\ ~WriteSnapshot(r)
      <4>1. lock = r /\ job[r].base = disk
        BY <2>6, <3>2 DEF ReviewInv, TypeInv, LockInv, SnapInv
      <4>2. \A q \in Reviewers : ~Write(q) /\ ~WriteSnapshot(q)
        BY <3>2, <4>1 DEF ReviewInv, TypeInv, LockInv, Write, WriteSnapshot
      <4> QED BY <1>3, <3>2, <4>1, <4>2, FileSteps
    <3> QED BY <2>6, <3>1, <3>2, StillWriting DEF ReviewInv
  <2>7. SnapInv'
    BY <2>1, <2>3, <2>4, <2>6 DEF SnapInv
  <2>8. FitsInv'
    BY <2>4, <2>5 DEF FitsInv
  <2> QED BY <1>1, <2>7, <2>8 DEF ReviewInv
<1> QED BY <1>2, <1>3, FileSteps

\* The invariant, of every behaviour.
LEMMA ReviewInvAlways == Modifying => (Spec => []ReviewInv)
<1> SUFFICES ASSUME Modifying PROVE Spec => []ReviewInv
  OBVIOUS
<1>1. Init => ReviewInv
  BY InitReviewInv
<1>2. ReviewInv /\ [Next]_vars => ReviewInv'
  BY StepReviewInv
<1> QED BY <1>1, <1>2, PTL DEF Spec

\* While agents only modify the file, and none of them writes between a verb's read and its write, an undo or a redo
\* changes its own edit in the file and no other, whatever reviewers ask for, force or keep meanwhile.
THEOREM OneEditAtATime == Modifying => (Spec => OnlyItsEdit)
<1> SUFFICES ASSUME Modifying PROVE Spec => OnlyItsEdit
  OBVIOUS
<1>1. ASSUME ReviewInv, NEW r \in Reviewers, Write(r) PROVE Changed(disk, disk') = {Target(r)}
  BY <1>1, WriteIsOneEdit, Holdings DEF Changed
<1>2. ReviewInv /\ [Next]_vars => [\A r \in Reviewers : Write(r) => Changed(disk, disk') = {Target(r)}]_vars
  BY <1>1
<1> QED BY <1>2, ReviewInvAlways, PTL DEF Spec, OnlyItsEdit

\* Under the same conditions a bulk undo's conflicts are never between its own targets: going newest first, whatever
\* stands in the way of one is an edit it was not asked to take out, or has already tried to.
THEOREM NewestFirstNeverBlocksItself == Modifying => (Spec => ScopeConflictsAreOthers)
<1> SUFFICES ASSUME Modifying PROVE Spec => ScopeConflictsAreOthers
  OBVIOUS
<1>1. ASSUME ReviewInv, NEW r \in Reviewers, Conflict(r), job[r].verb = "undoScope", Target(r) \in disk.has
      PROVE  \E d \in Edits \ job[r].todo : Overlap(d, Target(r))
  <2> DEFINE t == Target(r)
  <2>1. /\ t \in Edits /\ t \in job[r].todo /\ \A e \in job[r].todo : e <= t
        /\ job[r].base = disk /\ disk \in Contents /\ disk.there /\ disk.has \subseteq Edits
        /\ job[r].todo \subseteq Edits
    BY <1>1, TargetIsToDo DEF Conflict, ReviewInv, TypeInv, LogInv, JobInv, SnapInv
  <2>2. UndoResult(recs[t], disk) = {}
    BY <1>1, <2>1 DEF Conflict, Results, DoesUndo
  <2>3. Snapshots(recs[t], t)
    BY <1>1, <2>1 DEF ReviewInv, SnapInv
  <2>4. PICK d \in Changed(recs[t].after, disk) : Overlap(d, t)
    <3> HIDE DEF t
    <3> QED BY <1>1, <2>1, <2>2, <2>3, UndoOf DEF t
  <2>5. /\ recs[t].after.has = recs[t].before.has \cup {t} /\ recs[t].before.has \subseteq 1 .. t - 1
        /\ 1 .. t \subseteq Edits /\ t \in Nat
    BY <1>1, <2>1, SnapshotsHoldEdits
  <2>6. d \in Edits /\ d # t /\ d \in Nat
    BY <1>1, <2>1, <2>4, <2>5, EditNumbers DEF Changed, ReviewInv, TypeInv
  <2>7. ~(d < t)
    <3> SUFFICES ASSUME d < t PROVE FALSE
      OBVIOUS
    <3>1. d \in 1 .. t - 1
      BY <1>1, <2>1, <2>6, EditNumbers DEF ReviewInv, TypeInv
    <3>2. d \in disk.has <=> d \in recs[t].before.has
      BY <1>1, <2>1, <2>4, <3>1 DEF ReviewInv, FitsInv, Fits
    <3> QED BY <2>4, <2>5, <2>6, <3>2 DEF Changed
  <2>8. d \notin job[r].todo
    BY <2>1, <2>5, <2>6, <2>7
  <2> QED BY <2>4, <2>6, <2>8
<1>2. ReviewInv /\ [Next]_vars =>
        [\A r \in Reviewers : Conflict(r) /\ job[r].verb = "undoScope" =>
           \/ \E d \in Edits \ job[r].todo : Overlap(d, Target(r))
           \/ Target(r) \notin disk.has]_vars
  BY <1>1
<1> QED BY <1>2, ReviewInvAlways, PTL DEF Spec, ScopeConflictsAreOthers

-----------------------------------------------------------------------------
(* The ledger and the file.                                                *)

\* Where the status of an edit is, while it is not in the log: in a job or in a report.
HoldsIn(j, verb, e) == \E i \in DOMAIN j.parts : j.parts[i].verb = verb /\ e \in j.parts[i].ids
Owes(verb, e) == \E p \in owed : p.verb = verb /\ e \in p.ids
InWork(verb, e) == (\E r \in Reviewers : HoldsIn(job[r], verb, e)) \/ Owes(verb, e)
Held(j, e) == HoldsIn(j, "undo", e) \/ HoldsIn(j, "redo", e)

\* A job is one verb's, asked by a reviewer of the session, and holds one part at most, of that verb's statuses.
Shape(r, j) ==
  /\ j.at = "idle" => j = Idle
  /\ j.at # "idle" => r \in session.by /\ j.verb \in session.verbs
  /\ Len(j.parts) <= 1
  /\ j.at = "keep" => j.verb = "keepGroup" /\ \A i \in DOMAIN j.parts : j.parts[i].verb = "keep"
  /\ j.at \in {"next", "write"} =>
       /\ j.verb \in {"undo", "undoScope", "redo", "redoScope"}
       /\ \A i \in DOMAIN j.parts : j.parts[i].verb = IF DoesUndo(j.verb) THEN "undo" ELSE "redo"
  /\ j.at \in {"next", "write", "record"} =>
       \A i \in DOMAIN j.parts : j.parts[i].verb = "undo" \/ (j.parts[i].verb = "redo" /\ ~OnlyUndoes)

\* What is being undone, redone or kept still has the status it was asked for with.
Aims(j) ==
  /\ j.at \in {"next", "write"} =>
       \A e \in j.todo : IF DoesUndo(j.verb) THEN OnlyUndoes \/ verdict[e] # "undone" ELSE verdict[e] = "undone"
  /\ \A e \in Edits : HoldsIn(j, "keep", e) => verdict[e] # "undone"

\* The file and the ledger agree on an edit, but while its status is in someone's hands: then the file is ahead.
Settled(e) ==
  /\ InWork("undo", e) => e \notin disk.has /\ verdict[e] # "undone"
  /\ InWork("redo", e) => e \in disk.has /\ verdict[e] = "undone"
  /\ ~InWork("undo", e) /\ ~InWork("redo", e) => (verdict[e] = "undone" <=> e \notin disk.has)

\* Its status is in one place.
Single(e) ==
  /\ \A r \in Reviewers : Held(job[r], e) =>
       ~Owes("undo", e) /\ ~Owes("redo", e) /\ \A q \in Reviewers \ {r} : ~Held(job[q], e)
  /\ \A p, q \in owed : e \in p.ids /\ e \in q.ids => p = q

ShapeInv ==
  /\ \A p \in owed : p.verb = "undo" \/ (p.verb = "redo" /\ ~OnlyUndoes)
  /\ \A r \in Reviewers : Shape(r, job[r])

LedgerInv ==
  /\ Alone \/ OnlyUndoes
  /\ ShapeInv
  /\ \A r \in Reviewers : Aims(job[r])
  /\ \A e \in Edits \ lost : Settled(e) /\ Single(e)

\* At the start there is no edit to disagree on.
LEMMA InitLedgerInv == Init /\ (Alone \/ OnlyUndoes) => LedgerInv
<1> SUFFICES ASSUME Init, Alone \/ OnlyUndoes PROVE LedgerInv
  OBVIOUS
<1>1. Alone \/ OnlyUndoes
  OBVIOUS
<1>2. Edits = {}
  BY DEF Init, Edits
<1>3. \A r \in Reviewers : job[r] = Idle
  BY DEF Init
<1>4. ShapeInv
  BY <1>3, IdleIsJob DEF ShapeInv, Shape, Init
<1>5. \A r \in Reviewers : Aims(job[r])
  BY <1>2, <1>3, IdleIsJob DEF Aims
<1> QED BY <1>1, <1>2, <1>4, <1>5 DEF LedgerInv

\* A step of one reviewer: the others' jobs are as they were.
LEMMA ShapeStep ==
  ASSUME TypeInv, ShapeInv, UNCHANGED session, NEW q \in Reviewers, NEW j, job' = [job EXCEPT ![q] = j], Shape(q, j),
         \A p \in owed' : p.verb = "undo" \/ (p.verb = "redo" /\ ~OnlyUndoes)
  PROVE  ShapeInv'
<1>1. \A r \in Reviewers : job'[r] = IF r = q THEN j ELSE job[r]
  BY DEF TypeInv, JobInv
<1>2. \A r \in Reviewers : Shape(r, job[r])' <=> Shape(r, job'[r])
  BY DEF Shape, OnlyUndoes
<1>3. \A r \in Reviewers : Shape(r, job'[r])
  BY <1>1 DEF ShapeInv
<1> QED BY <1>2, <1>3 DEF ShapeInv, OnlyUndoes

\* Where statuses stay as they are, so do the other reviewers' aims.
LEMMA AimsStep ==
  ASSUME TypeInv, \A r \in Reviewers : Aims(job[r]), UNCHANGED <<session, recs, verdict>>,
         NEW q \in Reviewers, NEW j, job' = [job EXCEPT ![q] = j], Aims(j)
  PROVE  \A r \in Reviewers : Aims(job[r])'
<1>1. \A r \in Reviewers : job'[r] = IF r = q THEN j ELSE job[r]
  BY DEF TypeInv, JobInv
<1>2. \A r \in Reviewers : Aims(job[r])' <=> Aims(job'[r])
  BY DEF Aims, HoldsIn, OnlyUndoes, Edits
<1> QED BY <1>1, <1>2

\* A step that neither rewrites the file nor moves or writes a status.
LEMMA SettledFrame ==
  ASSUME LedgerInv, UNCHANGED <<disk, recs, verdict, owed, lost>>,
         \A r \in Reviewers, e \in Edits : /\ HoldsIn(job'[r], "undo", e) <=> HoldsIn(job[r], "undo", e)
                                           /\ HoldsIn(job'[r], "redo", e) <=> HoldsIn(job[r], "redo", e)
  PROVE  \A e \in Edits' \ lost' : Settled(e)' /\ Single(e)'
<1> SUFFICES ASSUME NEW e \in Edits \ lost PROVE Settled(e)' /\ Single(e)'
  BY DEF Edits
<1>1. Settled(e) /\ Single(e)
  BY DEF LedgerInv
<1>2. /\ InWork("undo", e)' <=> InWork("undo", e)
      /\ InWork("redo", e)' <=> InWork("redo", e)
  BY DEF InWork, Owes, HoldsIn
<1>3. Settled(e)'
  BY <1>1, <1>2 DEF Settled
<1>4. \A r \in Reviewers : Held(job'[r], e) <=> Held(job[r], e)
  BY DEF Held
<1>5. Single(e)'
  BY <1>1, <1>4 DEF Single, Owes, Held, HoldsIn
<1> QED BY <1>3, <1>5

\* At work, the parts a job holds are edits of the log; idle, it holds none.
LEMMA HeldAreEdits ==
  ASSUME JobInv, NEW r \in Reviewers, NEW verb, NEW e, HoldsIn(job[r], verb, e)
  PROVE  e \in Edits
BY DEF JobInv, HoldsIn

\* An agent's edit is in the file, pending, and in nobody's hands.
LEMMA AgentEditLedger ==
  ASSUME Modifying, ReviewInv, LedgerInv, AgentEdit
  PROVE  LedgerInv'
<1> DEFINE n == Len(recs) + 1
<1>1. /\ UNCHANGED <<session, job, owed, lost>>
      /\ disk' = Holding(disk.has \cup {n})
  <2>1. PICK kind \in Kinds : disk' \in Edited(kind, n)
    BY DEF AgentEdit
  <2> QED BY <2>1 DEF AgentEdit, Modifying, Edited, ReviewInv, SnapInv
<1>2. disk'.has = disk.has \cup {n}
  BY <1>1, Holdings
<1>3. Edits = 1 .. Len(recs) /\ Len(recs) \in Nat
  BY EditNumbers DEF ReviewInv, TypeInv
<1>4. Edits' = 1 .. n
  BY <1>3 DEF AgentEdit, Edits
<1>5. verdict'[n] = "pending" /\ \A e \in Edits : verdict'[e] = verdict[e]
  <2>1. verdict \in Seq(Status) /\ Len(verdict) = Len(recs)
    BY <1>3 DEF ReviewInv, TypeInv, LogInv
  <2> QED BY <1>3, <2>1 DEF AgentEdit
<1>6. \A verb : /\ \A r \in Reviewers : ~HoldsIn(job[r], verb, n)
                /\ ~Owes(verb, n)
  BY <1>3, HeldAreEdits DEF ReviewInv, TypeInv, JobInv, Owes
<1>7. ASSUME NEW e \in Edits' \ lost' PROVE Settled(e)' /\ Single(e)'
  <2>1. \A verb : InWork(verb, e)' <=> InWork(verb, e)
    BY <1>1 DEF InWork, Owes, HoldsIn
  <2>2. CASE e = n
    <3>1. Settled(e)'
      BY <1>2, <1>5, <1>6, <2>1, <2>2 DEF Settled, InWork
    <3>2. Single(e)'
      BY <1>1, <1>3, <1>6, <2>2 DEF Single, Held, HoldsIn, ReviewInv, TypeInv, JobInv
    <3> QED BY <3>1, <3>2
  <2>3. CASE e # n
    <3>1. e \in Edits \ lost
      BY <1>1, <1>3, <1>4, <2>3
    <3>2. Settled(e)'
      BY <1>2, <1>5, <2>1, <2>3, <3>1 DEF Settled, LedgerInv
    <3>3. Single(e)'
      BY <1>1, <3>1 DEF Single, LedgerInv, Held, HoldsIn, Owes
    <3> QED BY <3>2, <3>3
  <2> QED BY <2>2, <2>3
<1>8. ShapeInv'
  BY <1>1 DEF LedgerInv, ShapeInv, Shape, OnlyUndoes
<1>9. ASSUME NEW r \in Reviewers PROVE Aims(job[r])'
  <2>1. job[r].todo \subseteq Edits /\ \A e \in Edits' : HoldsIn(job[r], "keep", e) => e \in Edits
    BY HeldAreEdits DEF ReviewInv, TypeInv, JobInv
  <2> QED BY <1>1, <1>5, <2>1 DEF LedgerInv, Aims, HoldsIn, OnlyUndoes
<1> QED BY <1>1, <1>7, <1>8, <1>9 DEF LedgerInv, Alone, OnlyUndoes

\* What is asked for: an undo's targets are not undone, a redo's are, and what is kept is pending.
LEMMA AskLedger ==
  ASSUME ReviewInv, LedgerInv, Merges, NEW q \in Reviewers, Steps(q)
  PROVE  LedgerInv'
<1>1. PICK verb \in Verbs, at \in {"next", "keep"}, todo \in SUBSET Edits, parts \in Seq(Parts) :
        Asked(q, verb, at, todo, parts)
  BY AskedFor DEF ReviewInv, TypeInv
<1> DEFINE j == Job(verb, at, todo, parts)
<1>2. /\ job' = [job EXCEPT ![q] = j] /\ job[q] = Idle /\ q \in session.by /\ verb \in session.verbs
      /\ UNCHANGED <<session, disk, recs, verdict, owed, lost>>
  BY <1>1 DEF Asked, Ask
<1>3. j.verb = verb /\ j.at = at /\ j.todo = todo /\ j.parts = parts
  BY DEF Job
<1>4. /\ at = "next" => parts = <<>> /\ verb \in {"undo", "undoScope", "redo", "redoScope"}
      /\ at = "keep" => /\ todo = {} /\ verb = "keepGroup"
                        /\ \E S \in SUBSET WithStatus({"pending"}) : parts = <<Part("keep", S)>>
  <2>1. at = "keep" => verb = "keepGroup"
    BY <1>1, <1>2 DEF Asked, Merges
  <2>2. at = "next" => verb \in {"undo", "undoScope", "redo", "redoScope"}
    BY <1>1, <1>2 DEF Asked, Merges
  <2>3. \A S : Part("keep", S).ids = S
    BY DEF Part
  <2> QED BY <1>1, <2>1, <2>2, <2>3 DEF Asked
<1> HIDE DEF j
<1>5. Len(parts) <= 1 /\ \A i \in DOMAIN parts : at = "keep" /\ parts[i].verb = "keep"
  <2>1. CASE at = "next"
    <3>1. parts = <<>>
      BY <1>4, <2>1
    <3> QED BY <3>1
  <2>2. CASE at = "keep"
    <3>1. PICK S : parts = <<Part("keep", S)>>
      BY <1>4, <2>2
    <3>2. Part("keep", S).verb = "keep"
      BY DEF Part
    <3> QED BY <2>2, <3>1, <3>2
  <2> QED BY <2>1, <2>2
<1>6. Shape(q, j)
  BY <1>2, <1>3, <1>4, <1>5 DEF Shape
<1>7. Aims(j)
  <2>1. ASSUME at = "next", NEW e \in todo
        PROVE  IF DoesUndo(verb) THEN verdict[e] # "undone" ELSE verdict[e] = "undone"
    BY <1>1, <1>4, <2>1 DEF Asked, DoesUndo, WithStatus
  <2>2. ASSUME NEW e \in Edits, HoldsIn(j, "keep", e) PROVE verdict[e] # "undone"
    <3>1. at = "keep"
      BY <1>3, <1>5, <2>2 DEF HoldsIn
    <3>2. PICK S \in SUBSET WithStatus({"pending"}) : parts = <<Part("keep", S)>>
      BY <1>4, <3>1
    <3>3. e \in S
      BY <1>3, <2>2, <3>2 DEF HoldsIn, Part
    <3> QED BY <3>3 DEF WithStatus
  <2> QED BY <1>3, <2>1, <2>2 DEF Aims
<1>8. ShapeInv'
  BY <1>2, <1>6, ShapeStep DEF LedgerInv, ShapeInv, ReviewInv
<1>9. \A r \in Reviewers : Aims(job[r])'
  BY <1>2, <1>7, AimsStep DEF LedgerInv, ReviewInv
<1>10. \A e \in Edits' \ lost' : Settled(e)' /\ Single(e)'
  <2>1. \A verbs, e : verbs \in {"undo", "redo"} => ~HoldsIn(j, verbs, e) /\ ~HoldsIn(Idle, verbs, e)
    BY <1>3, <1>5, IdleIsJob DEF HoldsIn
  <2>2. \A r \in Reviewers : job'[r] = IF r = q THEN j ELSE job[r]
    BY <1>2 DEF ReviewInv, TypeInv, JobInv
  <2> QED BY <1>2, <2>1, <2>2, SettledFrame
<1> QED BY <1>2, <1>8, <1>9, <1>10 DEF LedgerInv, Alone, OnlyUndoes

\* A step that leaves the parts of a job as they are.
LEMMA SamePartsLedger ==
  ASSUME ReviewInv, LedgerInv, NEW q \in Reviewers, NEW j, job' = [job EXCEPT ![q] = j],
         UNCHANGED <<session, disk, recs, verdict, owed, lost>>,
         Shape(q, j), Aims(j), j.parts = job[q].parts
  PROVE  LedgerInv'
<1>1. ShapeInv'
  BY ShapeStep DEF LedgerInv, ShapeInv, ReviewInv
<1>2. \A r \in Reviewers : Aims(job[r])'
  BY AimsStep DEF LedgerInv, ReviewInv
<1>3. \A e \in Edits' \ lost' : Settled(e)' /\ Single(e)'
  <2>1. \A r \in Reviewers : job'[r].parts = job[r].parts
    BY DEF ReviewInv, TypeInv, JobInv
  <2> QED BY <2>1, SettledFrame DEF HoldsIn
<1> QED BY <1>1, <1>2, <1>3 DEF LedgerInv, Alone, OnlyUndoes

\* A job that holds one part holds the edits of that part.
LEMMA OnePart ==
  ASSUME TypeInv, ShapeInv, NEW r \in Reviewers, job[r].parts # <<>>
  PROVE  /\ DOMAIN job[r].parts = {1} /\ ToSet(job[r].parts) = {job[r].parts[1]} /\ job[r].parts[1] \in Parts
         /\ \A verb, e : HoldsIn(job[r], verb, e) <=> job[r].parts[1].verb = verb /\ e \in job[r].parts[1].ids
<1>1. job[r].parts \in Seq(Parts) /\ Len(job[r].parts) <= 1
  BY DEF TypeInv, JobInv, Jobs, ShapeInv, Shape
<1>2. Len(job[r].parts) \in Nat \ {0} /\ DOMAIN job[r].parts = 1 .. Len(job[r].parts)
  <2> DEFINE s == job[r].parts
  <2>1. s \in Seq(Parts) /\ s # <<>>
    BY <1>1
  <2> HIDE DEF s
  <2>2. Len(s) \in Nat /\ DOMAIN s = 1 .. Len(s) /\ Len(s) # 0
    BY <2>1, EmptySeq, LenProperties
  <2> QED BY <2>2 DEF s
<1>3. Len(job[r].parts) = 1 /\ DOMAIN job[r].parts = 1 .. 1
  <2> DEFINE n == Len(job[r].parts)
  <2>1. n \in Nat \ {0} /\ n <= 1 /\ DOMAIN job[r].parts = 1 .. n
    BY <1>1, <1>2
  <2> HIDE DEF n
  <2>2. n = 1
    BY <2>1
  <2> QED BY <2>1, <2>2 DEF n
<1>4. job[r].parts[1] \in Parts
  BY <1>1, <1>3, ElementOfSeq
<1> QED BY <1>3, <1>4 DEF HoldsIn, ToSet

\* A target that is refused, or in conflict, is left with its status.
LEMMA LeaveLedger ==
  ASSUME ReviewInv, LedgerInv, NEW q \in Reviewers, Busy(q) \/ Conflict(q)
  PROVE  LedgerInv'
<1>1. /\ job[q].at \in {"next", "write"} /\ NextTarget(q, job[q].parts)
      /\ UNCHANGED <<session, disk, recs, verdict, owed, lost>>
  BY DEF Busy, Conflict
<1>2. job[q].parts \in Seq(Parts)
  BY DEF ReviewInv, TypeInv, JobInv, Jobs
<1>3. PICK j \in Jobs :
        /\ job' = [job EXCEPT ![q] = j]
        /\ j.todo \subseteq job[q].todo \ {Target(q)}
        /\ j.parts = job[q].parts
        /\ j.at \in {"idle", "next", "record"}
        /\ j.at = "next" => j.todo # {}
        /\ j.at = "record" => j.parts # <<>>
        /\ j = Idle \/ (j.at # "idle" /\ j.verb = job[q].verb)
  BY <1>1, <1>2, NextTargetJob DEF ReviewInv
<1>4. Shape(q, job[q]) /\ Aims(job[q])
  BY DEF LedgerInv, ShapeInv
<1>5. Shape(q, j)
  BY <1>1, <1>3, <1>4, IdleIsJob DEF Shape
<1>6. Aims(j)
  BY <1>1, <1>3, <1>4, IdleIsJob DEF Aims, HoldsIn
<1> QED BY <1>1, <1>3, <1>5, <1>6, SamePartsLedger

\* Reading the file moves no status.
LEMMA LookLedger ==
  ASSUME ReviewInv, LedgerInv, NEW q \in Reviewers, Look(q)
  PROVE  LedgerInv'
<1> DEFINE j == [job[q] EXCEPT !.at = "write", !.base = disk]
<1>1. job[q] \in Jobs
  BY DEF ReviewInv, TypeInv, JobInv
<1>2. j.verb = job[q].verb /\ j.at = "write" /\ j.todo = job[q].todo /\ j.parts = job[q].parts
  BY <1>1 DEF Jobs
<1>3. /\ job[q].at = "next" /\ job' = [job EXCEPT ![q] = j]
      /\ UNCHANGED <<session, disk, recs, verdict, owed, lost>>
  BY DEF Look
<1> HIDE DEF j
<1>4. Shape(q, job[q]) /\ Aims(job[q])
  BY DEF LedgerInv, ShapeInv
<1>5. Shape(q, j)
  BY <1>2, <1>3, <1>4 DEF Shape
<1>6. Aims(j)
  BY <1>2, <1>3, <1>4 DEF Aims, HoldsIn
<1> QED BY <1>2, <1>3, <1>5, <1>6, SamePartsLedger

\* A reported status moves from the report to the job that repairs it.
LEMMA RecordOnlyLedger ==
  ASSUME ReviewInv, LedgerInv, NEW q \in Reviewers, RecordOnly(q)
  PROVE  LedgerInv'
<1>1. PICK p \in owed :
        /\ q \in session.by /\ "recordOnly" \in session.verbs /\ job[q] = Idle
        /\ job' = [job EXCEPT ![q] = Job("recordOnly", "record", {}, <<p>>)]
        /\ owed' = owed \ {p}
        /\ UNCHANGED <<session, disk, recs, verdict, prior, lock, lost, crashes>>
  BY DEF RecordOnly
<1> DEFINE j == Job("recordOnly", "record", {}, <<p>>)
<1>2. j.verb = "recordOnly" /\ j.at = "record" /\ j.todo = {} /\ j.parts = <<p>>
  BY DEF Job
<1> HIDE DEF j
<1>3. p.verb = "undo" \/ (p.verb = "redo" /\ ~OnlyUndoes)
  BY DEF LedgerInv, ShapeInv
<1>4. \A verb, e : HoldsIn(j, verb, e) <=> p.verb = verb /\ e \in p.ids
  BY <1>2 DEF HoldsIn
<1>5. Shape(q, j)
  BY <1>1, <1>2, <1>3 DEF Shape
<1>6. Aims(j)
  BY <1>2, <1>3, <1>4 DEF Aims
<1>7. job' = [job EXCEPT ![q] = j] /\ \A r \in Reviewers : job'[r] = IF r = q THEN j ELSE job[r]
  BY <1>1 DEF j, ReviewInv, TypeInv, JobInv
<1>8. ShapeInv'
  BY <1>1, <1>5, <1>7, ShapeStep DEF LedgerInv, ShapeInv, ReviewInv
<1>9. \A r \in Reviewers : Aims(job[r])'
  BY <1>1, <1>6, <1>7, AimsStep DEF LedgerInv, ReviewInv
<1>10. ASSUME NEW e \in Edits' \ lost' PROVE Settled(e)' /\ Single(e)'
  <2>1. e \in Edits \ lost
    BY <1>1 DEF Edits
  <2>2. Settled(e) /\ Single(e)
    BY <2>1 DEF LedgerInv
  <2>3. \A verb : /\ ~HoldsIn(job[q], verb, e)
                  /\ (\E r \in Reviewers : HoldsIn(job'[r], verb, e)) <=>
                       (\E r \in Reviewers : HoldsIn(job[r], verb, e)) \/ (p.verb = verb /\ e \in p.ids)
    <3>1. \A verb : ~HoldsIn(job[q], verb, e)
      BY <1>1, IdleIsJob DEF HoldsIn
    <3> QED BY <1>4, <1>7, <3>1
  <2>4. \A verb : Owes(verb, e) <=> Owes(verb, e)' \/ (p.verb = verb /\ e \in p.ids)
    BY <1>1 DEF Owes
  <2>5. \A verb : InWork(verb, e)' <=> InWork(verb, e)
    BY <2>3, <2>4 DEF InWork, HoldsIn, Owes
  <2>6. Settled(e)'
    BY <1>1, <2>2, <2>5 DEF Settled
  <2>7. Single(e)'
    <3>1. \A r \in Reviewers \ {q} : Held(job'[r], e) <=> Held(job[r], e)
      BY <1>7
    <3>2. ~Held(job[q], e) /\ (Held(job'[q], e) <=> e \in p.ids)
      BY <1>3, <1>4, <1>7, <2>3 DEF Held
    <3>3. e \in p.ids => \A r \in Reviewers : ~Held(job[r], e)
      BY <1>3, <2>2 DEF Single, Owes
    <3>4. e \in p.ids => ~Owes("undo", e)' /\ ~Owes("redo", e)'
      BY <1>1, <2>2 DEF Single, Owes
    <3>5. \A verb : Owes(verb, e)' => Owes(verb, e)
      BY <2>4
    <3>6. ASSUME NEW r \in Reviewers, Held(job'[r], e)
          PROVE  /\ ~Owes("undo", e)' /\ ~Owes("redo", e)'
                 /\ \A x \in Reviewers \ {r} : ~Held(job'[x], e)
      BY <2>2, <3>1, <3>2, <3>3, <3>4, <3>5, <3>6 DEF Single
    <3>7. \A a, b \in owed' : e \in a.ids /\ e \in b.ids => a = b
      BY <1>1, <2>2 DEF Single
    <3> QED BY <3>6, <3>7 DEF Single, Held, HoldsIn, Owes
  <2> QED BY <2>6, <2>7
<1> QED BY <1>1, <1>8, <1>9, <1>10 DEF LedgerInv, Alone, OnlyUndoes

\* What a job or a report holds, nobody else does.
LEMMA NobodyElse ==
  ASSUME LedgerInv, NEW q \in Reviewers, NEW e \in Edits \ lost, Held(job[q], e)
  PROVE  \A verb \in {"undo", "redo"} : ~Owes(verb, e) /\ \A r \in Reviewers \ {q} : ~HoldsIn(job[r], verb, e)
BY DEF LedgerInv, Single, Held

\* A rewrite: the edit it moves was settled and in nobody's hands, and is now in the writer's.
LEMMA WriteLedger ==
  ASSUME ReviewInv, LedgerInv, NEW q \in Reviewers, Write(q)
  PROVE  LedgerInv'
<1> DEFINE t == Target(q)
           w == IF DoesUndo(job[q].verb) THEN "undo" ELSE "redo"
<1>1. /\ UNCHANGED <<session, recs, verdict, owed, lost>> /\ job[q].at = "write"
      /\ job[q].verb \in {"undo", "undoScope", "redo", "redoScope"}
  BY DEF Write
<1>2. t \in Edits /\ t \in job[q].todo /\ job[q] \in Jobs
  BY <1>1, TargetIsToDo DEF ReviewInv, TypeInv, JobInv
<1>3. Flushing(q) \in Seq(Parts) /\ Flushing(q) # <<>>
  BY <1>1, FlushingParts DEF ReviewInv
<1>4. PICK j \in Jobs :
        /\ job' = [job EXCEPT ![q] = j] /\ j.parts = Flushing(q) /\ j.todo \subseteq job[q].todo
        /\ j.at \in {"next", "record"} /\ j.verb = job[q].verb
  <2>1. CASE IsBulk(job[q].verb)
    <3>1. NextTarget(q, Flushing(q))
      BY <2>1 DEF Write
    <3>2. PICK j \in Jobs :
            /\ job' = [job EXCEPT ![q] = j]
            /\ j.todo \subseteq job[q].todo \ {Target(q)}
            /\ j.parts = Flushing(q)
            /\ j.at \in {"idle", "next", "record"}
            /\ j.at = "next" => j.todo # {}
            /\ j.at = "record" => j.parts # <<>>
            /\ j = Idle \/ (j.at # "idle" /\ j.verb = job[q].verb)
      BY <1>1, <1>3, <3>1, NextTargetJob DEF ReviewInv
    <3>3. j # Idle
      BY <1>3, <3>2, IdleIsJob
    <3> QED BY <3>2, <3>3
  <2>2. CASE ~IsBulk(job[q].verb)
    <3> DEFINE j == [job[q] EXCEPT !.at = "record", !.todo = {}, !.parts = Flushing(q), !.base = Absent]
    <3>1. job' = [job EXCEPT ![q] = j]
      BY <1>2, <2>2 DEF Write, ReviewInv, TypeInv, JobInv, Jobs
    <3>2. Absent \in Contents
      BY DEF Absent, Holding, Contents
    <3>3. j \in Jobs
      BY <1>2, <1>3, <3>2 DEF Jobs
    <3>4. j.parts = Flushing(q) /\ j.todo = {} /\ j.at = "record" /\ j.verb = job[q].verb
      BY <1>2 DEF Jobs
    <3> HIDE DEF j
    <3> QED BY <3>1, <3>3, <3>4
  <2> QED BY <2>1, <2>2
<1>5. Shape(q, job[q]) /\ Aims(job[q])
  BY DEF LedgerInv, ShapeInv
<1>6. /\ DOMAIN j.parts = {1} /\ Len(j.parts) = 1 /\ j.parts[1].verb = w
      /\ \A e : e \in j.parts[1].ids <=> e = t \/ HoldsIn(job[q], w, e)
  <2>1. CASE job[q].parts = <<>>
    <3> DEFINE p == Part(w, {t})
    <3>1. j.parts = <<p>>
      BY <1>4, <2>1 DEF Flushing
    <3>2. p.verb = w /\ p.ids = {t}
      BY DEF Part
    <3>3. \A e : ~HoldsIn(job[q], w, e)
      BY <2>1 DEF HoldsIn
    <3> HIDE DEF w, t, p
    <3>4. DOMAIN j.parts = {1} /\ Len(j.parts) = 1 /\ j.parts[1] = p
      BY <3>1
    <3> QED BY <3>2, <3>3, <3>4
  <2>2. CASE job[q].parts # <<>>
    <3> DEFINE p == job[q].parts[1]
               more == [p EXCEPT !.ids = @ \cup {t}]
    <3>1. /\ p \in Parts /\ 1 \in DOMAIN job[q].parts
          /\ \A verb, e : HoldsIn(job[q], verb, e) <=> p.verb = verb /\ e \in p.ids
      BY <2>2, OnePart DEF ReviewInv, LedgerInv
    <3>2. p.verb = w
      BY <1>1, <1>5, <3>1 DEF Shape
    <3>3. j.parts = <<more>>
      BY <1>4, <2>2 DEF Flushing
    <3>4. more.verb = p.verb /\ more.ids = p.ids \cup {t}
      BY <3>1 DEF Parts
    <3> HIDE DEF w, t, p, more
    <3> QED BY <3>1, <3>2, <3>3, <3>4
  <2> QED BY <2>1, <2>2
<1> HIDE DEF w, t
<1>7. /\ w \in {"undo", "redo"}
      /\ \A e : HoldsIn(job[q], "undo", e) => w = "undo"
      /\ \A e : HoldsIn(job[q], "redo", e) => w = "redo"
  BY <1>1, <1>5 DEF w, Shape, HoldsIn
<1>8. \A e : /\ HoldsIn(j, "undo", e) <=> HoldsIn(job[q], "undo", e) \/ (w = "undo" /\ e = t)
             /\ HoldsIn(j, "redo", e) <=> HoldsIn(job[q], "redo", e) \/ (w = "redo" /\ e = t)
             /\ ~HoldsIn(j, "keep", e)
  BY <1>6, <1>7 DEF HoldsIn
<1>9. w = "redo" => ~OnlyUndoes
  BY <1>1, <1>5 DEF w, Shape, OnlyUndoes, DoesUndo
<1>10. Shape(q, j)
  <2>1. \A i \in DOMAIN j.parts : j.parts[i].verb = w
    BY <1>6
  <2>2. w = IF DoesUndo(j.verb) THEN "undo" ELSE "redo"
    BY <1>4 DEF w
  <2>3. q \in session.by /\ j.verb \in session.verbs
    BY <1>1, <1>4, <1>5 DEF Shape
  <2> QED BY <1>1, <1>4, <1>6, <1>7, <1>9, <2>1, <2>2, <2>3 DEF Shape
<1>11. Aims(j)
  BY <1>1, <1>4, <1>5, <1>8 DEF Aims
<1>12. ShapeInv'
  BY <1>1, <1>4, <1>10, ShapeStep DEF LedgerInv, ShapeInv, ReviewInv
<1>13. \A r \in Reviewers : Aims(job[r])'
  BY <1>1, <1>4, <1>11, AimsStep DEF LedgerInv, ReviewInv
<1>14. \/ /\ w = "undo" /\ disk'.has = disk.has \ {t} /\ t \in disk.has
       \/ /\ w = "redo" /\ disk'.has = disk.has \cup {t} /\ t \notin disk.has
  BY WriteIsOneEdit, Holdings DEF w, t
<1>15. t \notin lost => /\ ~InWork("undo", t) /\ ~InWork("redo", t)
                        /\ verdict[t] = "undone" <=> t \notin disk.has
  <2> SUFFICES ASSUME t \notin lost
               PROVE  /\ ~InWork("undo", t) /\ ~InWork("redo", t)
                      /\ verdict[t] = "undone" <=> t \notin disk.has
    OBVIOUS
  <2>1. Settled(t)
    BY <1>2 DEF LedgerInv
  <2>2. OnlyUndoes => ~InWork("redo", t)
    <3> SUFFICES ASSUME OnlyUndoes PROVE ~InWork("redo", t)
      OBVIOUS
    <3>1. ~Owes("redo", t)
      BY DEF Owes, LedgerInv, ShapeInv
    <3>2. ASSUME NEW r \in Reviewers, HoldsIn(job[r], "redo", t) PROVE FALSE
      <4>1. Shape(r, job[r]) /\ job[r].parts # <<>> /\ job[r] \in Jobs
        BY <3>2 DEF HoldsIn, LedgerInv, ShapeInv, ReviewInv, TypeInv, JobInv
      <4>2. job[r].at \in {"idle", "next", "write", "record", "keep"} /\ job[r].at # "idle"
        BY <4>1, IdleIsJob DEF Shape, Jobs
      <4> QED BY <3>2, <4>1, <4>2 DEF Shape, HoldsIn
    <3> QED BY <3>1, <3>2 DEF InWork
  <2>3. w = "undo" => OnlyUndoes \/ verdict[t] # "undone"
    BY <1>1, <1>2, <1>5 DEF Aims, w
  <2>4. w = "redo" => verdict[t] = "undone"
    BY <1>1, <1>2, <1>5 DEF Aims, w
  <2> QED BY <1>14, <2>1, <2>2, <2>3, <2>4 DEF Settled
<1>16. \A r \in Reviewers : job'[r] = IF r = q THEN j ELSE job[r]
  BY <1>4 DEF ReviewInv, TypeInv, JobInv
<1>17. ASSUME NEW e \in Edits' \ lost' PROVE Settled(e)' /\ Single(e)'
  <2>1. e \in Edits \ lost
    BY <1>1 DEF Edits
  <2>2. Settled(e) /\ Single(e)
    BY <2>1 DEF LedgerInv
  <2>3. \A verb : Owes(verb, e)' <=> Owes(verb, e)
    BY <1>1 DEF Owes
  <2>4. /\ InWork("undo", e)' <=> InWork("undo", e) \/ (w = "undo" /\ e = t)
        /\ InWork("redo", e)' <=> InWork("redo", e) \/ (w = "redo" /\ e = t)
    <3>1. /\ (\E r \in Reviewers : HoldsIn(job'[r], "undo", e)) <=>
               (\E r \in Reviewers : HoldsIn(job[r], "undo", e)) \/ (w = "undo" /\ e = t)
          /\ (\E r \in Reviewers : HoldsIn(job'[r], "redo", e)) <=>
               (\E r \in Reviewers : HoldsIn(job[r], "redo", e)) \/ (w = "redo" /\ e = t)
      BY <1>8, <1>16
    <3> QED BY <2>3, <3>1 DEF InWork, HoldsIn
  <2>5. verdict'[e] = verdict[e] /\ (e # t => (e \in disk'.has <=> e \in disk.has))
    BY <1>1, <1>14
  <2>6. Settled(e)'
    BY <1>14, <1>15, <2>1, <2>2, <2>4, <2>5 DEF Settled
  <2>7. Single(e)'
    <3>1. Held(job'[q], e) <=> Held(job[q], e) \/ e = t
      BY <1>7, <1>8, <1>16 DEF Held
    <3>2. \A r \in Reviewers \ {q} : Held(job'[r], e) <=> Held(job[r], e)
      BY <1>16
    <3>3. e = t => /\ ~Owes("undo", e) /\ ~Owes("redo", e)
                   /\ \A r \in Reviewers : ~Held(job[r], e)
      BY <1>15, <2>1 DEF InWork, Held
    <3>4. ASSUME NEW r \in Reviewers, Held(job'[r], e)
          PROVE  /\ ~Owes("undo", e) /\ ~Owes("redo", e)
                 /\ \A x \in Reviewers \ {r} : ~Held(job'[x], e)
      BY <2>2, <3>1, <3>2, <3>3, <3>4 DEF Single
    <3>5. \A a, b \in owed' : e \in a.ids /\ e \in b.ids => a = b
      BY <1>1, <2>2 DEF Single
    <3> QED BY <2>3, <3>4, <3>5 DEF Single, Held, HoldsIn
  <2> QED BY <2>6, <2>7
<1> QED BY <1>1, <1>12, <1>13, <1>17 DEF LedgerInv, Alone, OnlyUndoes

\* The end of a job that leaves the statuses alone.
LEMMA EndLedger ==
  ASSUME ReviewInv, LedgerInv, NEW q \in Reviewers, job' = [job EXCEPT ![q] = Idle],
         UNCHANGED <<session, recs, verdict>>,
         \A p \in owed' : p.verb = "undo" \/ (p.verb = "redo" /\ ~OnlyUndoes),
         \A e \in Edits' \ lost' : Settled(e)' /\ Single(e)'
  PROVE  LedgerInv'
<1>1. Shape(q, Idle) /\ Aims(Idle)
  BY IdleIsJob DEF Shape, Aims, HoldsIn
<1>2. ShapeInv'
  BY <1>1, ShapeStep DEF LedgerInv, ReviewInv
<1>3. \A r \in Reviewers : Aims(job[r])'
  BY <1>1, AimsStep DEF LedgerInv, ReviewInv
<1> QED BY <1>2, <1>3 DEF LedgerInv, Alone, OnlyUndoes

\* The status write succeeds: the ledger catches up with the file.
LEMMA RecordLedger ==
  ASSUME ReviewInv, LedgerInv, NEW q \in Reviewers, Record(q)
  PROVE  LedgerInv'
<1> DEFINE p == job[q].parts[1]
           P == Recorded(q)
<1>1. /\ job[q].at \in {"record", "keep"} /\ job[q].parts # <<>> /\ job[q] \in Jobs
      /\ UNCHANGED <<session, disk, recs, owed, lost>>
  BY DEF Record, ReviewInv, TypeInv, JobInv
<1>2. /\ DOMAIN job[q].parts = {1} /\ p \in Parts
      /\ \A verb, e : HoldsIn(job[q], verb, e) <=> p.verb = verb /\ e \in p.ids
  BY <1>1, OnePart DEF ReviewInv, LedgerInv
<1>3. Len(job[q].parts) <= 1
  BY DEF LedgerInv, ShapeInv, Shape
<1>4. job' = [job EXCEPT ![q] = Idle]
  BY <1>3 DEF Record
<1>5. \A r \in Reviewers : job'[r] = IF r = q THEN Idle ELSE job[r]
  BY <1>4 DEF ReviewInv, TypeInv, JobInv
<1>6. P.verb = p.verb /\ (P = p \/ (p.verb = "redo" /\ P.ids = p.ids \cap WithStatus({"undone"})))
  BY <1>1, RecordedPart DEF ReviewInv, TypeInv
<1>7. SetStatuses(P)
  BY DEF Record
<1> HIDE DEF P
<1>8. \A e \in Edits : prior[e] # "undone"
  BY DEF ReviewInv, TypeInv, LogInv
<1>9. \A e \in Edits : /\ e \notin P.ids => verdict'[e] = verdict[e]
                       /\ e \in P.ids /\ P.verb = "undo" => verdict'[e] = "undone"
                       /\ e \in P.ids /\ P.verb # "undo" => verdict'[e] # "undone"
  <2> SUFFICES ASSUME NEW e \in Edits
               PROVE  /\ e \notin P.ids => verdict'[e] = verdict[e]
                      /\ e \in P.ids /\ P.verb = "undo" => verdict'[e] = "undone"
                      /\ e \in P.ids /\ P.verb # "undo" => verdict'[e] # "undone"
    OBVIOUS
  <2>1. verdict'[e] = IF e \in P.ids
                      THEN CASE P.verb = "undo" -> "undone" [] P.verb = "keep" -> "kept" [] OTHER -> prior[e]
                      ELSE verdict[e]
    BY <1>7 DEF SetStatuses
  <2> QED BY <1>8, <2>1
<1>10. Shape(q, job[q]) /\ Aims(job[q])
  BY DEF LedgerInv, ShapeInv
<1>11. /\ job[q].at = "keep" => p.verb = "keep" /\ job[q].verb = "keepGroup"
       /\ job[q].at = "record" => p.verb \in {"undo", "redo"}
       /\ q \in session.by /\ job[q].verb \in session.verbs
  BY <1>1, <1>2, <1>10 DEF Shape
<1>12. OnlyUndoes => job[q].at # "keep"
  BY <1>11 DEF OnlyUndoes
<1>13. ShapeInv'
  <2>1. Shape(q, Idle)
    BY IdleIsJob DEF Shape
  <2>2. \A x \in owed' : x.verb = "undo" \/ (x.verb = "redo" /\ ~OnlyUndoes)
    BY <1>1 DEF LedgerInv, ShapeInv
  <2> QED BY <1>1, <1>4, <2>1, <2>2, ShapeStep DEF LedgerInv, ReviewInv
<1>14. ASSUME NEW r \in Reviewers PROVE Aims(job[r])'
  <2>1. CASE job'[r].at = "idle"
    <3>1. job'[r].parts = <<>>
      BY <1>5, <2>1, IdleIsJob DEF LedgerInv, ShapeInv, Shape
    <3> QED BY <2>1, <3>1 DEF Aims, HoldsIn
  <2>2. CASE job'[r].at # "idle"
    <3>1. r # q /\ job'[r] = job[r] /\ job[r] \in Jobs /\ r \in session.by /\ job[r].verb \in session.verbs
      BY <1>5, <2>2, IdleIsJob DEF LedgerInv, ShapeInv, Shape, ReviewInv, TypeInv, JobInv
    <3>2. OnlyUndoes
      BY <1>11, <3>1 DEF LedgerInv, Alone
    <3>3. OnlyUndoes'
      BY <1>1, <3>2 DEF OnlyUndoes
    <3>4. job[r].at \in {"next", "write"} => DoesUndo(job[r].verb)
      BY <3>1, <3>2 DEF LedgerInv, ShapeInv, Shape, OnlyUndoes, DoesUndo
    <3>5. ASSUME NEW e, HoldsIn(job[r], "keep", e) PROVE FALSE
      <4>1. job[r].at # "keep"
        BY <3>1, <3>2 DEF LedgerInv, ShapeInv, Shape, OnlyUndoes
      <4>2. job[r].at \in {"next", "write", "record"}
        BY <2>2, <3>1, <4>1 DEF Jobs
      <4> QED BY <3>5, <4>2 DEF HoldsIn, LedgerInv, ShapeInv, Shape
    <3>6. \A e : ~HoldsIn(job[r], "keep", e)'
      BY <3>1, <3>5 DEF HoldsIn
    <3> QED BY <3>1, <3>3, <3>4, <3>6 DEF Aims
  <2> QED BY <2>1, <2>2
<1>15. ASSUME NEW e \in Edits' \ lost' PROVE Settled(e)' /\ Single(e)'
  <2>1. e \in Edits \ lost
    BY <1>1 DEF Edits
  <2>2. Settled(e) /\ Single(e)
    BY <2>1 DEF LedgerInv
  <2> DEFINE undone == verdict[e] = "undone"
             undoneNext == verdict'[e] = "undone"
  <2>9. /\ e \notin P.ids => (undoneNext <=> undone)
        /\ e \in P.ids /\ P.verb = "undo" => undoneNext
        /\ e \in P.ids /\ P.verb # "undo" => ~undoneNext
    <3>1. e \in Edits
      BY <2>1
    <3> QED BY <1>9, <3>1
  <2>3. \A verb : /\ Owes(verb, e)' <=> Owes(verb, e)
                  /\ ~HoldsIn(job'[q], verb, e)
    BY <1>1, <1>5, IdleIsJob DEF Owes, HoldsIn
  <2>4. \A verb : InWork(verb, e)' <=>
                    Owes(verb, e) \/ \E r \in Reviewers \ {q} : HoldsIn(job[r], verb, e)
    <3>1. \A verb : (\E r \in Reviewers : HoldsIn(job'[r], verb, e)) <=>
                       \E r \in Reviewers \ {q} : HoldsIn(job[r], verb, e)
      BY <1>5, <2>3
    <3> QED BY <2>3, <3>1 DEF InWork, HoldsIn
  <2>5. Settled(e)'
    <3>1. CASE e \notin p.ids \/ p.verb = "keep"
      <4>1. \A verb \in {"undo", "redo"} : InWork(verb, e)' <=> InWork(verb, e)
        BY <1>2, <2>4, <3>1 DEF InWork
      <4>2. (verdict'[e] = "undone") <=> (verdict[e] = "undone")
        <5>1. CASE e \notin P.ids
          BY <2>9, <5>1
        <5>2. CASE e \in P.ids
          <6>1. p.verb = "keep" /\ e \in p.ids
            BY <1>6, <3>1, <5>2
          <6>2. verdict[e] # "undone"
            BY <1>2, <1>10, <2>1, <6>1 DEF Aims
          <6> QED BY <1>6, <2>9, <5>2, <6>1, <6>2
        <5> QED BY <5>1, <5>2
      <4> QED BY <1>1, <2>2, <4>1, <4>2 DEF Settled
    <3>2. CASE e \in p.ids /\ p.verb # "keep"
      <4>1. Held(job[q], e) /\ HoldsIn(job[q], p.verb, e) /\ p.verb \in {"undo", "redo"}
        BY <1>2, <3>2 DEF Held, Parts
      <4>2. \A verb \in {"undo", "redo"} : ~InWork(verb, e)'
        BY <2>1, <2>4, <4>1, NobodyElse
      <4>3. InWork(p.verb, e)
        BY <4>1 DEF InWork
      <4>4. CASE p.verb = "undo"
        <5>1. verdict'[e] = "undone"
          BY <1>6, <2>9, <3>2, <4>4
        <5> QED BY <1>1, <2>2, <4>2, <4>3, <4>4, <5>1 DEF Settled
      <4>5. CASE p.verb = "redo"
        <5>1. verdict[e] = "undone" /\ e \in disk.has
          BY <2>2, <4>3, <4>5 DEF Settled
        <5>2. e \in P.ids
          BY <1>6, <2>1, <3>2, <5>1 DEF WithStatus
        <5>3. verdict'[e] # "undone"
          BY <1>6, <2>9, <4>5, <5>2
        <5> QED BY <1>1, <4>2, <5>1, <5>3 DEF Settled
      <4> QED BY <4>1, <4>4, <4>5
    <3> QED BY <3>1, <3>2
  <2>6. Single(e)'
    <3>1. \A r \in Reviewers : Held(job'[r], e) => Held(job[r], e)
      BY <1>5, <2>3 DEF Held
    <3> QED BY <1>1, <2>2, <2>3, <3>1 DEF Single, Held, HoldsIn
  <2> QED BY <2>5, <2>6
<1> QED BY <1>1, <1>13, <1>14, <1>15 DEF LedgerInv, Alone, OnlyUndoes

\* The status write fails: what the job held is reported.
LEMMA RecordFailsLedger ==
  ASSUME ReviewInv, LedgerInv, NEW q \in Reviewers, RecordFails(q)
  PROVE  LedgerInv'
<1> DEFINE p == job[q].parts[1]
<1>1. /\ job[q].at = "record" /\ job[q].parts # <<>> /\ job' = [job EXCEPT ![q] = Idle]
      /\ UNCHANGED <<session, disk, recs, verdict, lost>>
  BY DEF RecordFails, ReviewInv, TypeInv, JobInv
<1>2. /\ DOMAIN job[q].parts = {1} /\ p \in Parts /\ ToSet(job[q].parts) = {p}
      /\ \A verb, e : HoldsIn(job[q], verb, e) <=> p.verb = verb /\ e \in p.ids
  BY <1>1, OnePart DEF ReviewInv, LedgerInv
<1>3. owed' = owed \cup {p}
  BY <1>2 DEF RecordFails
<1>4. p.verb = "undo" \/ (p.verb = "redo" /\ ~OnlyUndoes)
  BY <1>1, <1>2 DEF LedgerInv, ShapeInv, Shape
<1> HIDE DEF p
<1>5. \A x \in owed' : x.verb = "undo" \/ (x.verb = "redo" /\ ~OnlyUndoes)
  BY <1>3, <1>4 DEF LedgerInv, ShapeInv
<1>6. \A r \in Reviewers : job'[r] = IF r = q THEN Idle ELSE job[r]
  BY <1>1 DEF ReviewInv, TypeInv, JobInv
<1>7. ASSUME NEW e \in Edits' \ lost' PROVE Settled(e)' /\ Single(e)'
  <2>1. e \in Edits \ lost
    BY <1>1 DEF Edits
  <2>2. Settled(e) /\ Single(e)
    BY <2>1 DEF LedgerInv
  <2>3. \A verb : /\ Owes(verb, e)' <=> Owes(verb, e) \/ (p.verb = verb /\ e \in p.ids)
                  /\ ~HoldsIn(job'[q], verb, e)
    BY <1>3, <1>6, IdleIsJob DEF Owes, HoldsIn
  <2>4. \A verb : InWork(verb, e)' <=> InWork(verb, e)
    <3>1. \A verb : (\E r \in Reviewers : HoldsIn(job[r], verb, e)) <=>
                       (p.verb = verb /\ e \in p.ids) \/ \E r \in Reviewers : HoldsIn(job'[r], verb, e)
      BY <1>2, <1>6, <2>3
    <3> QED BY <2>3, <3>1 DEF InWork, HoldsIn
  <2>5. Settled(e)'
    BY <1>1, <2>2, <2>4 DEF Settled
  <2>6. Single(e)'
    <3>1. /\ ~Held(job'[q], e)
          /\ \A r \in Reviewers \ {q} : Held(job'[r], e) <=> Held(job[r], e)
      BY <1>6, <2>3 DEF Held
    <3>2. Held(job[q], e) <=> e \in p.ids
      BY <1>2, <1>4 DEF Held
    <3>3. ASSUME NEW r \in Reviewers, Held(job'[r], e)
          PROVE  /\ ~Owes("undo", e)' /\ ~Owes("redo", e)'
                 /\ \A x \in Reviewers \ {r} : ~Held(job'[x], e)
      BY <2>2, <2>3, <3>1, <3>2, <3>3 DEF Single
    <3>4. ASSUME NEW a \in owed, e \in a.ids PROVE e \notin p.ids
      <4>1. Owes("undo", e) \/ Owes("redo", e)
        BY <3>4 DEF Owes, LedgerInv, ShapeInv
      <4> QED BY <2>2, <3>2, <4>1 DEF Single
    <3>5. \A a, b \in owed' : e \in a.ids /\ e \in b.ids => a = b
      BY <1>3, <2>2, <3>4 DEF Single
    <3> QED BY <3>3, <3>5 DEF Single, Held, HoldsIn
  <2> QED BY <2>5, <2>6
<1> QED BY <1>1, <1>5, <1>7, EndLedger

\* A keep that found the store busy did nothing.
LEMMA KeepFailsLedger ==
  ASSUME ReviewInv, LedgerInv, NEW q \in Reviewers, KeepFails(q)
  PROVE  LedgerInv'
<1>1. /\ job[q].at = "keep" /\ job' = [job EXCEPT ![q] = Idle]
      /\ UNCHANGED <<session, disk, recs, verdict, owed, lost>>
  BY DEF KeepFails
<1>2. \A verb, e : verb \in {"undo", "redo"} => ~HoldsIn(job[q], verb, e) /\ ~HoldsIn(Idle, verb, e)
  BY <1>1, IdleIsJob DEF HoldsIn, LedgerInv, ShapeInv, Shape
<1>3. \A r \in Reviewers : job'[r] = IF r = q THEN Idle ELSE job[r]
  BY <1>1 DEF ReviewInv, TypeInv, JobInv
<1>4. \A e \in Edits' \ lost' : Settled(e)' /\ Single(e)'
  BY <1>1, <1>2, <1>3, SettledFrame
<1>5. \A p \in owed' : p.verb = "undo" \/ (p.verb = "redo" /\ ~OnlyUndoes)
  BY <1>1 DEF LedgerInv, ShapeInv
<1> QED BY <1>1, <1>4, <1>5, EndLedger

\* A reviewer dies: what it held is lost.
LEMMA CrashLedger ==
  ASSUME ReviewInv, LedgerInv, NEW q \in Reviewers, Crash(q)
  PROVE  LedgerInv'
<1>1. /\ job' = [job EXCEPT ![q] = Idle]
      /\ lost' = lost \cup (UNION {p.ids : p \in ToSet(job[q].parts)})
      /\ UNCHANGED <<session, disk, recs, verdict, owed>>
  BY DEF Crash
<1>2. \A p \in owed' : p.verb = "undo" \/ (p.verb = "redo" /\ ~OnlyUndoes)
  BY <1>1 DEF LedgerInv, ShapeInv
<1>3. \A r \in Reviewers : job'[r] = IF r = q THEN Idle ELSE job[r]
  BY <1>1 DEF ReviewInv, TypeInv, JobInv
<1>4. ASSUME NEW e \in Edits' \ lost' PROVE Settled(e)' /\ Single(e)'
  <2>1. e \in Edits \ lost
    BY <1>1 DEF Edits
  <2>2. Settled(e) /\ Single(e)
    BY <2>1 DEF LedgerInv
  <2>3. \A verb : ~HoldsIn(job[q], verb, e) /\ ~HoldsIn(Idle, verb, e)
    <3>1. \A verb : ~HoldsIn(job[q], verb, e)
      BY <1>1 DEF HoldsIn, ToSet
    <3> QED BY <3>1, IdleIsJob DEF HoldsIn
  <2>4. \A r \in Reviewers, verb \in {"undo", "redo"} : HoldsIn(job'[r], verb, e) <=> HoldsIn(job[r], verb, e)
    BY <1>3, <2>3
  <2>5. \A verb \in {"undo", "redo"} : InWork(verb, e)' <=> InWork(verb, e)
    BY <1>1, <2>4 DEF InWork, HoldsIn, Owes
  <2>6. Settled(e)'
    BY <1>1, <2>2, <2>5 DEF Settled
  <2>7. \A r \in Reviewers : Held(job'[r], e) <=> Held(job[r], e)
    BY <2>4 DEF Held
  <2>8. Single(e)'
    BY <1>1, <2>2, <2>7 DEF Single, Held, HoldsIn, Owes
  <2> QED BY <2>6, <2>8
<1> QED BY <1>1, <1>2, <1>4, EndLedger

\* Every step keeps the ledger in line with the file.
LEMMA StepLedgerInv == Modifying /\ Merges /\ ReviewInv /\ LedgerInv /\ [Next]_vars => LedgerInv'
<1> SUFFICES ASSUME Modifying, Merges, ReviewInv, LedgerInv, [Next]_vars PROVE LedgerInv'
  OBVIOUS
<1>1. CASE AgentEdit
  BY <1>1, AgentEditLedger
<1>2. CASE UNCHANGED vars
  <2>1. UNCHANGED <<session, disk, recs, verdict, job, owed, lost>>
    BY <1>2 DEF vars
  <2>2. ShapeInv' /\ (Alone \/ OnlyUndoes)'
    BY <2>1 DEF LedgerInv, ShapeInv, Shape, Alone, OnlyUndoes
  <2>3. \A r \in Reviewers : Aims(job[r])'
    BY <2>1 DEF LedgerInv, Aims, HoldsIn, OnlyUndoes, Edits
  <2>4. \A e \in Edits' \ lost' : Settled(e)' /\ Single(e)'
    BY <2>1, SettledFrame DEF HoldsIn
  <2> QED BY <2>2, <2>3, <2>4 DEF LedgerInv
<1>3. ASSUME NEW q \in Reviewers, Steps(q) PROVE LedgerInv'
  BY <1>3, AskLedger
<1>4. ASSUME NEW q \in Reviewers, RecordOnly(q) PROVE LedgerInv'
  BY <1>4, RecordOnlyLedger
<1>5. ASSUME NEW q \in Reviewers, Look(q) PROVE LedgerInv'
  BY <1>5, LookLedger
<1>6. ASSUME NEW q \in Reviewers, Busy(q) \/ Conflict(q) PROVE LedgerInv'
  BY <1>6, LeaveLedger
<1>7. ASSUME NEW q \in Reviewers, Write(q) PROVE LedgerInv'
  BY <1>7, WriteLedger
<1>8. ASSUME NEW q \in Reviewers, WriteSnapshot(q) PROVE FALSE
  BY <1>8 DEF WriteSnapshot, LedgerInv, ShapeInv, Shape
<1>9. ASSUME NEW q \in Reviewers, Record(q) PROVE LedgerInv'
  BY <1>9, RecordLedger
<1>10. ASSUME NEW q \in Reviewers, RecordFails(q) PROVE LedgerInv'
  BY <1>10, RecordFailsLedger
<1>11. ASSUME NEW q \in Reviewers, KeepFails(q) PROVE LedgerInv'
  BY <1>11, KeepFailsLedger
<1>12. ASSUME NEW q \in Reviewers, Crash(q) PROVE LedgerInv'
  BY <1>12, CrashLedger
<1> QED
  BY <1>1, <1>2, <1>3, <1>4, <1>5, <1>6, <1>7, <1>8, <1>9, <1>10, <1>11, <1>12 DEF Next, Steps

\* Wherever the ledger disagrees with the file, the status is in a reviewer's hands or in a report, or its writer died:
\* for every number of reviewers that undo, singly and in bulk, and repair, or for one that also redoes and keeps,
\* whatever the refusals, failed status writes and deaths, while agents only modify the file (undoRecordUnlocked,
\* recordAfterDisk, undoScope).
THEOREM EveryMismatchIsAccounted == Spec => []Accounted
<1> DEFINE Quiet == Modifying /\ Merges /\ (Alone \/ OnlyUndoes)
           Inv == Quiet => ReviewInv /\ LedgerInv
<1>1. Init => Inv
  BY InitReviewInv, InitLedgerInv
<1>2. Inv /\ [Next]_vars => Inv'
  <2> SUFFICES ASSUME Inv, [Next]_vars, Quiet' PROVE ReviewInv' /\ LedgerInv'
    OBVIOUS
  <2>1. Quiet
    BY FileSteps DEF Modifying, Merges, Alone, OnlyUndoes
  <2> QED BY <2>1, StepReviewInv, StepLedgerInv
<1>3. Inv => Accounted
  <2> SUFFICES ASSUME ReviewInv, LedgerInv, NEW e \in Edits \ lost, Mismatch(e) PROVE InHand(e)
    BY DEF Accounted, AccountedAlways
  <2>1. recs[e].after # Absent
    BY SnapshotsHoldEdits DEF Absent
  <2>2. (verdict[e] = "undone") = (e \in disk.has)
    BY <2>1 DEF Mismatch
  <2>3. Settled(e)
    BY DEF LedgerInv
  <2>4. InWork("undo", e) \/ InWork("redo", e)
    BY <2>2, <2>3 DEF Settled
  <2>5. ASSUME NEW r \in Reviewers, NEW verb, HoldsIn(job[r], verb, e) PROVE InHand(e)
    BY <2>5 DEF HoldsIn, InHand, ToSet
  <2> QED BY <2>4, <2>5 DEF InWork, Owes, InHand
<1> QED BY <1>1, <1>2, <1>3, PTL DEF Spec
=============================================================================
