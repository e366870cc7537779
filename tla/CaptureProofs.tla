--------------------------- MODULE CaptureProofs ---------------------------
(***************************************************************************)
(* Machine-checked proofs about Capture, for any number of edit calls and  *)
(* any contents, whichever steps of a hook a collection runs between and   *)
(* wherever hooks die.  Whatever overlaps, no write is told twice while    *)
(* the edit that tells of it is in the log.  While at most one Bash call   *)
(* is made, the collector never takes a blob that an edit in the log       *)
(* names, and nothing is missed in silence.                                *)
(***************************************************************************)
EXTENDS Capture, TLAPS, FiniteSetTheorems, WellFoundedInduction

\* What the model checker's runs with two overlapping commands show to be needed.
OneCommand == \A c, d \in Commands : c = d

EditSteps == {"publish", "decide", "record", "advance", "finish"}
BashSteps == {"look", "walk", "recheck", "record", "save", "advance", "finish"}

\* The hook at work.
Hooks == [of : Calls \cup {None}, step : EditSteps \cup BashSteps \cup {"none"},
          before : Snapshots \cup {None}, after : Snapshots \cup {None}, ambiguous : BOOLEAN, at : Nat,
          blobs : SUBSET Contents, version : 0 .. MaxVersions, recorded : BOOLEAN,
          cache : (0 .. MaxVersions) \cup {None}]

\* Which steps are whose, and what is known at each.
HookType ==
  /\ hook \in Hooks
  /\ hook.of = None => hook = NoHook
  /\ hook.of \in Edits => hook.step \in EditSteps /\ hook.before \in Snapshots /\ hook.after \in Snapshots
  /\ hook.of \in Commands => hook.step \in BashSteps /\ hook.before \in Snapshots
  /\ hook.of \in Commands /\ hook.step \notin {"look", "walk"} => hook.after \in Snapshots
  /\ hook.step \in {"recheck", "record"} => hook.before # hook.after

\* A staging record holds what the file held, absent or not.
StagedType == \A c \in Edits : staged[c] = Unstaged \/ staged[c].before \in Snapshots

TypeInv == TypeOK /\ HookType /\ StagedType

\* Whatever the collector counts as referenced is there.
Kept ==
  /\ RecordedBlobsExist
  /\ \A c \in Edits : {staged[c].before, staged[c].after} \cap Contents \subseteq blobs
  /\ \A c \in Commands : {manifest[c]} \cap Contents \subseteq blobs
  /\ \A c \in Commands : lease[c] \subseteq blobs

\* What a hook is about to record is referenced: an edit's by its staging record, a command's by its lease.
HookKept ==
  /\ hook.of \in Edits => /\ staged[hook.of].before = hook.before
                          /\ hook.step # "publish" => staged[hook.of].after = hook.after
  /\ hook.of \in Commands => /\ Blob(hook.before) \subseteq lease[hook.of]
                             /\ hook.step \notin {"look", "walk"} => Blob(hook.after) \subseteq lease[hook.of]

\* While the stat cache knows the file as it is, a command's snapshot, before and after it is claimed, says what
\* the file holds: the blob that a walk does not store again is one it has leased.
CacheInv ==
  /\ cache # None => cache <= version
  /\ hook.cache # None => hook.cache <= version
  /\ \A c \in Commands : manifest[c] # None =>
       call[c] # "new" /\ hook.of # c /\ (cache = version => manifest[c] = disk)
  /\ hook.of \in Edits => /\ hook.version <= version
                          /\ hook.version = version => hook.after = disk
                          /\ cache # None => cache <= hook.version
  /\ hook.of \in Commands /\ hook.step \in {"look", "walk"} /\ cache = version => hook.before = disk

IInv == TypeInv /\ Kept /\ HookKept /\ CacheInv

\* The hook at work knows what the file holds after its call.
HasRead == hook.of \in Calls /\ hook.step \notin {"look", "walk"}

\* Its edit is in the log, and the pending snapshots are not moved past it yet.
Advancing == hook.recorded /\ hook.step \in {"save", "advance"}

\* What was told, and what the hook at work has read, is what the file held at that version.
ReadInv ==
  /\ told.version <= version
  /\ told.version = version => told.holds = disk
  /\ HasRead => /\ hook.version <= version
                /\ hook.version = version => hook.after = disk
                /\ told.version <= hook.version
                /\ told.version = hook.version => told.holds = hook.after
  /\ hook.recorded => HasRead /\ hook.step \in {"save", "advance", "finish"} /\ told.version = hook.version
  /\ hook.of \in Edits /\ hook.step \in {"advance", "finish"} => hook.recorded
  /\ hook.step = "advance" => hook.recorded

\* Edits have their numbers for themselves, and the newest one ever appended, while it is in the log, is what was
\* told.
NumberInv ==
  /\ \A r, s \in log : r.n = s.n => r = s
  /\ \A r \in log : r.n = appended => r.after = told.holds

\* What a staged edit call was asked at: an edit numbered after it tells of that version or of a later one, and
\* those numbered after it that tell of that version tell what was staged.
AskedOf(e) ==
  /\ call[e] = "new" => staged[e] = Unstaged
  /\ saw[e] <= version
  /\ call[e] = "ran" => saw[e] < version
  /\ staged[e] # Unstaged =>
       /\ saw[e] = version => staged[e].before = disk
       /\ staged[e].at <= appended
       /\ staged[e].at = appended => told.version <= saw[e]
       /\ staged[e].at < appended => saw[e] <= told.version
       /\ told.version = saw[e] =>
            told.holds = staged[e].before /\ \A r \in log : r.n > staged[e].at => r.after = staged[e].before
       /\ HasRead => saw[e] <= hook.version /\ (hook.version = saw[e] => hook.after = staged[e].before)
AskedInv == \A e \in Edits : AskedOf(e)

\* An edit's hook works from its staging record, on a version its tool wrote or a later one; it comes to record
\* only what the newest edit since it was asked does not say.
PostInv ==
  /\ hook.of \in Edits => /\ staged[hook.of] # Unstaged /\ saw[hook.of] < hook.version
                          /\ hook.at = staged[hook.of].at
  /\ hook.of \in Edits /\ hook.step = "record" =>
       \A r \in log : r.n = appended => appended <= hook.at \/ r.after # hook.after

\* A pending snapshot, and the one a command's hook has claimed, knows of the version last told.
SnapshotInv ==
  Undisturbed =>
    /\ told.version = version /\ ~Advancing => \A c \in Commands : manifest[c] # None => manifest[c] = disk
    /\ hook.of \in Commands /\ hook.step \in {"look", "walk"} /\ told.version = version => hook.before = disk
    /\ hook.of \in Commands /\ hook.step \in {"recheck", "record"} => told.version < hook.version

\* The inductive invariant of which versions are told.
TwinInv == ReadInv /\ NumberInv /\ AskedInv /\ PostInv /\ SnapshotInv

\* Where every hook did its work, a call that goes on has its snapshot.
CallsInv ==
  Undisturbed =>
    /\ \A e \in Edits : call[e] \in {"open", "ran", "failed"} => staged[e] # Unstaged
    /\ \A c \in Commands :
         call[c] \in {"open", "running"} \/ (call[c] = "ran" /\ hook.of # c) => manifest[c] # None

\* Where no command was asked between an edit and its Post either, a command is compared with what was told last.
Quiet == Undisturbed /\ ~midEdit
TruthInv ==
  /\ Quiet => /\ ~Advancing => \A c \in Commands : manifest[c] # None => manifest[c] = told.holds
              /\ hook.of \in Commands /\ hook.step \in {"look", "walk"} => hook.before = told.holds
  /\ hook.step = "recheck" => hook.after = Absent

\* The file holds what this edit call wrote, and its hook has not yet recorded that.
LastWrote(e) ==
  /\ call[e] = "ran"
  /\ version = saw[e] + 1
  /\ staged[e].before # disk
  /\ hook.of = e => ~hook.recorded

\* While the log does not tell what the file holds, some call will: a command that has run and is yet to be compared, or
\* the edit call that wrote the file last.
WillTell ==
  \/ \E c \in Commands : call[c] \in {"running", "ran"} /\ hook.of # c
  \/ hook.of \in Commands /\ hook.step \in {"look", "walk"}
  \/ hook.of \in Commands /\ hook.step \in {"recheck", "record"} /\ hook.version = version
  \/ \E e \in Edits : LastWrote(e)
ToldInv == Quiet => WillTell \/ (told.holds = disk /\ (HasRead => hook.version = version))

\* The inductive invariant of what the log tells of the file.
SilentInv == CallsInv /\ TruthInv /\ ToldInv

-----------------------------------------------------------------------------

USE CaptureAssumption DEF CaptureAssumption

\* The initial state satisfies the invariant.
LEMMA InitIInv == Init => IInv
<1> SUFFICES ASSUME Init PROVE IInv
  OBVIOUS
<1> USE DEF Init
<1>1. version \in 0 .. MaxVersions /\ crashes \in 0 .. MaxCrashes /\ saw \in [Edits -> 0 .. MaxVersions]
  OBVIOUS
<1>2. TypeOK
  BY <1>1 DEF TypeOK, Calls, Snapshots, Unstaged, NoHook
<1>3. HookType
  BY <1>1 DEF HookType, Hooks, NoHook, Calls
<1>4. StagedType
  BY DEF StagedType
<1>5. Kept /\ HookKept /\ CacheInv
  BY DEF Kept, HookKept, CacheInv, RecordedBlobsExist, NoHook, Unstaged, Calls, Snapshots
<1> QED BY <1>2, <1>3, <1>4, <1>5 DEF IInv, TypeInv

\* The steps of the tools, and the calls that no hook captures: they leave the store and the hook at work alone.
Outside(c) ==
  \/ PreMissed(c) \/ RunEdit(c) \/ FailEdit(c) \/ RunCommand(c) \/ EndCommand(c) \/ Denied(c)
  \/ PostUnstaged(c) \/ PostUnclaimed(c) \/ PostMissed(c)

\* They write the file only together with its stat key, and move no call that a hook works for.
LEMMA OutsideFrame ==
  ASSUME TypeInv, NEW c \in Calls, Outside(c)
  PROVE  /\ UNCHANGED <<staged, manifest, lease, cache, blobs, log, appended, told, midEdit, hook, crashes>>
         /\ \/ UNCHANGED <<disk, version>>
            \/ version < MaxVersions /\ version' = version + 1 /\ disk' \in Snapshots
         /\ call' \in [Calls -> {"new", "open", "running", "ran", "failed", "over"}]
         /\ saw' \in [Edits -> 0 .. MaxVersions] /\ missed' \subseteq Calls /\ missed \subseteq missed'
         /\ hook.of \in Calls => call'[hook.of] = call[hook.of]
         /\ \A d \in Calls : call[d] # "new" => call'[d] # "new"
<1> USE DEF TypeInv, TypeOK, HookType, Hooks, To, File, Store, Calls, Snapshots
<1>1. CASE PreMissed(c)
  BY <1>1 DEF PreMissed, Asked
<1>2. CASE RunEdit(c)
  BY <1>2 DEF RunEdit, Put
<1>3. CASE RunCommand(c)
  BY <1>3 DEF RunCommand, Put
<1>4. CASE FailEdit(c) \/ EndCommand(c) \/ Denied(c)
  BY <1>4 DEF FailEdit, EndCommand, Denied
<1>5. CASE PostUnstaged(c) \/ PostUnclaimed(c) \/ PostMissed(c)
  BY <1>5 DEF PostUnstaged, PostUnclaimed, PostMissed, NoHook
<1> QED BY <1>1, <1>2, <1>3, <1>4, <1>5 DEF Outside

\* What is referenced is what the log, the staging records, the leases and the pending snapshots name.
LEMMA ReferencedCovers ==
  ASSUME NEW edits, NEW leases, NEW pending
  PROVE  LET R == Referenced(edits, leases, pending)
         IN  /\ \A r \in edits : Blob(r.before) \cup Blob(r.after) \subseteq R
             /\ \A c \in Edits : {staged[c].before, staged[c].after} \subseteq R
             /\ \A c \in Commands : leases[c] \subseteq R /\ pending[c] \in R
<1> DEFINE A == UNION {Blob(r.before) \cup Blob(r.after) : r \in edits}
           B == UNION {{staged[c].before, staged[c].after} : c \in Edits}
           C == UNION {leases[c] : c \in Commands}
           D == {pending[c] : c \in Commands}
<1>1. Referenced(edits, leases, pending) = A \cup B \cup C \cup D
  BY Zenon DEF Referenced
<1>2. \A r \in edits : Blob(r.before) \cup Blob(r.after) \subseteq A
  OBVIOUS
<1>3. \A c \in Edits : {staged[c].before, staged[c].after} \subseteq B
  OBVIOUS
<1>4. \A c \in Commands : leases[c] \subseteq C /\ pending[c] \in D
  OBVIOUS
<1> HIDE DEF A, B, C, D
<1> QED BY <1>1, <1>2, <1>3, <1>4

\* A collection drops edits, leases and snapshots, and every blob that what is left does not name.
LEMMA CollectFrame ==
  ASSUME TypeOK, Collect
  PROVE  /\ log' \subseteq log /\ UNCHANGED staged
         /\ blobs' = blobs \cap Referenced(log', lease', manifest')
         /\ \A c \in Commands : lease'[c] \subseteq lease[c] /\ manifest'[c] \in {None, manifest[c]}
<1>1. PICK resolved \in SUBSET log, dead \in Dead :
        /\ log' = log \ resolved
        /\ lease' = [c \in Commands |-> IF c \in dead THEN {} ELSE lease[c]]
        /\ manifest' = [c \in Commands |-> IF c \in dead THEN None ELSE manifest[c]]
        /\ blobs' = blobs \cap Referenced(log \ resolved, [c \in Commands |-> IF c \in dead THEN {} ELSE lease[c]],
                                        [c \in Commands |-> IF c \in dead THEN None ELSE manifest[c]])
        /\ staged' = staged
  BY Zenon DEF Collect
<1> QED BY <1>1

\* Marking a staging record ambiguous changes nothing else.
LEMMA MarkedAmbiguous ==
  ASSUME NEW S, NEW x \in [before : S, after : S, ambiguous : BOOLEAN, at : Nat]
  PROVE  LET y == [x EXCEPT !.ambiguous = TRUE]
         IN  /\ y \in [before : S, after : S, ambiguous : BOOLEAN, at : Nat]
             /\ y.before = x.before /\ y.after = x.after /\ y.at = x.at
OBVIOUS

\* A staging record says what the file held, until its call's hook is done with it.
LEMMA StagedStep == TypeInv /\ HookKept /\ [Next]_vars => StagedType'
<1> SUFFICES ASSUME TypeInv /\ HookKept, [Next]_vars PROVE StagedType'
  OBVIOUS
<1> USE DEF TypeInv, TypeOK, HookType, Hooks, StagedType, HookKept, At, To, File, Store, NoHook, Calls,
            Snapshots, Blob
<1>1. ASSUME NEW c \in Calls, Outside(c) PROVE StagedType'
  BY <1>1, OutsideFrame
<1>2. ASSUME NEW c \in Calls, PreEdit(c) PROVE StagedType'
  <2> SUFFICES ASSUME NEW d \in Edits PROVE staged'[d] = Unstaged \/ staged'[d].before \in Snapshots
    OBVIOUS
  <2>1. CASE d = c
    BY <1>2, <2>1 DEF PreEdit, Overlapping
  <2>2. CASE d # c
    <3>1. staged'[d] = staged[d] \/ (staged[d] # Unstaged /\ staged'[d] = [staged[d] EXCEPT !.ambiguous = TRUE])
      BY <1>2, <2>2 DEF PreEdit, Overlapping
    <3> QED BY <3>1
  <2> QED BY <2>1, <2>2
<1>3. ASSUME NEW c \in Calls, PreBash(c) PROVE StagedType'
  BY <1>3 DEF PreBash, Hashed, Cached
<1>4. ASSUME NEW c \in Calls, PreCrash(c) PROVE StagedType'
  BY <1>4 DEF PreCrash, Asked, Cached
<1>5. ASSUME NEW c \in Calls, PostEdit(c) PROVE StagedType'
  BY <1>5 DEF PostEdit, Unstaged
<1>6. ASSUME NEW c \in Calls, Publish(c) PROVE StagedType'
  <2> SUFFICES ASSUME NEW d \in Edits PROVE staged'[d] = Unstaged \/ staged'[d].before \in Snapshots
    OBVIOUS
  <2>1. CASE d = c
    BY <1>6, <2>1 DEF Publish
  <2>2. CASE d # c
    <3>1. staged'[d] = staged[d]
      BY <1>6, <2>2 DEF Publish
    <3> QED BY <3>1
  <2> QED BY <2>1, <2>2
<1>7. ASSUME NEW c \in Calls, Decline(c) PROVE StagedType'
  <2> SUFFICES ASSUME NEW d \in Edits PROVE staged'[d] = Unstaged \/ staged'[d].before \in Snapshots
    OBVIOUS
  <2>1. CASE d = c
    BY <1>7, <2>1 DEF Decline, Over
  <2>2. CASE d # c
    <3>1. staged'[d] = staged[d]
      BY <1>7, <2>2 DEF Decline, Over
    <3> QED BY <3>1
  <2> QED BY <2>1, <2>2
<1>8. ASSUME NEW c \in Calls, Decide(c) PROVE StagedType'
  BY <1>8 DEF Decide
<1>9. ASSUME NEW c \in Calls, FinishEdit(c) PROVE StagedType'
  <2> SUFFICES ASSUME NEW d \in Edits PROVE staged'[d] = Unstaged \/ staged'[d].before \in Snapshots
    OBVIOUS
  <2>1. CASE d = c
    BY <1>9, <2>1 DEF FinishEdit, Over
  <2>2. CASE d # c
    <3>1. staged'[d] = staged[d]
      BY <1>9, <2>2 DEF FinishEdit, Over
    <3> QED BY <3>1
  <2> QED BY <2>1, <2>2
<1>10. ASSUME NEW c \in Calls, DiscardPre(c) PROVE StagedType'
  <2> SUFFICES ASSUME NEW d \in Edits PROVE staged'[d] = Unstaged \/ staged'[d].before \in Snapshots
    OBVIOUS
  <2>1. CASE d = c
    BY <1>10, <2>1 DEF DiscardPre
  <2>2. CASE d # c
    <3>1. staged'[d] = staged[d]
      BY <1>10, <2>2 DEF DiscardPre
    <3> QED BY <3>1
  <2> QED BY <2>1, <2>2
<1>11. ASSUME NEW c \in Calls, Claim(c) PROVE StagedType'
  BY <1>11 DEF Claim
<1>12. ASSUME NEW c \in Calls, Look(c) PROVE StagedType'
  BY <1>12 DEF Look
<1>13. ASSUME NEW c \in Calls, Walk(c) PROVE StagedType'
  BY <1>13 DEF Walk, Hashed, Cached
<1>14. ASSUME NEW c \in Calls, Recheck(c) PROVE StagedType'
  BY <1>14 DEF Recheck
<1>15. ASSUME NEW c \in Calls, SaveCache(c) PROVE StagedType'
  BY <1>15 DEF SaveCache
<1>16. ASSUME NEW c \in Calls, FinishBash(c) PROVE StagedType'
  BY <1>16 DEF FinishBash, Over
<1>17. ASSUME NEW c \in Calls, Record(c) PROVE StagedType'
  BY <1>17 DEF Record
<1>18. ASSUME NEW c \in Calls, Advance(c) PROVE StagedType'
  BY <1>18 DEF Advance, Advanced
<1>19. ASSUME NEW c \in Calls, PostBusy(c) PROVE StagedType'
  BY <1>19 DEF PostBusy, Over
<1>20. ASSUME NEW c \in Calls, PostCrash(c) PROVE StagedType'
  BY <1>20 DEF PostCrash, Over
<1>21. CASE Stop
  BY <1>21 DEF Stop, Unstaged
<1>22. CASE Collect
  BY <1>22 DEF Collect, Dead, Referenced
<1>23. CASE UNCHANGED vars
  BY <1>23 DEF vars
<1> QED BY <1>1, <1>2, <1>3, <1>4, <1>5, <1>6, <1>7, <1>8, <1>9, <1>10, <1>11, <1>12, <1>13, <1>14, <1>15,
           <1>16, <1>17, <1>18, <1>19, <1>20, <1>21, <1>22, <1>23 DEF Next, Outside

\* Every variable keeps its type.
LEMMA TypeStep == TypeInv /\ [Next]_vars => TypeOK'
<1> SUFFICES ASSUME TypeInv, [Next]_vars PROVE TypeOK'
  OBVIOUS
<1> USE DEF TypeInv, TypeOK, HookType, Hooks, StagedType, EditSteps, BashSteps, At, To, File, Store, NoHook, Calls,
            Snapshots, Blob
<1>1. ASSUME NEW c \in Calls, Outside(c) PROVE TypeOK'
  BY <1>1, OutsideFrame
<1>2. ASSUME NEW c \in Calls, PreEdit(c) PROVE TypeOK'
  <2>1. \A d \in Edits : staged'[d] \in [before : Snapshots \cup {None}, after : Snapshots \cup {None},
                                    ambiguous : BOOLEAN, at : Nat]
    <3> SUFFICES ASSUME NEW d \in Edits PROVE staged'[d] \in [before : Snapshots \cup {None},
                                   after : Snapshots \cup {None}, ambiguous : BOOLEAN, at : Nat]
      OBVIOUS
    <3>1. CASE d = c
      BY <1>2, <3>1 DEF PreEdit
    <3>2. CASE d # c
      <4>1. staged'[d] = staged[d] \/ staged'[d] = [staged[d] EXCEPT !.ambiguous = TRUE]
        BY <1>2, <3>2 DEF PreEdit, Overlapping
      <4>2. staged[d] \in [before : Snapshots \cup {None}, after : Snapshots \cup {None},
                           ambiguous : BOOLEAN, at : Nat]
        OBVIOUS
      <4>3. [staged[d] EXCEPT !.ambiguous = TRUE]
              \in [before : Snapshots \cup {None}, after : Snapshots \cup {None}, ambiguous : BOOLEAN, at : Nat]
        BY <4>2, MarkedAmbiguous
      <4> QED BY <4>1, <4>2, <4>3
    <3> QED BY <3>1, <3>2
  <2>2. staged' \in [Edits -> [before : Snapshots \cup {None}, after : Snapshots \cup {None},
                             ambiguous : BOOLEAN, at : Nat]]
    BY <1>2, <2>1 DEF PreEdit
  <2> QED BY <1>2, <2>2 DEF PreEdit, Asked
<1>3. ASSUME NEW c \in Calls, PreBash(c) PROVE TypeOK'
  BY <1>3 DEF PreBash, Hashed, Cached
<1>4. ASSUME NEW c \in Calls, PreCrash(c) PROVE TypeOK'
  BY <1>4 DEF PreCrash, Asked, Cached
<1>5. ASSUME NEW c \in Calls, PostEdit(c) PROVE TypeOK'
  BY <1>5 DEF PostEdit, Unstaged
<1>6. ASSUME NEW c \in Calls, Publish(c) PROVE TypeOK'
  BY <1>6 DEF Publish
<1>7. ASSUME NEW c \in Calls, Decline(c) PROVE TypeOK'
  BY <1>7 DEF Decline, Over, Unstaged
<1>8. ASSUME NEW c \in Calls, Decide(c) PROVE TypeOK'
  BY <1>8 DEF Decide
<1>9. ASSUME NEW c \in Calls, FinishEdit(c) PROVE TypeOK'
  BY <1>9 DEF FinishEdit, Over, Unstaged
<1>10. ASSUME NEW c \in Calls, DiscardPre(c) PROVE TypeOK'
  BY <1>10 DEF DiscardPre, Unstaged
<1>11. ASSUME NEW c \in Calls, Claim(c) PROVE TypeOK'
  BY <1>11 DEF Claim
<1>12. ASSUME NEW c \in Calls, Look(c) PROVE TypeOK'
  BY <1>12 DEF Look
<1>13. ASSUME NEW c \in Calls, Walk(c) PROVE TypeOK'
  BY <1>13 DEF Walk, Hashed, Cached
<1>14. ASSUME NEW c \in Calls, Recheck(c) PROVE TypeOK'
  BY <1>14 DEF Recheck
<1>15. ASSUME NEW c \in Calls, SaveCache(c) PROVE TypeOK'
  BY <1>15 DEF SaveCache
<1>16. ASSUME NEW c \in Calls, FinishBash(c) PROVE TypeOK'
  BY <1>16 DEF FinishBash, Over
<1>17. ASSUME NEW c \in Calls, Record(c) PROVE TypeOK'
  BY <1>17 DEF Record
<1>18. ASSUME NEW c \in Calls, Advance(c) PROVE TypeOK'
  BY <1>18 DEF Advance, Advanced
<1>19. ASSUME NEW c \in Calls, PostBusy(c) PROVE TypeOK'
  BY <1>19 DEF PostBusy, Over
<1>20. ASSUME NEW c \in Calls, PostCrash(c) PROVE TypeOK'
  BY <1>20 DEF PostCrash, Over
<1>21. CASE Stop
  BY <1>21 DEF Stop, Unstaged
<1>22. CASE Collect
  BY <1>22 DEF Collect, Dead, Referenced
<1>23. CASE UNCHANGED vars
  BY <1>23 DEF vars
<1> QED BY <1>1, <1>2, <1>3, <1>4, <1>5, <1>6, <1>7, <1>8, <1>9, <1>10, <1>11, <1>12, <1>13, <1>14, <1>15,
           <1>16, <1>17, <1>18, <1>19, <1>20, <1>21, <1>22, <1>23 DEF Next, Outside

\* The hook at work goes from step to step, and records only what changed.
LEMMA HookStep == TypeInv /\ [Next]_vars => HookType'
<1> SUFFICES ASSUME TypeInv, [Next]_vars PROVE HookType'
  OBVIOUS
<1> USE DEF TypeInv, TypeOK, HookType, Hooks, StagedType, EditSteps, BashSteps, At, To, File, Store, NoHook, Calls,
            Snapshots, Blob
<1>1. ASSUME NEW c \in Calls, Outside(c) PROVE HookType'
  BY <1>1, OutsideFrame
<1>2. ASSUME NEW c \in Calls, PreEdit(c) PROVE HookType'
  BY <1>2 DEF PreEdit, Asked, Overlapping, Unstaged
<1>3. ASSUME NEW c \in Calls, PreBash(c) PROVE HookType'
  BY <1>3 DEF PreBash, Hashed, Cached
<1>4. ASSUME NEW c \in Calls, PreCrash(c) PROVE HookType'
  BY <1>4 DEF PreCrash, Asked, Cached
<1>5. ASSUME NEW c \in Calls, PostEdit(c) PROVE HookType'
  <2>1. /\ hook'.of = c /\ hook'.step = "publish" /\ hook'.before = staged[c].before /\ hook'.after = disk
        /\ c \in Edits /\ c # None /\ call' = call
    BY <1>5 DEF PostEdit
  <2>2. staged[c].before \in Snapshots /\ disk \in Snapshots
    BY <1>5, <2>1 DEF PostEdit
  <2>3. /\ staged[c].ambiguous \in BOOLEAN /\ staged[c].at \in Nat
        /\ version \in 0 .. MaxVersions /\ 0 \in 0 .. MaxVersions
    BY <2>1
  <2>4. hook' = [of |-> c, step |-> "publish", before |-> staged[c].before, after |-> disk,
                 ambiguous |-> staged[c].ambiguous, at |-> staged[c].at, blobs |-> {}, version |-> version,
                 recorded |-> FALSE, cache |-> None]
    BY <1>5 DEF PostEdit
  <2>5. "publish" \in EditSteps \cup BashSteps /\ c \in Calls
    BY <1>5
  <2>6. hook' \in Hooks
    <3> HIDE DEF EditSteps, BashSteps, Snapshots, Calls, TypeInv, TypeOK, StagedType, HookType, NoHook
    <3> QED BY <2>2, <2>3, <2>4, <2>5
  <2> HIDE DEF Hooks, NoHook, Snapshots, Store, TypeOK, StagedType, TypeInv
  <2> QED BY <2>1, <2>2, <2>6
<1>6. ASSUME NEW c \in Calls, Publish(c) PROVE HookType'
  BY <1>6 DEF Publish
<1>7. ASSUME NEW c \in Calls, Decline(c) PROVE HookType'
  BY <1>7 DEF Decline, Over, Unstaged
<1>8. ASSUME NEW c \in Calls, Decide(c) PROVE HookType'
  BY <1>8 DEF Decide
<1>9. ASSUME NEW c \in Calls, FinishEdit(c) PROVE HookType'
  BY <1>9 DEF FinishEdit, Over, Unstaged
<1>10. ASSUME NEW c \in Calls, DiscardPre(c) PROVE HookType'
  BY <1>10 DEF DiscardPre, Unstaged
<1>11. ASSUME NEW c \in Calls, Claim(c) PROVE HookType'
  <2>1. /\ hook'.of = c /\ hook'.step = "look" /\ hook'.before = manifest[c] /\ c \in Commands /\ c # None
        /\ manifest[c] \in Snapshots /\ call' = call
    BY <1>11 DEF Claim
  <2>2. hook' \in Hooks
    BY <1>11, <2>1 DEF Claim
  <2> HIDE DEF Hooks, NoHook, Snapshots, Store, TypeOK, StagedType, TypeInv
  <2> QED BY <2>1, <2>2
<1>12. ASSUME NEW c \in Calls, Look(c) PROVE HookType'
  BY <1>12 DEF Look
<1>13. ASSUME NEW c \in Calls, Walk(c) PROVE HookType'
  <2>1. /\ hook'.of = c /\ hook'.before = hook.before /\ hook'.after = disk /\ hook.of = c /\ hook.step = "walk"
        /\ c \in Commands /\ c # None /\ disk \in Snapshots /\ hook.before \in Snapshots /\ UNCHANGED call
        /\ hook'.step \in {"save", "recheck", "record"} /\ (hook'.step = "save" <=> disk = hook.before)
    BY <1>13 DEF Walk
  <2>2. Cached \in (0 .. MaxVersions) \cup {None}
    BY DEF Cached
  <2>3. hook' = [hook EXCEPT !.after = disk, !.version = version, !.blobs = {}, !.cache = Cached, !.step = hook'.step]
    BY <1>13 DEF Walk
  <2>4. hook'.step \in EditSteps \cup BashSteps /\ hook \in Hooks /\ version \in 0 .. MaxVersions
    BY <2>1
  <2>5. hook' \in Hooks
    <3> DEFINE read == [hook EXCEPT !.after = disk, !.version = version, !.blobs = {}]
    <3>1. hook' = [read EXCEPT !.cache = Cached, !.step = hook'.step]
      BY <2>3
    <3> HIDE DEF EditSteps, BashSteps, Snapshots, Calls, TypeInv, TypeOK, StagedType, HookType, NoHook, Cached
    <3>2. read \in Hooks
      BY <2>1, <2>4
    <3> HIDE DEF read
    <3> QED BY <2>2, <2>4, <3>1, <3>2
  <2> HIDE DEF Hooks, NoHook, Snapshots, Store, TypeOK, StagedType, TypeInv
  <2> QED BY <2>1, <2>5
<1>14. ASSUME NEW c \in Calls, Recheck(c) PROVE HookType'
  BY <1>14 DEF Recheck
<1>15. ASSUME NEW c \in Calls, SaveCache(c) PROVE HookType'
  BY <1>15 DEF SaveCache
<1>16. ASSUME NEW c \in Calls, FinishBash(c) PROVE HookType'
  BY <1>16 DEF FinishBash, Over
<1>17. ASSUME NEW c \in Calls, Record(c) PROVE HookType'
  <2>1. hook' = [hook EXCEPT !.step = IF c \in Edits THEN "advance" ELSE "save", !.recorded = TRUE]
    BY <1>17 DEF Record
  <2>2. /\ hook'.of = hook.of /\ hook'.before = hook.before /\ hook'.after = hook.after
        /\ hook'.step \in {"advance", "save"} /\ (hook'.step = "advance" <=> c \in Edits)
    BY <2>1
  <2>3. hook.before # hook.after /\ hook.of = c /\ hook.step = "record"
    BY <1>17 DEF Record
  <2>4. hook' \in Hooks
    <3> DEFINE next == IF c \in Edits THEN "advance" ELSE "save"
    <3>1. hook \in Hooks /\ next \in EditSteps \cup BashSteps
      OBVIOUS
    <3>2. hook' = [[hook EXCEPT !.step = next] EXCEPT !.recorded = TRUE]
      BY <2>1
    <3> HIDE DEF EditSteps, BashSteps, Snapshots, Calls, TypeInv, HookType, NoHook, next
    <3>3. [hook EXCEPT !.step = next] \in Hooks
      BY <3>1
    <3>4. \A h \in Hooks : [h EXCEPT !.recorded = TRUE] \in Hooks
      OBVIOUS
    <3> HIDE DEF Hooks
    <3> QED BY <3>2, <3>3, <3>4, Zenon
  <2>5. call' = call /\ (c \in Edits => hook.before \in Snapshots /\ hook.after \in Snapshots)
        /\ (c \in Commands => hook.before \in Snapshots /\ hook.after \in Snapshots) /\ c # None
    BY <1>17, <2>3 DEF Record
  <2> HIDE DEF Hooks, NoHook, Snapshots, Store, TypeOK, StagedType, TypeInv
  <2> QED BY <2>2, <2>3, <2>4, <2>5
<1>18. ASSUME NEW c \in Calls, Advance(c) PROVE HookType'
  BY <1>18 DEF Advance, Advanced
<1>19. ASSUME NEW c \in Calls, PostBusy(c) PROVE HookType'
  BY <1>19 DEF PostBusy, Over
<1>20. ASSUME NEW c \in Calls, PostCrash(c) PROVE HookType'
  BY <1>20 DEF PostCrash, Over
<1>21. CASE Stop
  BY <1>21 DEF Stop, Unstaged
<1>22. CASE Collect
  BY <1>22 DEF Collect, Dead, Referenced
<1>23. CASE UNCHANGED vars
  BY <1>23 DEF vars
<1> QED BY <1>1, <1>2, <1>3, <1>4, <1>5, <1>6, <1>7, <1>8, <1>9, <1>10, <1>11, <1>12, <1>13, <1>14, <1>15,
           <1>16, <1>17, <1>18, <1>19, <1>20, <1>21, <1>22, <1>23 DEF Next, Outside

\* No step, and no collection between two of them, takes a blob that the log, a staging record, a snapshot or a
\* lease names; and what a hook appends was named by one of them.
LEMMA KeptStep == IInv /\ [Next]_vars => Kept'
<1> SUFFICES ASSUME IInv, [Next]_vars PROVE Kept'
  OBVIOUS
<1> USE DEF IInv, Kept, HookKept, CacheInv, RecordedBlobsExist, TypeInv, TypeOK, HookType, StagedType,
            EditSteps, BashSteps, At, To, File, Store, NoHook, Calls, Snapshots, Blob
<1>1. ASSUME NEW c \in Calls, Outside(c) PROVE Kept'
  BY <1>1, OutsideFrame
<1>2. ASSUME NEW c \in Calls, PreEdit(c) PROVE Kept'
  BY <1>2 DEF PreEdit, Asked, Overlapping, Unstaged
<1>3. ASSUME NEW c \in Calls, PreBash(c) PROVE Kept'
  BY <1>3 DEF PreBash, Hashed, Cached
<1>4. ASSUME NEW c \in Calls, PreCrash(c) PROVE Kept'
  BY <1>4 DEF PreCrash, Asked, Cached
<1>5. ASSUME NEW c \in Calls, PostEdit(c) PROVE Kept'
  BY <1>5 DEF PostEdit, Unstaged
<1>6. ASSUME NEW c \in Calls, Publish(c) PROVE Kept'
  BY <1>6 DEF Publish
<1>7. ASSUME NEW c \in Calls, Decline(c) PROVE Kept'
  BY <1>7 DEF Decline, Over, Unstaged
<1>8. ASSUME NEW c \in Calls, Decide(c) PROVE Kept'
  BY <1>8 DEF Decide
<1>9. ASSUME NEW c \in Calls, FinishEdit(c) PROVE Kept'
  BY <1>9 DEF FinishEdit, Over, Unstaged
<1>10. ASSUME NEW c \in Calls, DiscardPre(c) PROVE Kept'
  BY <1>10 DEF DiscardPre, Unstaged
<1>11. ASSUME NEW c \in Calls, Claim(c) PROVE Kept'
  BY <1>11 DEF Claim
<1>12. ASSUME NEW c \in Calls, Look(c) PROVE Kept'
  BY <1>12 DEF Look
<1>13. ASSUME NEW c \in Calls, Walk(c) PROVE Kept'
  BY <1>13 DEF Walk, Hashed, Cached
<1>14. ASSUME NEW c \in Calls, Recheck(c) PROVE Kept'
  BY <1>14 DEF Recheck
<1>15. ASSUME NEW c \in Calls, SaveCache(c) PROVE Kept'
  BY <1>15 DEF SaveCache
<1>16. ASSUME NEW c \in Calls, FinishBash(c) PROVE Kept'
  BY <1>16 DEF FinishBash, Over
<1>17. ASSUME NEW c \in Calls, Record(c) PROVE Kept'
  BY <1>17 DEF Record
<1>18. ASSUME NEW c \in Calls, Advance(c) PROVE Kept'
  BY <1>18 DEF Advance, Advanced
<1>19. ASSUME NEW c \in Calls, PostBusy(c) PROVE Kept'
  BY <1>19 DEF PostBusy, Over
<1>20. ASSUME NEW c \in Calls, PostCrash(c) PROVE Kept'
  BY <1>20 DEF PostCrash, Over
<1>21. CASE Stop
  BY <1>21 DEF Stop, Unstaged
<1>22. CASE Collect
  <2>1. /\ log' \subseteq log /\ UNCHANGED staged
        /\ blobs' = blobs \cap Referenced(log', lease', manifest')
        /\ \A c \in Commands : lease'[c] \subseteq lease[c] /\ manifest'[c] \in {None, manifest[c]}
    BY <1>22, CollectFrame
  <2> QED BY <2>1, ReferencedCovers
<1>23. CASE UNCHANGED vars
  BY <1>23 DEF vars
<1> QED BY <1>1, <1>2, <1>3, <1>4, <1>5, <1>6, <1>7, <1>8, <1>9, <1>10, <1>11, <1>12, <1>13, <1>14, <1>15,
           <1>16, <1>17, <1>18, <1>19, <1>20, <1>21, <1>22, <1>23 DEF Next, Outside

\* A hook's own staging record or lease names what it is about to append.
LEMMA HookKeptStep == TypeInv /\ HookKept /\ [Next]_vars => HookKept'
<1> SUFFICES ASSUME TypeInv /\ HookKept, [Next]_vars PROVE HookKept'
  OBVIOUS
<1> USE DEF HookKept, TypeInv, TypeOK, HookType, Hooks, StagedType, EditSteps, BashSteps, At, To, File, Store,
            NoHook,
            Calls, Snapshots, Blob
<1>1. ASSUME NEW c \in Calls, Outside(c) PROVE HookKept'
  BY <1>1, OutsideFrame
<1>2. ASSUME NEW c \in Calls, PreEdit(c) PROVE HookKept'
  BY <1>2 DEF PreEdit, Asked, Overlapping, Unstaged
<1>3. ASSUME NEW c \in Calls, PreBash(c) PROVE HookKept'
  BY <1>3 DEF PreBash, Hashed, Cached
<1>4. ASSUME NEW c \in Calls, PreCrash(c) PROVE HookKept'
  BY <1>4 DEF PreCrash, Asked, Cached
<1>5. ASSUME NEW c \in Calls, PostEdit(c) PROVE HookKept'
  BY <1>5 DEF PostEdit, Unstaged
<1>6. ASSUME NEW c \in Calls, Publish(c) PROVE HookKept'
  BY <1>6 DEF Publish
<1>7. ASSUME NEW c \in Calls, Decline(c) PROVE HookKept'
  BY <1>7 DEF Decline, Over, Unstaged
<1>8. ASSUME NEW c \in Calls, Decide(c) PROVE HookKept'
  BY <1>8 DEF Decide
<1>9. ASSUME NEW c \in Calls, FinishEdit(c) PROVE HookKept'
  BY <1>9 DEF FinishEdit, Over, Unstaged
<1>10. ASSUME NEW c \in Calls, DiscardPre(c) PROVE HookKept'
  BY <1>10 DEF DiscardPre, Unstaged
<1>11. ASSUME NEW c \in Calls, Claim(c) PROVE HookKept'
  BY <1>11 DEF Claim
<1>12. ASSUME NEW c \in Calls, Look(c) PROVE HookKept'
  BY <1>12 DEF Look
<1>13. ASSUME NEW c \in Calls, Walk(c) PROVE HookKept'
  BY <1>13 DEF Walk, Hashed, Cached
<1>14. ASSUME NEW c \in Calls, Recheck(c) PROVE HookKept'
  BY <1>14 DEF Recheck
<1>15. ASSUME NEW c \in Calls, SaveCache(c) PROVE HookKept'
  BY <1>15 DEF SaveCache
<1>16. ASSUME NEW c \in Calls, FinishBash(c) PROVE HookKept'
  BY <1>16 DEF FinishBash, Over
<1>17. ASSUME NEW c \in Calls, Record(c) PROVE HookKept'
  BY <1>17 DEF Record
<1>18. ASSUME NEW c \in Calls, Advance(c) PROVE HookKept'
  BY <1>18 DEF Advance, Advanced
<1>19. ASSUME NEW c \in Calls, PostBusy(c) PROVE HookKept'
  BY <1>19 DEF PostBusy, Over
<1>20. ASSUME NEW c \in Calls, PostCrash(c) PROVE HookKept'
  BY <1>20 DEF PostCrash, Over
<1>21. CASE Stop
  BY <1>21 DEF Stop, Unstaged
<1>22. CASE Collect
  BY <1>22 DEF Collect, Dead, Referenced
<1>23. CASE UNCHANGED vars
  BY <1>23 DEF vars
<1> QED BY <1>1, <1>2, <1>3, <1>4, <1>5, <1>6, <1>7, <1>8, <1>9, <1>10, <1>11, <1>12, <1>13, <1>14, <1>15,
           <1>16, <1>17, <1>18, <1>19, <1>20, <1>21, <1>22, <1>23 DEF Next, Outside

\* With one command, the stat cache never answers for a file whose blob the command has not leased.
LEMMA CacheStep == OneCommand /\ IInv /\ [Next]_vars => CacheInv'
<1> SUFFICES ASSUME OneCommand /\ IInv, [Next]_vars PROVE CacheInv'
  OBVIOUS
<1> USE DEF OneCommand, IInv, CacheInv, TypeInv, TypeOK, HookType, Hooks, StagedType, EditSteps, BashSteps, At, To,
            File, Store, NoHook, Calls, Snapshots, Blob
<1>1. ASSUME NEW c \in Calls, Outside(c) PROVE CacheInv'
  BY <1>1, OutsideFrame
<1>2. ASSUME NEW c \in Calls, PreEdit(c) PROVE CacheInv'
  BY <1>2 DEF PreEdit, Asked, Overlapping, Unstaged
<1>3. ASSUME NEW c \in Calls, PreBash(c) PROVE CacheInv'
  BY <1>3 DEF PreBash, Hashed, Cached
<1>4. ASSUME NEW c \in Calls, PreCrash(c) PROVE CacheInv'
  BY <1>4 DEF PreCrash, Asked, Cached
<1>5. ASSUME NEW c \in Calls, PostEdit(c) PROVE CacheInv'
  BY <1>5 DEF PostEdit, Unstaged
<1>6. ASSUME NEW c \in Calls, Publish(c) PROVE CacheInv'
  BY <1>6 DEF Publish
<1>7. ASSUME NEW c \in Calls, Decline(c) PROVE CacheInv'
  BY <1>7 DEF Decline, Over, Unstaged
<1>8. ASSUME NEW c \in Calls, Decide(c) PROVE CacheInv'
  BY <1>8 DEF Decide
<1>9. ASSUME NEW c \in Calls, FinishEdit(c) PROVE CacheInv'
  BY <1>9 DEF FinishEdit, Over, Unstaged
<1>10. ASSUME NEW c \in Calls, DiscardPre(c) PROVE CacheInv'
  BY <1>10 DEF DiscardPre, Unstaged
<1>11. ASSUME NEW c \in Calls, Claim(c) PROVE CacheInv'
  BY <1>11 DEF Claim
<1>12. ASSUME NEW c \in Calls, Look(c) PROVE CacheInv'
  BY <1>12 DEF Look
<1>13. ASSUME NEW c \in Calls, Walk(c) PROVE CacheInv'
  BY <1>13 DEF Walk, Hashed, Cached
<1>14. ASSUME NEW c \in Calls, Recheck(c) PROVE CacheInv'
  BY <1>14 DEF Recheck
<1>15. ASSUME NEW c \in Calls, SaveCache(c) PROVE CacheInv'
  BY <1>15 DEF SaveCache
<1>16. ASSUME NEW c \in Calls, FinishBash(c) PROVE CacheInv'
  BY <1>16 DEF FinishBash, Over
<1>17. ASSUME NEW c \in Calls, Record(c) PROVE CacheInv'
  BY <1>17 DEF Record
<1>18. ASSUME NEW c \in Calls, Advance(c) PROVE CacheInv'
  <2>1. CASE c \in Edits
    <3>1. /\ hook.of = c /\ hook'.of = c /\ hook'.version = hook.version /\ hook'.after = hook.after
          /\ hook'.cache = hook.cache /\ hook'.step = "finish"
      BY <1>18 DEF Advance
    <3>2. cache = version => hook.after = disk
      <4> SUFFICES ASSUME cache = version PROVE hook.version = version
        BY <2>1, <3>1
      <4>1. version \in Nat /\ hook.version \in Nat /\ cache # None
        OBVIOUS
      <4>2. hook.version <= version /\ version <= hook.version
        BY <2>1, <3>1, <4>1
      <4> QED BY ONLY <4>1, <4>2
    <3>3. \A d \in Commands : manifest'[d] = IF manifest[d] = None THEN None ELSE hook.after
      BY <1>18 DEF Advance, Advanced
    <3> QED BY <1>18, <2>1, <3>1, <3>2, <3>3 DEF Advance
  <2>2. CASE c \in Commands
    <3>1. \A d \in Commands : manifest[d] = None
      BY <1>18, <2>2 DEF Advance
    <3>2. \A d \in Commands : manifest'[d] = None
      BY <1>18, <3>1 DEF Advance, Advanced
    <3> QED BY <1>18, <2>2, <3>2 DEF Advance
  <2> QED BY <2>1, <2>2
<1>19. ASSUME NEW c \in Calls, PostBusy(c) PROVE CacheInv'
  BY <1>19 DEF PostBusy, Over
<1>20. ASSUME NEW c \in Calls, PostCrash(c) PROVE CacheInv'
  BY <1>20 DEF PostCrash, Over
<1>21. CASE Stop
  BY <1>21 DEF Stop, Unstaged
<1>22. CASE Collect
  BY <1>22 DEF Collect, Dead, Referenced
<1>23. CASE UNCHANGED vars
  BY <1>23 DEF vars
<1> QED BY <1>1, <1>2, <1>3, <1>4, <1>5, <1>6, <1>7, <1>8, <1>9, <1>10, <1>11, <1>12, <1>13, <1>14, <1>15,
           <1>16, <1>17, <1>18, <1>19, <1>20, <1>21, <1>22, <1>23 DEF Next, Outside

\* Types, and what hooks have referenced, need no hypothesis.
LEMMA TypesStep == TypeInv /\ HookKept /\ [Next]_vars => TypeInv' /\ HookKept'
BY StagedStep, TypeStep, HookStep, HookKeptStep DEF TypeInv

\* Every step keeps the invariant.
LEMMA Step == OneCommand /\ IInv /\ [Next]_vars => IInv'
BY TypesStep, KeptStep, CacheStep DEF IInv

-----------------------------------------------------------------------------

\* Every variable keeps its type, with any number of overlapping calls; the call that a hook works for stays put.
THEOREM Typed == Spec => []TypeOK
<1>1. Init => TypeInv /\ HookKept
  BY InitIInv DEF IInv
<1>2. TypeInv /\ HookKept => TypeOK
  BY DEF TypeInv
<1> QED BY <1>1, <1>2, TypesStep, PTL DEF Spec

\* The invariant holds in every behaviour with at most one Bash call.
THEOREM Inductive == ASSUME OneCommand PROVE Spec => []IInv
BY OneCommand, InitIInv, Step, PTL DEF Spec

\* While at most one Bash call is made, both sides of every edit in the log can be read, whenever the collector runs
\* between the steps of a hook (gcSession, clearResolved), whatever the stat cache spares a walk, and wherever hooks
\* die: the protection of staging records and leases is complete (handlePost, handlePostBash).
THEOREM RecordedBlobsKept == ASSUME OneCommand PROVE Spec => []RecordedBlobsExist
<1>1. IInv => RecordedBlobsExist
  BY DEF IInv, Kept
<1> QED BY <1>1, Inductive, PTL

-----------------------------------------------------------------------------
(* Which versions of the file are told.                                    *)

\* Of these steps, one that asks an edit call notes the version, and one that ran it wrote just that version's
\* successor.
LEMMA AskedFrame ==
  ASSUME TypeInv, NEW c \in Calls, Outside(c), NEW e \in Edits
  PROVE  \/ call[e] = "new" /\ call'[e] = "open" /\ saw'[e] = version /\ version' = version
         \/ saw'[e] = saw[e] /\ call'[e] = call[e]
         \/ saw'[e] = saw[e] /\ call'[e] \in {"failed", "over"}
         \/ saw'[e] = saw[e] /\ saw[e] = version /\ version' = version + 1 /\ call'[e] = "ran" /\ call[e] = "open"
<1> USE DEF TypeInv, TypeOK, HookType, Hooks, To, File, Store, Calls
<1>1. CASE PreMissed(c)
  BY <1>1 DEF PreMissed, Asked
<1>2. CASE RunEdit(c)
  BY <1>2 DEF RunEdit, Put
<1>3. CASE RunCommand(c)
  BY <1>3 DEF RunCommand, Put
<1>4. CASE FailEdit(c) \/ EndCommand(c) \/ Denied(c)
  BY <1>4 DEF FailEdit, EndCommand, Denied
<1>5. CASE PostUnstaged(c) \/ PostUnclaimed(c) \/ PostMissed(c)
  BY <1>5 DEF PostUnstaged, PostUnclaimed, PostMissed, NoHook
<1> QED BY <1>1, <1>2, <1>3, <1>4, <1>5 DEF Outside

\* The log, unless empty, has a newest edit.
LEMMA NewestExists ==
  ASSUME TypeOK, log # {}
  PROVE  Newest(log) \in log /\ \A s \in log : s.n <= Newest(log).n
<1> DEFINE After(r) == 1 .. (appended - r.n)
           Below == {After(r) : r \in log}
           Sub == StrictSubsetOrdering(Nat)
<1>1. \A r \in log : r.n \in Nat /\ appended - r.n \in Nat
  BY DEF TypeOK
<1>2. Below \subseteq FiniteSubsetsOf(Nat) /\ Below # {}
  <2>1. ASSUME NEW r \in log PROVE After(r) \in FiniteSubsetsOf(Nat)
    <3>1. appended - r.n \in Int /\ After(r) \subseteq Nat
      BY <1>1
    <3> QED BY <3>1, FS_Interval DEF FiniteSubsetsOf
  <2> QED BY <2>1
<1>3. PICK X \in Below : \A Y \in Below : <<Y, X>> \notin Sub
  <2> HIDE DEF Below, Sub
  <2> QED BY <1>2, WFMin, FS_StrictSubsetOrderingWellFounded DEF Sub
<1>4. PICK r \in log : X = After(r)
  OBVIOUS
<1>5. ASSUME NEW s \in log PROVE s.n <= r.n
  <2> SUFFICES ASSUME r.n < s.n PROVE FALSE
    BY <1>1
  <2>1. appended - s.n < appended - r.n /\ appended - s.n \in Nat /\ appended - r.n \in Nat /\ appended \in Nat
    BY <1>1 DEF TypeOK
  <2>2. After(s) \subseteq After(r) /\ After(s) # After(r)
    <3> DEFINE a == appended - s.n
               b == appended - r.n
    <3>1. a < b /\ a \in Nat /\ b \in Nat
      BY <2>1
    <3> HIDE DEF a, b
    <3>2. 1 .. a \subseteq 1 .. b /\ b \in 1 .. b /\ b \notin 1 .. a
      BY <3>1
    <3> QED BY <3>2 DEF a, b
  <2>3. After(s) \in SUBSET Nat /\ After(r) \in SUBSET Nat
    BY <1>1
  <2>4. <<After(s), After(r)>> \in Sub
    <3> HIDE DEF After
    <3> QED BY <2>2, <2>3 DEF StrictSubsetOrdering
  <2>5. After(s) \in Below
    OBVIOUS
  <2> HIDE DEF After, Below, Sub
  <2> QED BY <2>4, <2>5, <1>3, <1>4
<1> QED BY <1>4, <1>5 DEF Newest

\* What a hook reads after its call is the file as it is; telling an edit tells what the hook at work has read.
LEMMA ReadStep == TypeInv /\ ReadInv /\ [Next]_vars => ReadInv'
<1> SUFFICES ASSUME TypeInv /\ ReadInv, [Next]_vars PROVE ReadInv'
  OBVIOUS
<1> USE DEF ReadInv, TypeInv, TypeOK, HookType, Hooks, StagedType, EditSteps, BashSteps, At, To, File, Store,
            NoHook, Unstaged, Calls, Snapshots, HasRead
<1>1. ASSUME NEW c \in Calls, Outside(c) PROVE ReadInv'
  BY <1>1, OutsideFrame
<1>2. ASSUME NEW c \in Calls, PreEdit(c) PROVE ReadInv'
  BY <1>2 DEF PreEdit, Asked, Overlapping
<1>3. ASSUME NEW c \in Calls, PreBash(c) PROVE ReadInv'
  BY <1>3 DEF PreBash, Hashed, Cached
<1>4. ASSUME NEW c \in Calls, PreCrash(c) PROVE ReadInv'
  BY <1>4 DEF PreCrash, Asked, Cached
<1>5. ASSUME NEW c \in Calls, PostEdit(c) PROVE ReadInv'
  BY <1>5 DEF PostEdit
<1>6. ASSUME NEW c \in Calls, Publish(c) PROVE ReadInv'
  BY <1>6 DEF Publish
<1>7. ASSUME NEW c \in Calls, Decline(c) PROVE ReadInv'
  BY <1>7 DEF Decline, Over
<1>8. ASSUME NEW c \in Calls, Decide(c) PROVE ReadInv'
  BY <1>8 DEF Decide
<1>9. ASSUME NEW c \in Calls, FinishEdit(c) PROVE ReadInv'
  BY <1>9 DEF FinishEdit, Over
<1>10. ASSUME NEW c \in Calls, DiscardPre(c) PROVE ReadInv'
  BY <1>10 DEF DiscardPre
<1>11. ASSUME NEW c \in Calls, Claim(c) PROVE ReadInv'
  BY <1>11 DEF Claim
<1>12. ASSUME NEW c \in Calls, Look(c) PROVE ReadInv'
  BY <1>12 DEF Look
<1>13. ASSUME NEW c \in Calls, Walk(c) PROVE ReadInv'
  BY <1>13 DEF Walk, Hashed, Cached
<1>14. ASSUME NEW c \in Calls, Recheck(c) PROVE ReadInv'
  BY <1>14 DEF Recheck
<1>15. ASSUME NEW c \in Calls, SaveCache(c) PROVE ReadInv'
  BY <1>15 DEF SaveCache
<1>16. ASSUME NEW c \in Calls, FinishBash(c) PROVE ReadInv'
  BY <1>16 DEF FinishBash, Over
<1>17. ASSUME NEW c \in Calls, Record(c) PROVE ReadInv'
  BY <1>17 DEF Record
<1>18. ASSUME NEW c \in Calls, Advance(c) PROVE ReadInv'
  BY <1>18 DEF Advance, Advanced
<1>19. ASSUME NEW c \in Calls, PostBusy(c) PROVE ReadInv'
  BY <1>19 DEF PostBusy, Over
<1>20. ASSUME NEW c \in Calls, PostCrash(c) PROVE ReadInv'
  BY <1>20 DEF PostCrash, Over
<1>21. CASE Stop
  BY <1>21 DEF Stop
<1>22. CASE Collect
  BY <1>22, CollectFrame DEF Collect
<1>23. CASE UNCHANGED vars
  BY <1>23 DEF vars
<1> QED BY <1>1, <1>2, <1>3, <1>4, <1>5, <1>6, <1>7, <1>8, <1>9, <1>10, <1>11, <1>12, <1>13, <1>14, <1>15,
           <1>16, <1>17, <1>18, <1>19, <1>20, <1>21, <1>22, <1>23 DEF Next, Outside

\* Only a record appends: the next number, and what is told with it; a collection only drops edits.
LEMMA NumberStep == TypeInv /\ ReadInv /\ NumberInv /\ [Next]_vars => NumberInv'
<1> SUFFICES ASSUME TypeInv /\ ReadInv /\ NumberInv, [Next]_vars PROVE NumberInv'
  OBVIOUS
<1> USE DEF NumberInv, ReadInv, TypeInv, TypeOK, HookType, Hooks, StagedType, EditSteps, BashSteps, At, To,
            File, Store, NoHook, Unstaged, Calls, Snapshots, HasRead
<1>1. ASSUME NEW c \in Calls, Outside(c) PROVE NumberInv'
  BY <1>1, OutsideFrame
<1>2. ASSUME NEW c \in Calls, PreEdit(c) PROVE NumberInv'
  BY <1>2 DEF PreEdit, Asked, Overlapping
<1>3. ASSUME NEW c \in Calls, PreBash(c) PROVE NumberInv'
  BY <1>3 DEF PreBash, Hashed, Cached
<1>4. ASSUME NEW c \in Calls, PreCrash(c) PROVE NumberInv'
  BY <1>4 DEF PreCrash, Asked, Cached
<1>5. ASSUME NEW c \in Calls, PostEdit(c) PROVE NumberInv'
  BY <1>5 DEF PostEdit
<1>6. ASSUME NEW c \in Calls, Publish(c) PROVE NumberInv'
  BY <1>6 DEF Publish
<1>7. ASSUME NEW c \in Calls, Decline(c) PROVE NumberInv'
  BY <1>7 DEF Decline, Over
<1>8. ASSUME NEW c \in Calls, Decide(c) PROVE NumberInv'
  BY <1>8 DEF Decide
<1>9. ASSUME NEW c \in Calls, FinishEdit(c) PROVE NumberInv'
  BY <1>9 DEF FinishEdit, Over
<1>10. ASSUME NEW c \in Calls, DiscardPre(c) PROVE NumberInv'
  BY <1>10 DEF DiscardPre
<1>11. ASSUME NEW c \in Calls, Claim(c) PROVE NumberInv'
  BY <1>11 DEF Claim
<1>12. ASSUME NEW c \in Calls, Look(c) PROVE NumberInv'
  BY <1>12 DEF Look
<1>13. ASSUME NEW c \in Calls, Walk(c) PROVE NumberInv'
  BY <1>13 DEF Walk, Hashed, Cached
<1>14. ASSUME NEW c \in Calls, Recheck(c) PROVE NumberInv'
  BY <1>14 DEF Recheck
<1>15. ASSUME NEW c \in Calls, SaveCache(c) PROVE NumberInv'
  BY <1>15 DEF SaveCache
<1>16. ASSUME NEW c \in Calls, FinishBash(c) PROVE NumberInv'
  BY <1>16 DEF FinishBash, Over
<1>17. ASSUME NEW c \in Calls, Record(c) PROVE NumberInv'
  BY <1>17 DEF Record
<1>18. ASSUME NEW c \in Calls, Advance(c) PROVE NumberInv'
  BY <1>18 DEF Advance, Advanced
<1>19. ASSUME NEW c \in Calls, PostBusy(c) PROVE NumberInv'
  BY <1>19 DEF PostBusy, Over
<1>20. ASSUME NEW c \in Calls, PostCrash(c) PROVE NumberInv'
  BY <1>20 DEF PostCrash, Over
<1>21. CASE Stop
  BY <1>21 DEF Stop
<1>22. CASE Collect
  BY <1>22, CollectFrame DEF Collect
<1>23. CASE UNCHANGED vars
  BY <1>23 DEF vars
<1> QED BY <1>1, <1>2, <1>3, <1>4, <1>5, <1>6, <1>7, <1>8, <1>9, <1>10, <1>11, <1>12, <1>13, <1>14, <1>15,
           <1>16, <1>17, <1>18, <1>19, <1>20, <1>21, <1>22, <1>23 DEF Next, Outside

\* What is told after an edit call was asked is of the version it was asked at, or of a later one, and its run
\* writes the successor of that version.
LEMMA AskedStep == TypeInv /\ TwinInv /\ [Next]_vars => AskedInv'
<1> SUFFICES ASSUME TypeInv /\ TwinInv, [Next]_vars PROVE AskedInv'
  OBVIOUS
<1> USE DEF TwinInv, PostInv, NumberInv, AskedInv, AskedOf, ReadInv, TypeInv, TypeOK, HookType, Hooks,
            StagedType, EditSteps, BashSteps, At, To, File, Store, NoHook, Unstaged, Calls, Snapshots, HasRead
<1>1. ASSUME NEW c \in Calls, Outside(c) PROVE AskedInv'
  <2> SUFFICES ASSUME NEW e \in Edits PROVE AskedOf(e)'
    BY DEF AskedInv
  <2>1. /\ UNCHANGED <<staged, log, appended, told, hook>>
        /\ \/ UNCHANGED <<disk, version>>
           \/ version' = version + 1
    BY <1>1, OutsideFrame
  <2>2. CASE call[e] = "new" /\ call'[e] = "open" /\ saw'[e] = version /\ version' = version
    BY <2>1, <2>2 DEF AskedOf
  <2>3. CASE saw'[e] = saw[e] /\ (call'[e] = call[e] \/ call'[e] \in {"failed", "over"})
    BY <2>1, <2>3 DEF AskedOf
  <2>4. CASE saw'[e] = saw[e] /\ saw[e] = version /\ version' = version + 1 /\ call'[e] = "ran"
    BY <2>1, <2>4 DEF AskedOf
  <2> QED BY <1>1, <2>2, <2>3, <2>4, AskedFrame
<1>2. ASSUME NEW c \in Calls, PreEdit(c) PROVE AskedInv'
  <2> SUFFICES ASSUME NEW e \in Edits PROVE AskedOf(e)'
    BY DEF AskedInv
  <2>1. CASE e = c
    BY <1>2, <2>1 DEF PreEdit, Asked, Overlapping, AskedOf
  <2>2. CASE e # c
    <3>1. staged'[e] = staged[e] \/ (staged[e] # Unstaged /\ staged'[e] = [staged[e] EXCEPT !.ambiguous = TRUE])
      BY <1>2, <2>2 DEF PreEdit, Asked, Overlapping
    <3>2. /\ staged'[e] = Unstaged => staged[e] = Unstaged
          /\ staged[e] = Unstaged => staged'[e] = Unstaged
          /\ staged'[e].before = staged[e].before /\ staged'[e].at = staged[e].at
      <4>1. staged[e] \in [before : Snapshots \cup {None}, after : Snapshots \cup {None}, ambiguous : BOOLEAN,
                          at : Nat]
        OBVIOUS
      <4>2. staged[e] # Unstaged => staged[e].before # None
        OBVIOUS
      <4>3. Unstaged.before = None
        OBVIOUS
      <4> HIDE DEF Unstaged, Snapshots
      <4> QED BY <3>1, <4>1, <4>2, <4>3, MarkedAmbiguous
    <3>3. call'[e] = call[e] /\ saw'[e] = saw[e] /\ UNCHANGED <<disk, version, log, appended, told, hook>>
      BY <1>2, <2>2 DEF PreEdit, Asked
    <3>4. AskedOf(e)
      BY DEF AskedInv
    <3> HIDE DEF Unstaged
    <3> QED BY <3>2, <3>3, <3>4 DEF AskedOf
  <2> QED BY <2>1, <2>2
<1>3. ASSUME NEW c \in Calls, PreBash(c) PROVE AskedInv'
  BY <1>3 DEF PreBash, Hashed, Cached
<1>4. ASSUME NEW c \in Calls, PreCrash(c) PROVE AskedInv'
  BY <1>4 DEF PreCrash, Asked, Cached
<1>5. ASSUME NEW c \in Calls, PostEdit(c) PROVE AskedInv'
  BY <1>5 DEF PostEdit
<1>6. ASSUME NEW c \in Calls, Publish(c) PROVE AskedInv'
  <2> SUFFICES ASSUME NEW e \in Edits PROVE AskedOf(e)'
    BY DEF AskedInv
  <2>1. CASE e = c
    BY <1>6, <2>1 DEF Publish, AskedOf
  <2>2. CASE e # c
    <3>1. staged'[e] = staged[e]
      BY <1>6, <2>2 DEF Publish
    <3> QED BY <1>6, <2>2, <3>1 DEF Publish, AskedOf
  <2> QED BY <2>1, <2>2
<1>7. ASSUME NEW c \in Calls, Decline(c) PROVE AskedInv'
  <2> SUFFICES ASSUME NEW e \in Edits PROVE AskedOf(e)'
    BY DEF AskedInv
  <2>1. CASE e = c
    BY <1>7, <2>1 DEF Decline, Over, AskedOf
  <2>2. CASE e # c
    <3>1. staged'[e] = staged[e]
      BY <1>7, <2>2 DEF Decline, Over
    <3> QED BY <1>7, <2>2, <3>1 DEF Decline, Over, AskedOf
  <2> QED BY <2>1, <2>2
<1>8. ASSUME NEW c \in Calls, Decide(c) PROVE AskedInv'
  BY <1>8 DEF Decide
<1>9. ASSUME NEW c \in Calls, FinishEdit(c) PROVE AskedInv'
  <2> SUFFICES ASSUME NEW e \in Edits PROVE AskedOf(e)'
    BY DEF AskedInv
  <2>1. CASE e = c
    BY <1>9, <2>1 DEF FinishEdit, Over, AskedOf
  <2>2. CASE e # c
    <3>1. staged'[e] = staged[e]
      BY <1>9, <2>2 DEF FinishEdit, Over
    <3> QED BY <1>9, <2>2, <3>1 DEF FinishEdit, Over, AskedOf
  <2> QED BY <2>1, <2>2
<1>10. ASSUME NEW c \in Calls, DiscardPre(c) PROVE AskedInv'
  <2> SUFFICES ASSUME NEW e \in Edits PROVE AskedOf(e)'
    BY DEF AskedInv
  <2>1. CASE e = c
    BY <1>10, <2>1 DEF DiscardPre, AskedOf
  <2>2. CASE e # c
    <3>1. staged'[e] = staged[e]
      BY <1>10, <2>2 DEF DiscardPre
    <3> QED BY <1>10, <2>2, <3>1 DEF DiscardPre, AskedOf
  <2> QED BY <2>1, <2>2
<1>11. ASSUME NEW c \in Calls, Claim(c) PROVE AskedInv'
  BY <1>11 DEF Claim
<1>12. ASSUME NEW c \in Calls, Look(c) PROVE AskedInv'
  BY <1>12 DEF Look
<1>13. ASSUME NEW c \in Calls, Walk(c) PROVE AskedInv'
  BY <1>13 DEF Walk, Hashed, Cached
<1>14. ASSUME NEW c \in Calls, Recheck(c) PROVE AskedInv'
  BY <1>14 DEF Recheck
<1>15. ASSUME NEW c \in Calls, SaveCache(c) PROVE AskedInv'
  BY <1>15 DEF SaveCache
<1>16. ASSUME NEW c \in Calls, FinishBash(c) PROVE AskedInv'
  BY <1>16 DEF FinishBash, Over
<1>17. ASSUME NEW c \in Calls, Record(c) PROVE AskedInv'
  <2> SUFFICES ASSUME NEW e \in Edits PROVE AskedOf(e)'
    BY DEF AskedInv
  <2> DEFINE new == [n |-> appended + 1, before |-> hook.before, after |-> hook.after, partial |-> hook.ambiguous]
  <2>1. /\ HasRead /\ HasRead' /\ appended' = appended + 1 /\ log' = log \cup {new} /\ new.after = hook.after
        /\ told' = [holds |-> hook.after, version |-> hook.version]
        /\ hook'.version = hook.version /\ hook'.after = hook.after
        /\ UNCHANGED <<disk, version, call, saw, staged>>
    BY <1>17 DEF Record
  <2>2. AskedOf(e) /\ told.version <= hook.version /\ (told.version = hook.version => told.holds = hook.after)
    BY <2>1 DEF AskedInv
  <2>3. /\ appended \in Nat /\ staged[e].at \in Nat /\ saw[e] \in Nat /\ told.version \in Nat
        /\ hook.version \in Nat /\ \A r \in log : r.n <= appended /\ r.n \in Nat
    OBVIOUS
  <2> HIDE DEF new, HasRead, TypeInv, TypeOK, HookType, Hooks, TwinInv, AskedInv, NumberInv, PostInv, ReadInv, Store
  <2> QED BY <2>1, <2>2, <2>3
<1>18. ASSUME NEW c \in Calls, Advance(c) PROVE AskedInv'
  BY <1>18 DEF Advance, Advanced
<1>19. ASSUME NEW c \in Calls, PostBusy(c) PROVE AskedInv'
  BY <1>19 DEF PostBusy, Over
<1>20. ASSUME NEW c \in Calls, PostCrash(c) PROVE AskedInv'
  BY <1>20 DEF PostCrash, Over
<1>21. CASE Stop
  BY <1>21 DEF Stop
<1>22. CASE Collect
  BY <1>22, CollectFrame DEF Collect
<1>23. CASE UNCHANGED vars
  BY <1>23 DEF vars
<1> QED BY <1>1, <1>2, <1>3, <1>4, <1>5, <1>6, <1>7, <1>8, <1>9, <1>10, <1>11, <1>12, <1>13, <1>14, <1>15,
           <1>16, <1>17, <1>18, <1>19, <1>20, <1>21, <1>22, <1>23 DEF Next, Outside

\* An edit's hook that decides to record has found the newest edit to be older than its call, or to say otherwise
\* (AlreadyRecorded), and no other hook appends before it does.
LEMMA PostStep == TypeInv /\ HookKept /\ TwinInv /\ [Next]_vars => PostInv'
<1> SUFFICES ASSUME TypeInv /\ HookKept /\ TwinInv, [Next]_vars PROVE PostInv'
  OBVIOUS
<1> USE DEF TwinInv, HookKept, PostInv, TypeInv, TypeOK, HookType, Hooks, StagedType, EditSteps, BashSteps, At,
            To, File, Store, NoHook, Unstaged, Calls, Snapshots, HasRead
<1>1. ASSUME NEW c \in Calls, Outside(c) PROVE PostInv'
  <2>1. UNCHANGED <<staged, log, appended, hook>>
    BY <1>1, OutsideFrame
  <2>2. hook.of \in Edits => saw'[hook.of] = saw[hook.of]
    BY <1>1, AskedFrame
  <2> QED BY <2>1, <2>2
<1>2. ASSUME NEW c \in Calls, PreEdit(c) PROVE PostInv'
  BY <1>2 DEF PreEdit, Asked, Overlapping
<1>3. ASSUME NEW c \in Calls, PreBash(c) PROVE PostInv'
  BY <1>3 DEF PreBash, Hashed, Cached
<1>4. ASSUME NEW c \in Calls, PreCrash(c) PROVE PostInv'
  BY <1>4 DEF PreCrash, Asked, Cached
<1>5. ASSUME NEW c \in Calls, PostEdit(c) PROVE PostInv'
  BY <1>5 DEF PostEdit, AskedInv, AskedOf
<1>6. ASSUME NEW c \in Calls, Publish(c) PROVE PostInv'
  BY <1>6 DEF Publish
<1>7. ASSUME NEW c \in Calls, Decline(c) PROVE PostInv'
  BY <1>7 DEF Decline, Over
<1>8. ASSUME NEW c \in Calls, Decide(c) PROVE PostInv'
  <2>1. ASSUME NEW r \in log, r.n = appended PROVE r = Newest(log)
    <3>1. Newest(log) \in log /\ r.n <= Newest(log).n /\ Newest(log).n <= appended
      BY NewestExists
    <3> HIDE DEF At, To, File, Store, NoHook, Unstaged, HasRead, HookType, StagedType
    <3>2. Newest(log).n \in Nat /\ appended \in Nat
      BY <3>1
    <3>3. r.n = Newest(log).n
      BY ONLY <2>1, <3>1, <3>2
    <3> QED BY <3>1, <3>3 DEF NumberInv
  <2>2. \A r \in log : r.n = appended => appended <= hook.at \/ r.after # hook.after
    BY <1>8, <2>1 DEF Decide, AlreadyRecorded
  <2> QED BY <1>8, <2>2 DEF Decide
<1>9. ASSUME NEW c \in Calls, FinishEdit(c) PROVE PostInv'
  BY <1>9 DEF FinishEdit, Over
<1>10. ASSUME NEW c \in Calls, DiscardPre(c) PROVE PostInv'
  BY <1>10 DEF DiscardPre
<1>11. ASSUME NEW c \in Calls, Claim(c) PROVE PostInv'
  BY <1>11 DEF Claim
<1>12. ASSUME NEW c \in Calls, Look(c) PROVE PostInv'
  BY <1>12 DEF Look
<1>13. ASSUME NEW c \in Calls, Walk(c) PROVE PostInv'
  BY <1>13 DEF Walk, Hashed, Cached
<1>14. ASSUME NEW c \in Calls, Recheck(c) PROVE PostInv'
  BY <1>14 DEF Recheck
<1>15. ASSUME NEW c \in Calls, SaveCache(c) PROVE PostInv'
  BY <1>15 DEF SaveCache
<1>16. ASSUME NEW c \in Calls, FinishBash(c) PROVE PostInv'
  BY <1>16 DEF FinishBash, Over
<1>17. ASSUME NEW c \in Calls, Record(c) PROVE PostInv'
  BY <1>17 DEF Record
<1>18. ASSUME NEW c \in Calls, Advance(c) PROVE PostInv'
  BY <1>18 DEF Advance, Advanced
<1>19. ASSUME NEW c \in Calls, PostBusy(c) PROVE PostInv'
  BY <1>19 DEF PostBusy, Over
<1>20. ASSUME NEW c \in Calls, PostCrash(c) PROVE PostInv'
  BY <1>20 DEF PostCrash, Over
<1>21. CASE Stop
  BY <1>21 DEF Stop
<1>22. CASE Collect
  BY <1>22, CollectFrame DEF Collect
<1>23. CASE UNCHANGED vars
  BY <1>23 DEF vars
<1> QED BY <1>1, <1>2, <1>3, <1>4, <1>5, <1>6, <1>7, <1>8, <1>9, <1>10, <1>11, <1>12, <1>13, <1>14, <1>15,
           <1>16, <1>17, <1>18, <1>19, <1>20, <1>21, <1>22, <1>23 DEF Next, Outside

\* The advance after a record brings the pending snapshots to what was told; only the calls' own writes, which
\* nothing has told yet, part them again.
LEMMA SnapshotStep == TypeInv /\ TwinInv /\ [Next]_vars => SnapshotInv'
<1> SUFFICES ASSUME TypeInv /\ TwinInv, [Next]_vars PROVE SnapshotInv'
  OBVIOUS
<1> USE DEF TwinInv, SnapshotInv, ReadInv, Undisturbed, Advancing, TypeInv, TypeOK, HookType, Hooks,
            StagedType, EditSteps, BashSteps, At, To, File, Store, NoHook, Unstaged, Calls, Snapshots, HasRead
<1>1. ASSUME NEW c \in Calls, Outside(c) PROVE SnapshotInv'
  BY <1>1, OutsideFrame
<1>2. ASSUME NEW c \in Calls, PreEdit(c) PROVE SnapshotInv'
  BY <1>2 DEF PreEdit, Asked, Overlapping
<1>3. ASSUME NEW c \in Calls, PreBash(c) PROVE SnapshotInv'
  BY <1>3 DEF PreBash, Hashed, Cached
<1>4. ASSUME NEW c \in Calls, PreCrash(c) PROVE SnapshotInv'
  BY <1>4 DEF PreCrash, Asked, Cached
<1>5. ASSUME NEW c \in Calls, PostEdit(c) PROVE SnapshotInv'
  BY <1>5 DEF PostEdit
<1>6. ASSUME NEW c \in Calls, Publish(c) PROVE SnapshotInv'
  BY <1>6 DEF Publish
<1>7. ASSUME NEW c \in Calls, Decline(c) PROVE SnapshotInv'
  BY <1>7 DEF Decline, Over
<1>8. ASSUME NEW c \in Calls, Decide(c) PROVE SnapshotInv'
  BY <1>8 DEF Decide
<1>9. ASSUME NEW c \in Calls, FinishEdit(c) PROVE SnapshotInv'
  BY <1>9 DEF FinishEdit, Over
<1>10. ASSUME NEW c \in Calls, DiscardPre(c) PROVE SnapshotInv'
  BY <1>10 DEF DiscardPre
<1>11. ASSUME NEW c \in Calls, Claim(c) PROVE SnapshotInv'
  BY <1>11 DEF Claim
<1>12. ASSUME NEW c \in Calls, Look(c) PROVE SnapshotInv'
  BY <1>12 DEF Look
<1>13. ASSUME NEW c \in Calls, Walk(c) PROVE SnapshotInv'
  BY <1>13 DEF Walk, Hashed, Cached
<1>14. ASSUME NEW c \in Calls, Recheck(c) PROVE SnapshotInv'
  BY <1>14 DEF Recheck
<1>15. ASSUME NEW c \in Calls, SaveCache(c) PROVE SnapshotInv'
  BY <1>15 DEF SaveCache
<1>16. ASSUME NEW c \in Calls, FinishBash(c) PROVE SnapshotInv'
  BY <1>16 DEF FinishBash, Over
<1>17. ASSUME NEW c \in Calls, Record(c) PROVE SnapshotInv'
  BY <1>17 DEF Record
<1>18. ASSUME NEW c \in Calls, Advance(c) PROVE SnapshotInv'
  BY <1>18 DEF Advance, Advanced
<1>19. ASSUME NEW c \in Calls, PostBusy(c) PROVE SnapshotInv'
  BY <1>19 DEF PostBusy, Over
<1>20. ASSUME NEW c \in Calls, PostCrash(c) PROVE SnapshotInv'
  BY <1>20 DEF PostCrash, Over
<1>21. CASE Stop
  BY <1>21 DEF Stop
<1>22. CASE Collect
  BY <1>22, CollectFrame DEF Collect
<1>23. CASE UNCHANGED vars
  BY <1>23 DEF vars
<1> QED BY <1>1, <1>2, <1>3, <1>4, <1>5, <1>6, <1>7, <1>8, <1>9, <1>10, <1>11, <1>12, <1>13, <1>14, <1>15,
           <1>16, <1>17, <1>18, <1>19, <1>20, <1>21, <1>22, <1>23 DEF Next, Outside

\* Every step keeps it, whatever calls overlap.
LEMMA TwinStep == TypeInv /\ HookKept /\ TwinInv /\ [Next]_vars => TwinInv'
BY ReadStep, NumberStep, AskedStep, PostStep, SnapshotStep DEF TwinInv

\* The initial state satisfies it.
LEMMA InitTwinInv == Init => TwinInv
<1> SUFFICES ASSUME Init PROVE TwinInv
  OBVIOUS
<1> USE DEF Init
<1>1. ReadInv /\ NumberInv /\ PostInv /\ SnapshotInv
  BY DEF ReadInv, NumberInv, PostInv, SnapshotInv, NoHook, Advancing, HasRead, Calls
<1>2. AskedInv
  BY DEF AskedInv, AskedOf, Calls, NoHook
<1> QED BY <1>1, <1>2 DEF TwinInv

\* An edit that is recorded while the newest one is in the log tells of a later version than that one does.
LEMMA LaterTold ==
  ASSUME TypeInv, TwinInv, Undisturbed, NEW c \in Calls, Record(c), log # {}, Newest(log).n = appended
  PROVE  told'.version > told.version
<1>1. hook.of = c /\ hook.step = "record" /\ told'.version = hook.version
  BY DEF Record, At
<1>2. told.version \in Nat /\ hook.version \in Nat /\ told.version <= hook.version
  BY <1>1 DEF TypeInv, TypeOK, HookType, Hooks, TwinInv, ReadInv, HasRead
<1> SUFFICES ASSUME told.version = hook.version PROVE FALSE
  BY <1>1, <1>2
<1>3. CASE c \in Commands
  BY <1>1, <1>2, <1>3 DEF TwinInv, SnapshotInv
<1>4. CASE c \in Edits
  <2>1. told.holds = hook.after
    BY <1>1 DEF TwinInv, ReadInv, HasRead
  <2>2. Newest(log) \in log /\ Newest(log).after = hook.after
    BY <2>1, NewestExists DEF TypeInv, TwinInv, NumberInv
  <2>3. appended <= hook.at /\ hook.at = staged[c].at /\ staged[c] # Unstaged /\ saw[c] < hook.version
    BY <1>1, <1>4, <2>2 DEF TwinInv, PostInv
  <2>4. staged[c].at <= appended /\ (staged[c].at = appended => told.version <= saw[c])
    BY <1>4, <2>3 DEF TwinInv, AskedInv, AskedOf
  <2>5. appended \in Nat /\ staged[c].at \in Nat /\ saw[c] \in Nat
    BY <1>4 DEF TypeInv, TypeOK
  <2> QED BY <1>2, <2>3, <2>4, <2>5
<1> QED BY <1>3, <1>4 DEF Calls

\* Nothing else appends.
LEMMA OnlyRecordAppends ==
  ASSUME TypeInv, [Next]_vars, appended' # appended
  PROVE  \E c \in Calls : Record(c)
<1>1. ASSUME NEW c \in Calls, Outside(c) PROVE FALSE
  BY <1>1, OutsideFrame
<1>2. ASSUME NEW c \in Calls,
             \/ PreEdit(c) \/ PreBash(c) \/ PreCrash(c) \/ PostEdit(c) \/ Publish(c) \/ Decline(c) \/ Decide(c)
             \/ FinishEdit(c) \/ DiscardPre(c) \/ Claim(c) \/ Look(c) \/ Walk(c) \/ Recheck(c) \/ SaveCache(c)
             \/ FinishBash(c) \/ Advance(c) \/ PostBusy(c) \/ PostCrash(c)
      PROVE  FALSE
  BY <1>2 DEF PreEdit, PreBash, PreCrash, PostEdit, Publish, Decline, Decide, FinishEdit, DiscardPre, Claim, Look,
              Walk, Recheck, SaveCache, FinishBash, Advance, PostBusy, PostCrash, Store
<1>3. ~Stop /\ ~Collect /\ ~UNCHANGED vars
  BY DEF Stop, Collect, vars
<1> QED BY <1>1, <1>2, <1>3 DEF Next, Outside

\* A call loses its staging record or its snapshot only to its own hook, to a death or to a marker.
LEMMA CallsStep == TypeInv /\ TwinInv /\ CallsInv /\ [Next]_vars => CallsInv'
<1> SUFFICES ASSUME TypeInv /\ TwinInv /\ CallsInv, [Next]_vars PROVE CallsInv'
  OBVIOUS
<1> USE DEF CallsInv, TwinInv, PostInv, Undisturbed, TypeInv, TypeOK, HookType, Hooks, StagedType, EditSteps,
            BashSteps, At, To, File, Store, NoHook, Unstaged, Calls, Snapshots, HasRead
<1>1. ASSUME NEW c \in Calls, Outside(c) PROVE CallsInv'
  <2>1. CASE PreMissed(c) \/ PostUnstaged(c) \/ PostMissed(c)
    BY <2>1 DEF PreMissed, PostUnstaged, PostMissed
  <2>2. CASE RunEdit(c)
    BY <2>2 DEF RunEdit
  <2>3. CASE FailEdit(c)
    BY <2>3 DEF FailEdit
  <2>4. CASE RunCommand(c)
    BY <2>4 DEF RunCommand
  <2>5. CASE EndCommand(c)
    BY <2>5 DEF EndCommand
  <2>6. CASE Denied(c)
    BY <2>6 DEF Denied
  <2>7. CASE PostUnclaimed(c)
    BY <2>7 DEF PostUnclaimed
  <2> QED BY <1>1, <2>1, <2>2, <2>3, <2>4, <2>5, <2>6, <2>7 DEF Outside
<1>2. ASSUME NEW c \in Calls, PreEdit(c) PROVE CallsInv'
  BY <1>2 DEF PreEdit, Asked, Overlapping
<1>3. ASSUME NEW c \in Calls, PreBash(c) PROVE CallsInv'
  BY <1>3 DEF PreBash, Hashed, Cached
<1>4. ASSUME NEW c \in Calls, PreCrash(c) PROVE CallsInv'
  BY <1>4 DEF PreCrash, Asked, Cached
<1>5. ASSUME NEW c \in Calls, PostEdit(c) PROVE CallsInv'
  BY <1>5 DEF PostEdit
<1>6. ASSUME NEW c \in Calls, Publish(c) PROVE CallsInv'
  BY <1>6 DEF Publish
<1>7. ASSUME NEW c \in Calls, Decline(c) PROVE CallsInv'
  BY <1>7 DEF Decline, Over
<1>8. ASSUME NEW c \in Calls, Decide(c) PROVE CallsInv'
  BY <1>8 DEF Decide
<1>9. ASSUME NEW c \in Calls, FinishEdit(c) PROVE CallsInv'
  BY <1>9 DEF FinishEdit, Over
<1>10. ASSUME NEW c \in Calls, DiscardPre(c) PROVE CallsInv'
  BY <1>10 DEF DiscardPre
<1>11. ASSUME NEW c \in Calls, Claim(c) PROVE CallsInv'
  BY <1>11 DEF Claim
<1>12. ASSUME NEW c \in Calls, Look(c) PROVE CallsInv'
  BY <1>12 DEF Look
<1>13. ASSUME NEW c \in Calls, Walk(c) PROVE CallsInv'
  BY <1>13 DEF Walk, Hashed, Cached
<1>14. ASSUME NEW c \in Calls, Recheck(c) PROVE CallsInv'
  BY <1>14 DEF Recheck
<1>15. ASSUME NEW c \in Calls, SaveCache(c) PROVE CallsInv'
  BY <1>15 DEF SaveCache
<1>16. ASSUME NEW c \in Calls, FinishBash(c) PROVE CallsInv'
  BY <1>16 DEF FinishBash, Over
<1>17. ASSUME NEW c \in Calls, Record(c) PROVE CallsInv'
  BY <1>17 DEF Record
<1>18. ASSUME NEW c \in Calls, Advance(c) PROVE CallsInv'
  BY <1>18 DEF Advance, Advanced
<1>19. ASSUME NEW c \in Calls, PostBusy(c) PROVE CallsInv'
  BY <1>19 DEF PostBusy, Over
<1>20. ASSUME NEW c \in Calls, PostCrash(c) PROVE CallsInv'
  BY <1>20 DEF PostCrash, Over
<1>21. CASE Stop
  BY <1>21 DEF Stop
<1>22. CASE Collect
  <2>1. PICK dead \in Dead : manifest' = [c \in Commands |-> IF c \in dead THEN None ELSE manifest[c]]
    BY <1>22 DEF Collect
  <2>2. \A c \in Commands : call[c] # "over" => manifest'[c] = manifest[c]
    BY <2>1 DEF Dead
  <2>3. UNCHANGED <<staged, call, hook, missed, crashes>>
    BY <1>22 DEF Collect
  <2> QED BY <2>2, <2>3
<1>23. CASE UNCHANGED vars
  BY <1>23 DEF vars
<1> QED BY <1>1, <1>2, <1>3, <1>4, <1>5, <1>6, <1>7, <1>8, <1>9, <1>10, <1>11, <1>12, <1>13, <1>14, <1>15,
           <1>16, <1>17, <1>18, <1>19, <1>20, <1>21, <1>22, <1>23 DEF Next, Outside

\* With one command, its snapshot is taken of, and advanced to, what the log tells, unless it is asked while an
\* edit call waits for its Post.
LEMMA TruthStep == OneCommand /\ TypeInv /\ HookKept /\ TwinInv /\ SilentInv /\ [Next]_vars => TruthInv'
<1> SUFFICES ASSUME OneCommand /\ TypeInv /\ HookKept /\ TwinInv /\ SilentInv, [Next]_vars PROVE TruthInv'
  OBVIOUS
<1> USE DEF OneCommand, SilentInv, CallsInv, TruthInv, Quiet, TwinInv, ReadInv, Undisturbed, Advancing,
            TypeInv, TypeOK, HookType, Hooks, StagedType, EditSteps, BashSteps, At, To, File, Store, NoHook,
            Unstaged, Calls, Snapshots, HasRead
<1>1. ASSUME NEW c \in Calls, Outside(c) PROVE TruthInv'
  BY <1>1, OutsideFrame
<1>2. ASSUME NEW c \in Calls, PreEdit(c) PROVE TruthInv'
  BY <1>2 DEF PreEdit, Asked, Overlapping
<1>3. ASSUME NEW c \in Calls, PreBash(c) PROVE TruthInv'
  <2> SUFFICES ASSUME Quiet' PROVE TruthInv'
    BY <1>3 DEF PreBash
  <2>1. Quiet /\ (\A e \in Edits : call[e] # "ran") /\ hook = NoHook /\ call[c] = "new" /\ c \in Commands
    BY <1>3 DEF PreBash
  <2>2. told.holds = disk
    BY <2>1 DEF ToldInv, WillTell, LastWrote
  <2> QED BY <1>3, <2>1, <2>2 DEF PreBash
<1>4. ASSUME NEW c \in Calls, PreCrash(c) PROVE TruthInv'
  BY <1>4 DEF PreCrash, Asked, Cached
<1>5. ASSUME NEW c \in Calls, PostEdit(c) PROVE TruthInv'
  BY <1>5 DEF PostEdit
<1>6. ASSUME NEW c \in Calls, Publish(c) PROVE TruthInv'
  BY <1>6 DEF Publish
<1>7. ASSUME NEW c \in Calls, Decline(c) PROVE TruthInv'
  BY <1>7 DEF Decline, Over
<1>8. ASSUME NEW c \in Calls, Decide(c) PROVE TruthInv'
  BY <1>8 DEF Decide
<1>9. ASSUME NEW c \in Calls, FinishEdit(c) PROVE TruthInv'
  BY <1>9 DEF FinishEdit, Over
<1>10. ASSUME NEW c \in Calls, DiscardPre(c) PROVE TruthInv'
  BY <1>10 DEF DiscardPre
<1>11. ASSUME NEW c \in Calls, Claim(c) PROVE TruthInv'
  BY <1>11 DEF Claim
<1>12. ASSUME NEW c \in Calls, Look(c) PROVE TruthInv'
  BY <1>12 DEF Look
<1>13. ASSUME NEW c \in Calls, Walk(c) PROVE TruthInv'
  BY <1>13 DEF Walk, Hashed, Cached
<1>14. ASSUME NEW c \in Calls, Recheck(c) PROVE TruthInv'
  BY <1>14 DEF Recheck
<1>15. ASSUME NEW c \in Calls, SaveCache(c) PROVE TruthInv'
  BY <1>15 DEF SaveCache
<1>16. ASSUME NEW c \in Calls, FinishBash(c) PROVE TruthInv'
  BY <1>16 DEF FinishBash, Over
<1>17. ASSUME NEW c \in Calls, Record(c) PROVE TruthInv'
  BY <1>17 DEF Record
<1>18. ASSUME NEW c \in Calls, Advance(c) PROVE TruthInv'
  BY <1>18 DEF Advance, Advanced
<1>19. ASSUME NEW c \in Calls, PostBusy(c) PROVE TruthInv'
  BY <1>19 DEF PostBusy, Over
<1>20. ASSUME NEW c \in Calls, PostCrash(c) PROVE TruthInv'
  BY <1>20 DEF PostCrash, Over
<1>21. CASE Stop
  BY <1>21 DEF Stop
<1>22. CASE Collect
  BY <1>22, CollectFrame DEF Collect
<1>23. CASE UNCHANGED vars
  BY <1>23 DEF vars
<1> QED BY <1>1, <1>2, <1>3, <1>4, <1>5, <1>6, <1>7, <1>8, <1>9, <1>10, <1>11, <1>12, <1>13, <1>14, <1>15,
           <1>16, <1>17, <1>18, <1>19, <1>20, <1>21, <1>22, <1>23 DEF Next, Outside

\* A write leaves a call that will tell of it, and that call tells of it, or finds that the log does already.
LEMMA ToldStep == OneCommand /\ TypeInv /\ HookKept /\ TwinInv /\ SilentInv /\ [Next]_vars => ToldInv'
<1> SUFFICES ASSUME OneCommand /\ TypeInv /\ HookKept /\ TwinInv /\ SilentInv, [Next]_vars PROVE ToldInv'
  OBVIOUS
<1> USE DEF OneCommand, SilentInv, CallsInv, TruthInv, ToldInv, WillTell, LastWrote, Quiet, TwinInv, ReadInv,
            PostInv, Undisturbed, Advancing, HookKept, TypeInv, TypeOK, HookType, Hooks, StagedType, EditSteps,
            BashSteps, At, To, File, Store, NoHook, Unstaged, Calls, Snapshots, HasRead
<1>1. ASSUME NEW c \in Calls, Outside(c) PROVE ToldInv'
  <2>1. CASE PreMissed(c) \/ PostUnstaged(c) \/ PostMissed(c)
    BY <2>1 DEF PreMissed, PostUnstaged, PostMissed
  <2>2. CASE RunEdit(c)
    BY <2>2 DEF RunEdit, Put, AskedInv, AskedOf
  <2>3. CASE FailEdit(c)
    BY <2>3 DEF FailEdit
  <2>4. CASE RunCommand(c)
    BY <2>4 DEF RunCommand, Put
  <2>5. CASE EndCommand(c)
    BY <2>5 DEF EndCommand
  <2>6. CASE Denied(c)
    BY <2>6 DEF Denied
  <2>7. CASE PostUnclaimed(c)
    BY <2>7 DEF PostUnclaimed
  <2> QED BY <1>1, <2>1, <2>2, <2>3, <2>4, <2>5, <2>6, <2>7 DEF Outside
<1>2. ASSUME NEW c \in Calls, PreEdit(c) PROVE ToldInv'
  BY <1>2 DEF PreEdit, Asked, Overlapping
<1>3. ASSUME NEW c \in Calls, PreBash(c) PROVE ToldInv'
  BY <1>3 DEF PreBash, Hashed, Cached
<1>4. ASSUME NEW c \in Calls, PreCrash(c) PROVE ToldInv'
  BY <1>4 DEF PreCrash, Asked, Cached
<1>5. ASSUME NEW c \in Calls, PostEdit(c) PROVE ToldInv'
  BY <1>5 DEF PostEdit
<1>6. ASSUME NEW c \in Calls, Publish(c) PROVE ToldInv'
  BY <1>6 DEF Publish
<1>7. ASSUME NEW c \in Calls, Decline(c) PROVE ToldInv'
  <2>1. hook.of = c /\ c \in Edits /\ hook.step = "decide" /\ (hook.before = hook.after \/ AlreadyRecorded)
    BY <1>7 DEF Decline
  <2>2. ASSUME Quiet, LastWrote(c) PROVE told.holds = disk
    <3>1. /\ saw[c] < hook.version /\ hook.version <= version /\ hook.version \in Nat /\ saw[c] \in Nat
          /\ told.version \in Nat /\ told.version <= version /\ version = saw[c] + 1
          /\ hook.at = staged[c].at /\ hook.before = staged[c].before /\ staged[c] # Unstaged
      BY <2>1, <2>2
    <3>2. hook.after = disk /\ hook.before # hook.after
      BY <2>1, <2>2, <3>1
    <3>3. Newest(log) \in log /\ Newest(log).after = disk /\ Newest(log).n > staged[c].at
      BY <2>1, <3>1, <3>2, NewestExists DEF AlreadyRecorded
    <3>4. saw[c] <= told.version /\ told.version # saw[c]
      BY <2>1, <2>2, <3>1, <3>3 DEF AskedInv, AskedOf
    <3>5. told.version = version
      BY ONLY <3>1, <3>4
    <3> QED BY <3>5
  <2>3. UNCHANGED <<disk, version, saw, told, manifest, midEdit, missed, crashes>> /\ hook' = NoHook
    BY <1>7 DEF Decline, Over
  <2>4. \A d \in Calls : d # c => call'[d] = call[d]
    BY <1>7 DEF Decline, Over
  <2>5. \A e \in Edits : e # c => staged'[e] = staged[e]
    BY <1>7 DEF Decline
  <2> QED BY <2>1, <2>2, <2>3, <2>4, <2>5
<1>8. ASSUME NEW c \in Calls, Decide(c) PROVE ToldInv'
  BY <1>8 DEF Decide
<1>9. ASSUME NEW c \in Calls, FinishEdit(c) PROVE ToldInv'
  BY <1>9 DEF FinishEdit, Over
<1>10. ASSUME NEW c \in Calls, DiscardPre(c) PROVE ToldInv'
  BY <1>10 DEF DiscardPre
<1>11. ASSUME NEW c \in Calls, Claim(c) PROVE ToldInv'
  BY <1>11 DEF Claim
<1>12. ASSUME NEW c \in Calls, Look(c) PROVE ToldInv'
  BY <1>12 DEF Look
<1>13. ASSUME NEW c \in Calls, Walk(c) PROVE ToldInv'
  BY <1>13 DEF Walk, Hashed, Cached
<1>14. ASSUME NEW c \in Calls, Recheck(c) PROVE ToldInv'
  BY <1>14 DEF Recheck
<1>15. ASSUME NEW c \in Calls, SaveCache(c) PROVE ToldInv'
  BY <1>15 DEF SaveCache
<1>16. ASSUME NEW c \in Calls, FinishBash(c) PROVE ToldInv'
  BY <1>16 DEF FinishBash, Over
<1>17. ASSUME NEW c \in Calls, Record(c) PROVE ToldInv'
  <2>1. hook.of = c /\ hook.step = "record" /\ told' = [holds |-> hook.after, version |-> hook.version]
    BY <1>17 DEF Record
  <2>2. UNCHANGED <<disk, version, saw, call, staged, manifest, midEdit, missed, crashes>>
    BY <1>17 DEF Record
  <2>0. hook'.of = c /\ hook'.version = hook.version
    BY <1>17 DEF Record
  <2>3. CASE hook.version = version
    <3>1. hook.after = disk
      BY <2>1, <2>3
    <3>2. told'.holds = disk' /\ hook'.version = version'
      BY <2>0, <2>1, <2>2, <2>3, <3>1
    <3> QED BY <3>2
  <2>4. CASE hook.version # version
    <3>1. \A e \in Edits : LastWrote(e) => e # c
      BY <2>1, <2>4
    <3>2. Quiet => WillTell
      BY <2>1, <2>4
    <3> QED BY <2>0, <2>1, <2>2, <2>4, <3>1, <3>2
  <2> QED BY <2>3, <2>4
<1>18. ASSUME NEW c \in Calls, Advance(c) PROVE ToldInv'
  BY <1>18 DEF Advance, Advanced
<1>19. ASSUME NEW c \in Calls, PostBusy(c) PROVE ToldInv'
  BY <1>19 DEF PostBusy, Over
<1>20. ASSUME NEW c \in Calls, PostCrash(c) PROVE ToldInv'
  BY <1>20 DEF PostCrash, Over
<1>21. CASE Stop
  BY <1>21 DEF Stop
<1>22. CASE Collect
  BY <1>22, CollectFrame DEF Collect
<1>23. CASE UNCHANGED vars
  BY <1>23 DEF vars
<1> QED BY <1>1, <1>2, <1>3, <1>4, <1>5, <1>6, <1>7, <1>8, <1>9, <1>10, <1>11, <1>12, <1>13, <1>14, <1>15,
           <1>16, <1>17, <1>18, <1>19, <1>20, <1>21, <1>22, <1>23 DEF Next, Outside

\* The initial state satisfies the invariant.
LEMMA InitSilentInv == Init => SilentInv
<1> SUFFICES ASSUME Init PROVE SilentInv
  OBVIOUS
<1> USE DEF Init
<1>1. hook.of \notin Calls /\ hook.step = "none" /\ \A c \in Calls : call[c] = "new"
  BY DEF NoHook, Calls
<1>2. CallsInv
  BY <1>1 DEF CallsInv, Calls
<1>3. TruthInv
  BY <1>1 DEF TruthInv, Calls
<1>4. ToldInv
  BY <1>1 DEF ToldInv, HasRead
<1> QED BY <1>2, <1>3, <1>4 DEF SilentInv

\* What is told, in every behaviour.
LEMMA Twins == Spec => [](TypeInv /\ HookKept /\ TwinInv)
<1>1. Init => TypeInv /\ HookKept /\ TwinInv
  BY InitIInv, InitTwinInv DEF IInv
<1>2. TypeInv /\ HookKept /\ TwinInv /\ [Next]_vars => (TypeInv /\ HookKept /\ TwinInv)'
  BY TypesStep, TwinStep
<1> QED BY <1>1, <1>2, PTL DEF Spec

\* Whatever calls overlap, and however edits are cleared in between: unless a hook died or left a marker, an edit that
\* is appended after one that is still in the log tells of a write that the other does not (AlreadyRecorded in
\* handlePost, advancePendingManifests).
THEOREM TwinsNever == Spec => NoTwins
<1>1. TypeInv /\ HookKept /\ TwinInv /\ [Next]_vars
        => [Undisturbed /\ appended' # appended /\ log # {} /\ Newest(log).n = appended
              => told'.version > told.version]_vars
  BY LaterTold, OnlyRecordAppends DEF TypeInv
<1> QED BY <1>1, Twins, PTL DEF Spec, NoTwins

\* While at most one Bash call is made, the log tells what the file holds once every call is over, unless a hook died
\* or left a marker, or the command was asked between an edit and its Post (handlePost, handlePostBash).
THEOREM SilenceIsTruth == ASSUME OneCommand PROVE Spec => []NothingSilent
<1>1. TypeInv /\ HookKept /\ TwinInv /\ SilentInv /\ [Next]_vars => SilentInv'
  BY OneCommand, CallsStep, TruthStep, ToldStep DEF SilentInv
<1>2. TypeInv /\ SilentInv => NothingSilent
  <2> SUFFICES ASSUME TypeInv, SilentInv, Undisturbed, ~midEdit, \A c \in Calls : call[c] \in {"new", "over"}
               PROVE  told.holds = disk
    BY DEF NothingSilent
  <2>1. hook.of \notin Calls
    BY DEF TypeInv, TypeOK
  <2>2. ~WillTell
    BY <2>1 DEF WillTell, LastWrote, Calls
  <2> QED BY <2>2 DEF SilentInv, ToldInv, Quiet
<1> QED BY <1>1, <1>2, InitSilentInv, Twins, PTL DEF Spec

=============================================================================
