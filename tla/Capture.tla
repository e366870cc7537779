------------------------------- MODULE Capture -------------------------------
(***************************************************************************)
(* How an agent's tool calls become edits in the log (packages/core/src/   *)
(* capture.ts over the staging, blobs and collector of store.ts).  A hook  *)
(* process before each call keeps what the file holds; one after it diffs  *)
(* and appends.  Edit tools stage one file; a Bash command snapshots its   *)
(* tree, and everything in the tree that differs afterwards is an edit.    *)
(* Calls overlap: commands run in the background, subagents share the      *)
(* session.  Hooks exclude each other by the capture mutex (LockFile), and *)
(* the collector only where they hold the session lock: each such hold is  *)
(* one step here.                                                          *)
(*                                                                         *)
(* One file, which every command's tree holds; a blob is the content it    *)
(* stores.  Reviewers clear edits here and do not undo them (FileReview).  *)
(***************************************************************************)
EXTENDS Naturals, FiniteSets

CONSTANTS
  Edits,        \* calls of edit tools
  Commands,     \* Bash calls
  Contents,     \* what the file may hold
  Absent,       \* the file is not there
  None,         \* no call, no snapshot
  MaxVersions,  \* bound: writes to the file
  MaxCrashes,   \* bound: hooks that die at work
  Deletes       \* whether commands delete the file

ASSUME CaptureAssumption ==
  /\ Edits \cap Commands = {}
  /\ None \notin Edits \cup Commands
  /\ Absent \notin Contents
  /\ None \notin Contents \cup {Absent} \cup (0 .. MaxVersions)
  /\ MaxVersions \in Nat
  /\ MaxCrashes \in Nat
  /\ Deletes \in BOOLEAN

Calls == Edits \cup Commands

VARIABLES
  disk,      \* what the file holds
  version,   \* its stat key: the writes so far
  call,      \* where each call is
  saw,       \* the version each edit call was asked at
  staged,    \* the snapshot staged for each edit call
  manifest,  \* what each command's snapshot says of the file, or None
  lease,     \* the blobs each command's Post keeps from the collector
  cache,     \* the version the stat cache knows the blob of, or None
  blobs,
  log,       \* the edits, numbered in their order
  appended,  \* edits ever appended
  hook,      \* the hook process at work after a call, holding the capture mutex
  told,      \* what the newest edit says the file holds, and the version it saw (not in the program)
  midEdit,   \* a command was asked between an edit call and its Post (not in the program)
  missed,    \* calls reported as not captured
  crashes

vars == <<disk, version, call, saw, staged, manifest, lease, cache, blobs, log, appended, hook, told,
          midEdit, missed, crashes>>

-----------------------------------------------------------------------------

Snapshots == Contents \cup {Absent}
Blob(c) == {c} \ {Absent}

Unstaged == [before |-> None, after |-> None, ambiguous |-> FALSE, at |-> 0]
NoHook == [of |-> None, step |-> "none", before |-> None, after |-> None, ambiguous |-> FALSE, at |-> 0,
           blobs |-> {}, version |-> 0, recorded |-> FALSE, cache |-> None]

Init ==
  /\ disk \in Snapshots
  /\ version = 0
  /\ call = [c \in Calls |-> "new"]
  /\ saw = [c \in Edits |-> 0]
  /\ staged = [c \in Edits |-> Unstaged]
  /\ manifest = [c \in Commands |-> None]
  /\ lease = [c \in Commands |-> {}]
  /\ cache = None
  /\ blobs = {}
  /\ log = {}
  /\ appended = 0
  /\ hook = NoHook
  /\ told = [holds |-> disk, version |-> 0]
  /\ midEdit = FALSE
  /\ missed = {}
  /\ crashes = 0

To(c, where) == call' = [call EXCEPT ![c] = where]
Store == <<staged, manifest, lease, cache, blobs, log, appended, told, midEdit>>
File == <<disk, version>>

-----------------------------------------------------------------------------
(* Before the call: handlePre and handlePreBash, under the session lock.   *)

Asked(c) == saw' = IF c \in Edits THEN [saw EXCEPT ![c] = version] ELSE saw

Overlapping(c) == {d \in Edits \ {c} : staged[d] # Unstaged}

\* An edit call that finds another one staged for the file makes both ambiguous.
PreEdit(c) ==
  /\ call[c] = "new"
  /\ c \in Edits
  /\ hook = NoHook
  /\ blobs' = blobs \cup Blob(disk)
  /\ staged' = [d \in Edits |->
       IF d = c THEN [before |-> disk, after |-> None, ambiguous |-> Overlapping(c) # {}, at |-> appended]
       ELSE IF d \in Overlapping(c) THEN [staged[d] EXCEPT !.ambiguous = TRUE]
       ELSE staged[d]]
  /\ Asked(c)
  /\ To(c, "open")
  /\ UNCHANGED <<File, manifest, lease, cache, log, appended, hook, told, midEdit, missed, crashes>>

\* cachedSnapshotHash: with the stat unchanged and the blob among `present` the file is not read, unless
\* its time is too close to the cache's.
Hashed(present) ==
  \/ blobs' = blobs \cup Blob(disk)
  \/ disk # Absent /\ cache = version /\ disk \in present /\ UNCHANGED blobs

\* What a complete walk leaves in the stat cache.
Cached == IF disk = Absent THEN None ELSE version

PreBash(c) ==
  /\ call[c] = "new"
  /\ c \in Commands
  /\ hook = NoHook
  /\ Hashed(blobs)
  /\ cache' = Cached
  /\ manifest' = [manifest EXCEPT ![c] = disk]
  /\ midEdit' = (midEdit \/ \E e \in Edits : call[e] = "ran")
  /\ To(c, "open")
  /\ UNCHANGED <<File, saw, staged, lease, log, appended, hook, told, missed, crashes>>

\* The mutex or the store stayed busy: a marker, and the call goes on uncaptured.
PreMissed(c) ==
  /\ call[c] = "new"
  /\ missed' = missed \cup {c}
  /\ Asked(c)
  /\ To(c, "open")
  /\ UNCHANGED <<File, Store, hook, crashes>>

\* What the hook had kept stays, and nothing names it.
PreCrash(c) ==
  /\ call[c] = "new"
  /\ hook = NoHook
  /\ crashes < MaxCrashes
  /\ crashes' = crashes + 1
  /\ \/ UNCHANGED <<blobs, cache>>
     \/ blobs' = blobs \cup Blob(disk) /\ cache' \in {cache} \cup {Cached : d \in Commands \cap {c}}
  /\ Asked(c)
  /\ To(c, "open")
  /\ UNCHANGED <<File, staged, manifest, lease, log, appended, hook, told, midEdit, missed>>

-----------------------------------------------------------------------------
(* The tools.                                                              *)

Put(content) ==
  /\ version < MaxVersions
  /\ content # disk
  /\ disk' = content
  /\ version' = version + 1

\* "it validates before it writes": an edit tool refuses a file that has changed since it was asked.
RunEdit(c) ==
  /\ call[c] = "open"
  /\ c \in Edits
  /\ saw[c] = version
  /\ \E x \in Contents : Put(x)
  /\ To(c, "ran")
  /\ UNCHANGED <<Store, saw, hook, missed, crashes>>

FailEdit(c) ==
  /\ call[c] = "open"
  /\ c \in Edits
  /\ To(c, "failed")
  /\ UNCHANGED <<File, Store, saw, hook, missed, crashes>>

RunCommand(c) ==
  /\ call[c] \in {"open", "running"}
  /\ c \in Commands
  /\ \E x \in IF Deletes THEN Snapshots ELSE Contents : Put(x)
  /\ To(c, "running")
  /\ UNCHANGED <<Store, saw, hook, missed, crashes>>

EndCommand(c) ==
  /\ call[c] \in {"open", "running"}
  /\ c \in Commands
  /\ To(c, "ran")
  /\ UNCHANGED <<File, Store, saw, hook, missed, crashes>>

\* The permission was refused: no hook runs after the call.
Denied(c) ==
  /\ call[c] = "open"
  /\ To(c, "over")
  /\ UNCHANGED <<File, Store, saw, hook, missed, crashes>>

-----------------------------------------------------------------------------
(* After an edit call: handlePost.                                         *)

At(c, step) == hook.of = c /\ hook.step = step

\* Mutant of Over: a hook that returns keeps the capture mutex.
OverHolding(c) == To(c, "over") /\ UNCHANGED hook

\* The capture mutex is released however the hook returns.
Over(c) == hook' = NoHook /\ To(c, "over")

\* The staging record and the file are read, without the session lock.
PostEdit(c) ==
  /\ call[c] = "ran"
  /\ c \in Edits
  /\ hook = NoHook
  /\ staged[c] # Unstaged
  /\ hook' = [NoHook EXCEPT !.of = c, !.step = "publish", !.before = staged[c].before, !.after = disk,
                            !.ambiguous = staged[c].ambiguous, !.at = staged[c].at, !.version = version]
  /\ UNCHANGED <<File, Store, call, saw, missed, crashes>>

\* No before-snapshot: a marker.
PostUnstaged(c) ==
  /\ call[c] = "ran"
  /\ c \in Edits
  /\ hook = NoHook
  /\ staged[c] = Unstaged
  /\ missed' = missed \cup {c}
  /\ To(c, "over")
  /\ UNCHANGED <<File, Store, saw, hook, crashes>>

\* Mutant of Publish: the after-blob is not published on the staging record.
PublishUnstaged(c) ==
  /\ At(c, "publish")
  /\ blobs' = blobs \cup Blob(hook.after)
  /\ hook' = [hook EXCEPT !.step = "decide"]
  /\ UNCHANGED <<File, staged, manifest, lease, cache, log, appended, told, call, saw, midEdit, missed, crashes>>

\* Under the session lock: the after-blob, and the staging record that keeps it from the collector.
Publish(c) ==
  /\ At(c, "publish")
  /\ blobs' = blobs \cup Blob(hook.after)
  /\ staged' = [staged EXCEPT ![c].after = hook.after]
  /\ hook' = [hook EXCEPT !.step = "decide"]
  /\ UNCHANGED <<File, manifest, lease, cache, log, appended, told, call, saw, midEdit, missed, crashes>>

Newest(edits) == CHOOSE r \in edits : \A s \in edits : s.n <= r.n

\* A command's Post has recorded the end state since the call was asked.
AlreadyRecorded == log # {} /\ Newest(log).after = hook.after /\ Newest(log).n > hook.at

Decline(c) ==
  /\ At(c, "decide")
  /\ hook.before = hook.after \/ AlreadyRecorded
  /\ staged' = [staged EXCEPT ![c] = Unstaged]
  /\ Over(c)
  /\ UNCHANGED <<File, manifest, lease, cache, blobs, log, appended, told, saw, midEdit, missed, crashes>>

Decide(c) ==
  /\ At(c, "decide")
  /\ hook.before # hook.after
  /\ ~AlreadyRecorded
  /\ hook' = [hook EXCEPT !.step = "record"]
  /\ UNCHANGED <<File, Store, call, saw, missed, crashes>>

\* appendLog.
Record(c) ==
  /\ At(c, "record")
  /\ appended' = appended + 1
  /\ log' = log \cup {[n |-> appended + 1, before |-> hook.before, after |-> hook.after, partial |-> hook.ambiguous]}
  /\ told' = [holds |-> hook.after, version |-> hook.version]
  /\ hook' = [hook EXCEPT !.step = IF c \in Edits THEN "advance" ELSE "save", !.recorded = TRUE]
  /\ UNCHANGED <<File, staged, manifest, lease, cache, blobs, call, saw, midEdit, missed, crashes>>

\* Mutant of Advanced: pending snapshots stay where they are.
AdvancedNever(after) == manifest

\* advancePendingManifests: every snapshot still pending moves past what was recorded.
Advanced(after) == [d \in Commands |-> IF manifest[d] = None THEN None ELSE after]

Advance(c) ==
  /\ At(c, "advance")
  /\ manifest' = Advanced(hook.after)
  /\ hook' = [hook EXCEPT !.step = "finish"]
  /\ UNCHANGED <<File, staged, lease, cache, blobs, log, appended, told, call, saw, midEdit, missed, crashes>>

FinishEdit(c) ==
  /\ At(c, "finish")
  /\ c \in Edits
  /\ staged' = [staged EXCEPT ![c] = Unstaged]
  /\ Over(c)
  /\ UNCHANGED <<File, manifest, lease, cache, blobs, log, appended, told, saw, midEdit, missed, crashes>>

\* PostToolUseFailure: a failed edit tool wrote nothing, whatever the file holds by now.
DiscardPre(c) ==
  /\ call[c] = "failed"
  /\ hook = NoHook
  /\ staged' = [staged EXCEPT ![c] = Unstaged]
  /\ To(c, "over")
  /\ UNCHANGED <<File, manifest, lease, cache, blobs, log, appended, told, saw, midEdit, hook, missed, crashes>>

-----------------------------------------------------------------------------
(* After a command: handlePostBash.                                        *)

\* The command's own snapshot becomes a lease.
Claim(c) ==
  /\ call[c] = "ran"
  /\ c \in Commands
  /\ hook = NoHook
  /\ manifest[c] # None
  /\ hook' = [NoHook EXCEPT !.of = c, !.step = "look", !.before = manifest[c]]
  /\ manifest' = [manifest EXCEPT ![c] = None]
  /\ lease' = [lease EXCEPT ![c] = Blob(manifest[c])]
  /\ UNCHANGED <<File, staged, cache, blobs, log, appended, told, call, saw, midEdit, missed, crashes>>

\* No snapshot: whoever refused it has said so.
PostUnclaimed(c) ==
  /\ call[c] = "ran"
  /\ c \in Commands
  /\ hook = NoHook
  /\ manifest[c] = None
  /\ To(c, "over")
  /\ UNCHANGED <<File, Store, saw, hook, missed, crashes>>

\* The stat cache and the names of the blobs present are read without the session lock.
Look(c) ==
  /\ At(c, "look")
  /\ hook' = [hook EXCEPT !.step = "walk", !.blobs = blobs]
  /\ UNCHANGED <<File, Store, call, saw, missed, crashes>>

\* The walk, with a lease for what has changed, in one hold of the session lock.
Walk(c) ==
  /\ At(c, "walk")
  /\ Hashed(hook.blobs)
  /\ lease' = [lease EXCEPT ![c] = IF disk = hook.before THEN @ ELSE @ \cup Blob(disk)]
  /\ hook' = [hook EXCEPT !.after = disk, !.version = version, !.blobs = {}, !.cache = Cached,
                          !.step = CASE disk = hook.before -> "save"
                                     [] disk # hook.before /\ disk = Absent -> "recheck"
                                     [] OTHER -> "record"]
  /\ UNCHANGED <<File, staged, manifest, cache, log, appended, told, call, saw, midEdit, missed, crashes>>

\* A file the walk did not meet is looked for once more; one that is there is no deletion.
Recheck(c) ==
  /\ At(c, "recheck")
  /\ hook' = [hook EXCEPT !.step = IF disk = Absent THEN "record" ELSE "save"]
  /\ UNCHANGED <<File, Store, call, saw, missed, crashes>>

\* writeBashStatCache, once the edits are appended.
SaveCache(c) ==
  /\ At(c, "save")
  /\ cache' = hook.cache
  /\ hook' = [hook EXCEPT !.step = IF hook.recorded THEN "advance" ELSE "finish"]
  /\ UNCHANGED <<File, staged, manifest, lease, blobs, log, appended, told, call, saw, midEdit, missed, crashes>>

\* The finally.
FinishBash(c) ==
  /\ At(c, "finish")
  /\ c \in Commands
  /\ lease' = [lease EXCEPT ![c] = {}]
  /\ Over(c)
  /\ UNCHANGED <<File, staged, manifest, cache, blobs, log, appended, told, saw, midEdit, missed, crashes>>

-----------------------------------------------------------------------------
(* What may befall a hook, and who else is at the store.                   *)

Locked == {"publish", "walk", "record", "advance"}

\* StoreBusyError from the session lock: a marker; the finally of a command's Post still runs.
PostBusy(c) ==
  /\ hook.of = c
  /\ hook.step \in Locked
  /\ missed' = missed \cup {c}
  /\ lease' = IF c \in Commands THEN [lease EXCEPT ![c] = {}] ELSE lease
  /\ Over(c)
  /\ UNCHANGED <<File, staged, manifest, cache, blobs, log, appended, told, saw, midEdit, crashes>>

\* The capture mutex, or the session lock at the first step, stayed busy: a marker.
PostMissed(c) ==
  /\ call[c] \in {"ran", "failed"}
  /\ hook.of # c
  /\ missed' = missed \cup {c}
  /\ To(c, "over")
  /\ UNCHANGED <<File, Store, saw, hook, crashes>>

PostCrash(c) ==
  /\ hook.of = c
  /\ crashes < MaxCrashes
  /\ crashes' = crashes + 1
  /\ Over(c)
  /\ UNCHANGED <<File, Store, saw, missed>>

\* The end of a turn, which no edit call outlives: what is still staged was abandoned.
Stop ==
  /\ hook = NoHook
  /\ \A c \in Edits : call[c] \in {"new", "over"}
  /\ \E c \in Edits : staged[c] # Unstaged
  /\ staged' = [c \in Edits |-> Unstaged]
  /\ UNCHANGED <<File, manifest, lease, cache, blobs, log, appended, told, call, saw, midEdit, hook, missed, crashes>>

\* Mutant of Dead: the age reaped at is below what a command may take.
DeadEarly == {D \in SUBSET Commands : D # {} => hook = NoHook}

\* Leases and snapshots of calls that are over, reaped after a day: no hook is at work that long.
Dead == {D \in SUBSET {c \in Commands : call[c] = "over"} : D # {} => hook = NoHook}

Referenced(edits, leases, pending) ==
  (UNION {Blob(r.before) \cup Blob(r.after) : r \in edits})
    \cup (UNION {{staged[c].before, staged[c].after} : c \in Edits})
    \cup (UNION {leases[c] : c \in Commands})
    \cup {pending[c] : c \in Commands}

\* gcSession, and clearResolved when it drops resolved edits first: one hold of the session lock.
Collect ==
  \E resolved \in SUBSET log, dead \in Dead :
    LET edits == log \ resolved
        leases == [c \in Commands |-> IF c \in dead THEN {} ELSE lease[c]]
        pending == [c \in Commands |-> IF c \in dead THEN None ELSE manifest[c]]
    IN  /\ log' = edits
        /\ lease' = leases
        /\ manifest' = pending
        /\ blobs' = blobs \cap Referenced(edits, leases, pending)
        /\ UNCHANGED <<File, staged, cache, appended, told, call, saw, midEdit, hook, missed, crashes>>

-----------------------------------------------------------------------------

Next ==
  \/ \E c \in Calls :
       \/ PreEdit(c) \/ PreBash(c) \/ PreMissed(c) \/ PreCrash(c)
       \/ RunEdit(c) \/ FailEdit(c) \/ RunCommand(c) \/ EndCommand(c) \/ Denied(c)
       \/ PostEdit(c) \/ PostUnstaged(c) \/ Publish(c) \/ Decline(c) \/ Decide(c) \/ FinishEdit(c) \/ DiscardPre(c)
       \/ Claim(c) \/ PostUnclaimed(c) \/ Look(c) \/ Walk(c) \/ Recheck(c) \/ SaveCache(c) \/ FinishBash(c)
       \/ Record(c) \/ Advance(c)
       \/ PostBusy(c) \/ PostMissed(c) \/ PostCrash(c)
  \/ Stop
  \/ Collect

Spec == Init /\ [][Next]_vars

-----------------------------------------------------------------------------
(* Properties.                                                             *)

TypeOK ==
  /\ disk \in Snapshots
  /\ version \in 0 .. MaxVersions
  /\ call \in [Calls -> {"new", "open", "running", "ran", "failed", "over"}]
  /\ saw \in [Edits -> 0 .. MaxVersions]
  /\ staged \in [Edits -> [before : Snapshots \cup {None}, after : Snapshots \cup {None},
                           ambiguous : BOOLEAN, at : Nat]]
  /\ manifest \in [Commands -> Snapshots \cup {None}]
  /\ lease \in [Commands -> SUBSET Contents]
  /\ cache \in (0 .. MaxVersions) \cup {None}
  /\ blobs \subseteq Contents
  /\ appended \in Nat
  /\ \A r \in log : r.n \in 1 .. appended /\ r.before \in Snapshots /\ r.after \in Snapshots /\ r.before # r.after
  /\ hook.of \in Calls => call[hook.of] = "ran"
  /\ told \in [holds : Snapshots, version : 0 .. MaxVersions]
  /\ midEdit \in BOOLEAN
  /\ missed \subseteq Calls
  /\ crashes \in 0 .. MaxCrashes

\* Both sides of every edit in the log can be read, whenever the collector ran between a hook's steps
\* ("so a concurrent GC cannot collect an after-blob before its record lands", handlePostBash, and
\* "leaving a committed edit pointing at a missing blob", handlePost).
RecordedBlobsExist ==
  \A r \in log : Blob(r.before) \cup Blob(r.after) \subseteq blobs

\* Every hook has done its work, or left a marker.
Undisturbed == missed = {} /\ crashes = 0

\* An edit that is not marked partial starts from what the log last said of the file, so that no write lies
\* between two edits that the log does not tell of ("appending the narrower one would break the file's
\* chain", handlePost).
ChainUnbroken ==
  [][Undisturbed /\ ~midEdit /\ appended' # appended /\ ~Newest(log').partial => Newest(log').before = told.holds]_vars

\* Overlapping calls that see the same write of the file append it once, while the edit that tells of it is
\* in the log ("two rows, byte-identical", handlePost; "the same edit twice", advancePendingManifests).
NoTwins ==
  [][Undisturbed /\ appended' # appended /\ log # {} /\ Newest(log).n = appended => told'.version > told.version]_vars

\* Once every call is over the log tells what the file holds, or a marker says it does not ("exactly the
\* silent miss this store refuses to ship", handlePostBash), as long as there is one command and its
\* snapshot is not taken between an edit call's write and its Post.
NothingSilent ==
  Undisturbed /\ ~midEdit /\ (\A c \in Calls : call[c] \in {"new", "over"}) => told.holds = disk

=============================================================================
