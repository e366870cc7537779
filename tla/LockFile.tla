------------------------------ MODULE LockFile ------------------------------
(***************************************************************************)
(* The advisory lock file every mutation of the session store and of a     *)
(* user's file is made under (packages/core/src/store.ts: takeLockFile,    *)
(* staleLock, breakStaleLock, releaseLockFile).  One lock path and its     *)
(* `.break`, `.break.1`, ... claim files, shared by independent processes  *)
(* (hooks, the CLI, the TUI, the editors) that may die at any step and     *)
(* whose pids may be reused.                                               *)
(*                                                                         *)
(* Every file-system call is a step of its own.  A file's identity is its  *)
(* inode and mtime: the mtime changes only when the token is written, so   *)
(* the pair [file, by] stands for it.  Ages are what staleLock computes,   *)
(* the smaller of the wall-clock and the monotonic age, cut at its two     *)
(* horizons.  A uuid token is never written twice, so "holds my token" is  *)
(* "was written by me": only a process's present life still compares one.  *)
(***************************************************************************)
EXTENDS Naturals

CONSTANTS
  Procs,       \* pids; Restart gives a dead process's pid to a new one
  Files,       \* identities of lock files (an identity nobody remembers may come back)
  Nobody,      \* the owner an empty file names
  NoFile,      \* the identity of a missing file
  MaxClaim,    \* bound: the last `.break.n` claim file
  MaxCrashes,  \* bound: crashes in a behaviour
  Pauses       \* where a LIVE process may be stopped past a horizon: see Tick

ASSUME LockAssumption ==
  /\ Nobody \notin Procs
  /\ NoFile \notin Files
  /\ MaxClaim \in Nat
  /\ MaxCrashes \in 0 .. MaxClaim   \* enough claims: only a crash leaves one behind
  /\ Pauses \subseteq {"take", "hold", "break"}

VARIABLES
  pc,       \* the step each process is about to take
  mine,     \* the inode a process has created as the lock
  judged,   \* the stat a waiter took of the lock it is judging or breaking
  at,       \* the claim number a breaker is at
  seen,     \* the stat a breaker took of a claim in its way
  lock,     \* the lock file
  claim,    \* the claim files
  crashes

vars == <<pc, mine, judged, at, seen, lock, claim, crashes>>

-----------------------------------------------------------------------------

\* Ages, cut at LOCK_STALE_MS and LOCK_ABANDONED_MS.
Young == 0
Stale == 1
Abandoned == 2
Ages == {Young, Stale, Abandoned}

Gone == [file |-> NoFile, by |-> Nobody, age |-> Young]
Unclaimed == [by |-> Nobody, age |-> Young]

LockFiles == [file : Files \cup {NoFile}, by : Procs \cup {Nobody}, age : Ages]
ClaimFiles == [by : Procs \cup {Nobody}, age : Ages]
Claims == 0 .. MaxClaim

Taken == {"write", "in", "release", "unlock"}           \* created the lock, not yet given it up
Breaking == {"check", "unlink", "yield", "retire"}      \* created a claim, not yet removed it
Judging == {"claim", "judge"} \cup Breaking             \* inside breakStaleLock
Steps == {"dead", "idle", "create", "stat", "read", "retry"} \cup Judging \cup Taken

IsTaker(p) == pc[p] \in Taken /\ mine[p] = lock.file
IsBreaker(p, n) == pc[p] \in Breaking /\ at[p] = n

SameFile(a, b) == a.file = b.file /\ a.by = b.by

\* Mutant of Answers: EPERM (another user's live process) taken for a dead owner.
AnswersNever(q) == FALSE

\* kill(pid, 0): an empty or garbage file names no pid.
Answers(q) == q # Nobody /\ pc[q] # "dead"

\* Mutants of Breakable: the pid is not asked; a pid that answers is trusted for ever.
BreakableByAge(age, owner) == age # Young
BreakableDeadOnly(age, owner) == age # Young /\ ~Answers(owner)

Breakable(age, owner) == (age # Young /\ ~Answers(owner)) \/ age = Abandoned

\* staleLock is a stat and then a read of the path: `st` is what the stat saw, `there` whether a
\* file is still there at the read, `now` that file.  A missing one has no pid and no stamp.
Verdict(st, there, same, now) ==
  IF ~there THEN Breakable(st.age, Nobody)
  ELSE IF same THEN Breakable(now.age, now.by)
  ELSE Breakable(IF now.by # Nobody /\ now.age < st.age THEN now.age ELSE st.age, now.by)

TypeOK ==
  /\ pc \in [Procs -> Steps]
  /\ mine \in [Procs -> Files \cup {NoFile}]
  /\ judged \in [Procs -> LockFiles]
  /\ at \in [Procs -> Claims]
  /\ seen \in [Procs -> ClaimFiles]
  /\ lock \in LockFiles
  /\ claim \in [Claims -> ClaimFiles]
  /\ crashes \in 0 .. MaxCrashes

Init ==
  /\ pc = [p \in Procs |-> "idle"]
  /\ mine = [p \in Procs |-> NoFile]
  /\ judged = [p \in Procs |-> Gone]
  /\ at = [p \in Procs |-> 0]
  /\ seen = [p \in Procs |-> Unclaimed]
  /\ lock = Gone
  /\ claim = [n \in Claims |-> Unclaimed]
  /\ crashes = 0

Goto(p, step) == pc' = [pc EXCEPT ![p] = step]

-----------------------------------------------------------------------------
(* Taking the lock: the loop of takeLockFile.                              *)

Start(p) ==
  /\ pc[p] = "idle"
  /\ Goto(p, "create")
  /\ UNCHANGED <<mine, judged, at, seen, lock, claim, crashes>>

\* open(p, 'wx') makes an EMPTY file that no other process remembers.
Create(p) ==
  /\ pc[p] = "create"
  /\ lock.file = NoFile
  /\ \E f \in Files :
       /\ \A q \in Procs : mine[q] # f /\ judged[q].file # f
       /\ lock' = [file |-> f, by |-> Nobody, age |-> Young]
       /\ mine' = [mine EXCEPT ![p] = f]
  /\ Goto(p, "write")
  /\ UNCHANGED <<judged, at, seen, claim, crashes>>

CreateFails(p) ==
  /\ pc[p] = "create"
  /\ lock.file # NoFile
  /\ Goto(p, "stat")
  /\ UNCHANGED <<mine, judged, at, seen, lock, claim, crashes>>

\* The token goes to the open file, which may be the lock no longer.
Write(p) ==
  /\ pc[p] = "write"
  /\ lock' = IF lock.file = mine[p] THEN [lock EXCEPT !.by = p, !.age = Young] ELSE lock
  /\ Goto(p, "in")
  /\ UNCHANGED <<mine, judged, at, seen, claim, crashes>>

\* A write that throws (a full disk) unlinks the path and gives up.
WriteFails(p) ==
  /\ pc[p] = "write"
  /\ lock' = Gone
  /\ Goto(p, "idle")
  /\ mine' = [mine EXCEPT ![p] = NoFile]
  /\ UNCHANGED <<judged, at, seen, claim, crashes>>

Stat(p) ==
  /\ pc[p] = "stat"
  /\ IF lock.file = NoFile
     THEN Goto(p, "retry") /\ UNCHANGED judged
     ELSE Goto(p, "read") /\ judged' = [judged EXCEPT ![p] = lock]
  /\ UNCHANGED <<mine, at, seen, lock, claim, crashes>>

\* Mutant of Read: a lock that is not stale is tried again without the deadline test.
ReadAndSpin(p) ==
  /\ pc[p] = "read"
  /\ IF Verdict(judged[p], lock.file # NoFile, SameFile(lock, judged[p]), lock)
     THEN Goto(p, "claim") /\ UNCHANGED judged
     ELSE Goto(p, "create") /\ judged' = [judged EXCEPT ![p] = Gone]
  /\ UNCHANGED <<mine, at, seen, lock, claim, crashes>>

Read(p) ==
  /\ pc[p] = "read"
  /\ IF Verdict(judged[p], lock.file # NoFile, SameFile(lock, judged[p]), lock)
     THEN Goto(p, "claim") /\ UNCHANGED judged
     ELSE Goto(p, "retry") /\ judged' = [judged EXCEPT ![p] = Gone]
  /\ UNCHANGED <<mine, at, seen, lock, claim, crashes>>

\* The deadline test: sleep and try again, or report the store busy.
Retry(p) ==
  /\ pc[p] = "retry"
  /\ Goto(p, "create")
  /\ UNCHANGED <<mine, judged, at, seen, lock, claim, crashes>>

GiveUp(p) ==
  /\ pc[p] = "retry"
  /\ Goto(p, "idle")
  /\ UNCHANGED <<mine, judged, at, seen, lock, claim, crashes>>

-----------------------------------------------------------------------------
(* Breaking a stale lock: breakStaleLock, one claim at a time.             *)

\* `judged`, `at` and `seen` are local to the call, and go with it.
LeaveBreak(p, step) ==
  /\ Goto(p, step)
  /\ judged' = [judged EXCEPT ![p] = Gone]
  /\ at' = [at EXCEPT ![p] = 0]
  /\ seen' = [seen EXCEPT ![p] = Unclaimed]

\* Mutant of TakeClaim: the claim is written without O_EXCL.
TakeClaimShared(p) ==
  /\ pc[p] = "claim"
  /\ claim' = [claim EXCEPT ![at[p]] = [by |-> p, age |-> Young]]
  /\ Goto(p, "check")
  /\ UNCHANGED <<mine, judged, at, seen, lock, crashes>>

TakeClaim(p) ==
  /\ pc[p] = "claim"
  /\ claim[at[p]].by = Nobody
  /\ claim' = [claim EXCEPT ![at[p]] = [by |-> p, age |-> Young]]
  /\ Goto(p, "check")
  /\ UNCHANGED <<mine, judged, at, seen, lock, crashes>>

\* EEXIST, and the stat of the claim in the way.  One released between the two is 'gone', which
\* ends the attempt exactly as a live one does.
ClaimHeld(p) ==
  /\ pc[p] = "claim"
  /\ claim[at[p]].by # Nobody
  /\ seen' = [seen EXCEPT ![p] = claim[at[p]]]
  /\ Goto(p, "judge")
  /\ UNCHANGED <<mine, judged, at, lock, claim, crashes>>

ClaimVerdict(p) ==
  LET now == claim[at[p]]
  IN  Verdict(seen[p], now.by # Nobody, now.by = seen[p].by, now)

\* Mutant of NextClaim: the claim that the stat judged stale is removed and its name reused (the code's rule until 2026-09-27, per the comment on breakStaleLock).
RemoveStaleClaim(p) ==
  /\ pc[p] = "judge"
  /\ Breakable(seen[p].age, seen[p].by)
  /\ claim' = [claim EXCEPT ![at[p]] = Unclaimed]
  /\ seen' = [seen EXCEPT ![p] = Unclaimed]
  /\ Goto(p, "claim")
  /\ UNCHANGED <<mine, judged, at, lock, crashes>>

\* Its breaker died holding it: go on to the next claim.
NextClaim(p) ==
  /\ pc[p] = "judge"
  /\ ClaimVerdict(p)
  /\ at[p] < MaxClaim
  /\ at' = [at EXCEPT ![p] = @ + 1]
  /\ seen' = [seen EXCEPT ![p] = Unclaimed]
  /\ Goto(p, "claim")
  /\ UNCHANGED <<mine, judged, lock, claim, crashes>>

\* Another waiter is breaking the lock.
ClaimBusy(p) ==
  /\ pc[p] = "judge"
  /\ ~ClaimVerdict(p)
  /\ LeaveBreak(p, "retry")
  /\ UNCHANGED <<mine, lock, claim, crashes>>

\* Mutant of Check: the judged lock is removed without looking at it again.
CheckNothing(p) ==
  /\ pc[p] = "check"
  /\ Goto(p, "unlink")
  /\ UNCHANGED <<mine, judged, at, seen, lock, claim, crashes>>

\* Under the claim: is the lock still the file that was judged?
Check(p) ==
  /\ pc[p] = "check"
  /\ Goto(p, CASE lock.file = NoFile -> "retire"
               [] lock.file # NoFile /\ ~SameFile(lock, judged[p]) -> "yield"
               [] OTHER -> "unlink")
  /\ UNCHANGED <<mine, judged, at, seen, lock, claim, crashes>>

\* unlink(p) removes whatever is at the path by now.
Unlink(p) ==
  /\ pc[p] = "unlink"
  /\ lock' = Gone
  /\ Goto(p, "retire")
  /\ UNCHANGED <<mine, judged, at, seen, claim, crashes>>

\* The finally: remove one's own claim, then create again at once, or wait.
DropClaim(p) ==
  /\ pc[p] \in {"yield", "retire"}
  /\ claim' = IF claim[at[p]].by = p THEN [claim EXCEPT ![at[p]] = Unclaimed] ELSE claim
  /\ LeaveBreak(p, IF pc[p] = "retire" THEN "create" ELSE "retry")
  /\ UNCHANGED <<mine, lock, crashes>>

-----------------------------------------------------------------------------
(* The locked section and the release, a read and then an unlink.          *)

Leave(p) ==
  /\ pc[p] = "in"
  /\ Goto(p, "release")
  /\ UNCHANGED <<mine, judged, at, seen, lock, claim, crashes>>

Compare(p) ==
  /\ pc[p] = "release"
  /\ IF lock.by = p
     THEN Goto(p, "unlock") /\ UNCHANGED mine
     ELSE Goto(p, "idle") /\ mine' = [mine EXCEPT ![p] = NoFile]
  /\ UNCHANGED <<judged, at, seen, lock, claim, crashes>>

Unlock(p) ==
  /\ pc[p] = "unlock"
  /\ lock' = Gone
  /\ Goto(p, "idle")
  /\ mine' = [mine EXCEPT ![p] = NoFile]
  /\ UNCHANGED <<judged, at, seen, claim, crashes>>

-----------------------------------------------------------------------------
(* Processes die and their pids are reused; time passes.                   *)

Crash(p) ==
  /\ pc[p] \notin {"dead", "idle"}
  /\ crashes < MaxCrashes
  /\ crashes' = crashes + 1
  /\ LeaveBreak(p, "dead")
  /\ mine' = [mine EXCEPT ![p] = NoFile]
  /\ UNCHANGED <<lock, claim>>

Restart(p) ==
  /\ pc[p] = "dead"
  /\ Goto(p, "idle")
  /\ UNCHANGED <<mine, judged, at, seen, lock, claim, crashes>>

\* A live process passes a horizon only where Pauses lets it: "take", LOCK_STALE_MS between creating
\* the lock and writing its token; "hold", LOCK_ABANDONED_MS with the lock or a claim; "break",
\* LOCK_STALE_MS with a claim.  A holder whose pid answers may always pass LOCK_STALE_MS.
TickLock ==
  /\ lock.file # NoFile
  /\ lock.age # Abandoned
  /\ lock.age = Young /\ "take" \notin Pauses => \A p \in Procs : IsTaker(p) => pc[p] # "write"
  /\ lock.age = Stale /\ "hold" \notin Pauses => \A p \in Procs : ~IsTaker(p)
  /\ lock' = [lock EXCEPT !.age = @ + 1]
  /\ UNCHANGED <<pc, mine, judged, at, seen, claim, crashes>>

TickClaim(n) ==
  /\ claim[n].by # Nobody
  /\ claim[n].age # Abandoned
  /\ claim[n].age = Young /\ "break" \notin Pauses => \A p \in Procs : ~IsBreaker(p, n)
  /\ claim[n].age = Stale /\ "hold" \notin Pauses => \A p \in Procs : ~IsBreaker(p, n)
  /\ claim' = [claim EXCEPT ![n].age = @ + 1]
  /\ UNCHANGED <<pc, mine, judged, at, seen, lock, crashes>>

-----------------------------------------------------------------------------

\* What a process does once it is called; Start, Crash and Restart are its environment's.
Step(p) ==
  \/ Create(p) \/ CreateFails(p) \/ Write(p) \/ WriteFails(p)
  \/ Stat(p) \/ Read(p) \/ Retry(p) \/ GiveUp(p)
  \/ TakeClaim(p) \/ ClaimHeld(p) \/ NextClaim(p) \/ ClaimBusy(p)
  \/ Check(p) \/ Unlink(p) \/ DropClaim(p)
  \/ Leave(p) \/ Compare(p) \/ Unlock(p)

Tick == TickLock \/ \E n \in Claims : TickClaim(n)

Next ==
  \/ \E p \in Procs : Step(p) \/ Start(p) \/ Crash(p) \/ Restart(p)
  \/ Tick

Spec == Init /\ [][Next]_vars

\* The scheduler runs every live process, time passes, and a wait that keeps reaching its deadline
\* test sees the deadline pass at last.
Fairness ==
  /\ \A p \in Procs : WF_vars(Step(p)) /\ SF_vars(GiveUp(p))
  /\ WF_vars(TickLock)
  /\ \A n \in Claims : WF_vars(TickClaim(n))

\* Agents keep calling tools, so there is always another process to want the lock.
Demand == \A p \in Procs : WF_vars(Start(p)) /\ WF_vars(Restart(p))

FairSpec == Spec /\ Fairness
DemandSpec == FairSpec /\ Demand

-----------------------------------------------------------------------------
(* Why it is safe: the parts of the inductive invariant.                   *)

\* A taker's file is at the path, empty until it has written its token.
TakerInv ==
  \A p \in Procs : pc[p] \in Taken =>
    /\ mine[p] # NoFile
    /\ lock.file = mine[p]
    /\ lock.by = IF pc[p] = "write" THEN Nobody ELSE p

\* Taking needs a missing file, so a taker shuts every other out.
OneTaker ==
  \A p, q \in Procs : pc[p] \in Taken /\ pc[q] \in Taken => p = q

\* Only what nobody works under gets old, but for a holder whose pid answers.
LockAgeInv ==
  /\ lock.age # Young => \A p \in Procs : IsTaker(p) => pc[p] # "write"
  /\ lock.age = Abandoned => \A p \in Procs : ~IsTaker(p)

ClaimAgeInv ==
  \A n \in Claims : claim[n].age # Young => \A p \in Procs : ~IsBreaker(p, n)

\* What a waiter has judged stale has no taker while it is still what was judged.
JudgedInv ==
  \A p \in Procs : pc[p] \in {"read"} \cup Judging =>
    /\ judged[p].file # NoFile
    /\ lock.file = judged[p].file /\ judged[p].by # Nobody => lock.by = judged[p].by
    /\ pc[p] # "read" /\ SameFile(lock, judged[p]) => \A q \in Procs : ~IsTaker(q)

\* A claim whose maker died: nobody will ever remove it.
Orphaned(n) == claim[n].by # Nobody /\ \A q \in Procs : ~IsBreaker(q, n)

\* A breaker has every claim before its own behind it for good.
ClaimInv ==
  \A p \in Procs :
    /\ pc[p] \notin Judging => at[p] = 0
    /\ pc[p] \in Breaking => claim[at[p]].by = p
    /\ pc[p] \in Judging => \A n \in Claims : n < at[p] => Orphaned(n)
    /\ pc[p] = "judge" /\ seen[p].age # Young => Orphaned(at[p])

UnlinkInv ==
  \A p \in Procs : pc[p] = "unlink" => lock.file # NoFile /\ SameFile(lock, judged[p])

IInv ==
  /\ TypeOK
  /\ TakerInv
  /\ OneTaker
  /\ LockAgeInv
  /\ ClaimAgeInv
  /\ JudgedInv
  /\ ClaimInv
  /\ UnlinkInv

-----------------------------------------------------------------------------
(* Properties.                                                             *)

\* No two processes run a withLock or withFileMutation action at once ("Run `fn` only while holding
\* the session lock"): two appends inside together compute the same record id.
MutualExclusion ==
  \A p, q \in Procs : pc[p] = "in" /\ pc[q] = "in" => p = q

\* A process inside still has its lock at the path, under its own token: nobody broke it meanwhile,
\* so no third process can come in before it leaves.
HolderKeepsLock ==
  \A p \in Procs : pc[p] \in {"in", "release", "unlock"} => lock.file = mine[p] /\ lock.by = p

\* "Remove the stale lock `judged` from `p`, and never a lock someone took since": the breaker's
\* unlink removes the very file it judged, or nothing.
BreaksOnlyJudged ==
  [][\A p \in Procs : Unlink(p) /\ lock.file # NoFile => SameFile(lock, judged[p])]_vars

\* No removal of the lock by anyone but its taker takes it from a live one: a fresh lock is never
\* stale by age, a live holder never by its pid.
NeverBreaksLive ==
  [][\A p \in Procs : Unlink(p) => \A q \in Procs : ~IsTaker(q)]_vars

\* At most one live process is between taking a claim and removing it, over the whole chain of
\* claims ("removals are serialized"): skipping a claim must mean that its maker is dead.
OneBreaker ==
  \A p, q \in Procs : pc[p] \in Breaking /\ pc[q] \in Breaking => p = q

\* A call that wants the lock comes back, whatever holders, breakers and claims are in its way: it
\* runs its section, reports the store busy or dies.  The hypothesis is needed.  A waiter whose break
\* finds the lock already gone retries without testing its deadline, so holders that each take longer
\* than LOCK_STALE_MS and release between its stat and its read can keep it waiting past its budget.
EveryCallReturns ==
  <>[](\A p \in Procs : IsTaker(p) => lock.age = Young) =>
    \A p \in Procs : pc[p] = "create" ~> pc[p] \in {"in", "idle", "dead"}

\* A lock whose taker is gone does not wedge the session for good, even when its pid answers again
\* and even when breakers died holding claims: it is broken at last.
DeadLockBroken ==
  \A f \in Files : (lock.file = f /\ \A p \in Procs : ~IsTaker(p)) ~> lock.file # f

\* The lock file gives its callers the exclusive section they are written for: nobody enters while
\* another is inside, at any interleaving of takers, breakers, crashes and pid reuses.
Section == INSTANCE ExclusiveSection WITH inside <- {p \in Procs : pc[p] = "in"}
ImplementsSection == Section!Spec

=============================================================================
