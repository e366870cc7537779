--------------------------- MODULE LockFileProofs ---------------------------
(***************************************************************************)
(* For any number of processes, crashes, pid reuses and claim files: if no *)
(* live process is stopped past a horizon where LockFile's Pauses would    *)
(* have to allow it, two processes never run a locked section at once, no  *)
(* live holder loses its lock and no breaker removes another lock than the *)
(* one it judged.                                                          *)
(***************************************************************************)
EXTENDS LockFile, TLAPS

USE LockAssumption DEF Young, Stale, Abandoned

\* The initial state satisfies every part of the invariant.
LEMMA InitIInv == Init => IInv
<1>1. 0 \in Claims
  BY DEF Claims
<1>2. ASSUME Init PROVE IInv
  BY <1>1, <1>2 DEF Init, IInv, TypeOK, TakerInv, OneTaker, LockAgeInv, ClaimAgeInv, JudgedInv, ClaimInv, UnlinkInv,
     Taken, Breaking, Judging, Steps, LockFiles, ClaimFiles, Claims, Ages, Gone, Unclaimed
<1> QED BY <1>2

\* Every step keeps every variable in its type.
LEMMA TypeStep == TypeOK /\ [Next]_vars => TypeOK'
<1> SUFFICES ASSUME TypeOK, [Next]_vars PROVE TypeOK'
  OBVIOUS
<1> USE DEF TypeOK, Steps, Taken, Breaking, Judging, LockFiles, ClaimFiles, Ages, Goto, Gone, Unclaimed
<1>1. ASSUME NEW p \in Procs, Start(p) PROVE TypeOK'
  BY <1>1 DEF Start
<1>2. ASSUME NEW p \in Procs, Create(p) PROVE TypeOK'
  BY <1>2 DEF Create
<1>3. ASSUME NEW p \in Procs, CreateFails(p) PROVE TypeOK'
  BY <1>3 DEF CreateFails
<1>4. ASSUME NEW p \in Procs, Write(p) PROVE TypeOK'
  BY <1>4 DEF Write
<1>5. ASSUME NEW p \in Procs, WriteFails(p) PROVE TypeOK'
  BY <1>5 DEF WriteFails
<1>6. ASSUME NEW p \in Procs, Stat(p) PROVE TypeOK'
  <2>1. pc' \in [Procs -> Steps]
    BY <1>6 DEF Stat
  <2>2. judged' \in [Procs -> LockFiles]
    BY <1>6 DEF Stat
  <2>3. UNCHANGED <<mine, at, seen, lock, claim, crashes>>
    BY <1>6 DEF Stat
  <2> QED BY <2>1, <2>2, <2>3
<1>7. ASSUME NEW p \in Procs, Read(p) PROVE TypeOK'
  <2>1. CASE pc' = [pc EXCEPT ![p] = "claim"] /\ UNCHANGED judged
    BY <1>7, <2>1 DEF Read
  <2>2. CASE pc' = [pc EXCEPT ![p] = "retry"] /\ judged' = [judged EXCEPT ![p] = Gone]
    BY <1>7, <2>2 DEF Read
  <2> QED BY <1>7, <2>1, <2>2 DEF Read
<1>8. ASSUME NEW p \in Procs, Retry(p) \/ GiveUp(p) PROVE TypeOK'
  BY <1>8 DEF Retry, GiveUp
<1>9. ASSUME NEW p \in Procs, TakeClaim(p) PROVE TypeOK'
  BY <1>9 DEF TakeClaim
<1>10. ASSUME NEW p \in Procs, ClaimHeld(p) PROVE TypeOK'
  BY <1>10 DEF ClaimHeld
<1>11. ASSUME NEW p \in Procs, NextClaim(p) PROVE TypeOK'
  <2>1. at[p] + 1 \in Claims
    BY <1>11 DEF NextClaim, Claims
  <2> QED BY <1>11, <2>1 DEF NextClaim
<1>12. ASSUME NEW p \in Procs, ClaimBusy(p) PROVE TypeOK'
  BY <1>12 DEF ClaimBusy, LeaveBreak, Claims
<1>13. ASSUME NEW p \in Procs, Check(p) PROVE TypeOK'
  BY <1>13 DEF Check
<1>14. ASSUME NEW p \in Procs, Unlink(p) PROVE TypeOK'
  BY <1>14 DEF Unlink
<1>15. ASSUME NEW p \in Procs, DropClaim(p) PROVE TypeOK'
  BY <1>15 DEF DropClaim, LeaveBreak, Claims
<1>16. ASSUME NEW p \in Procs, Leave(p) \/ Compare(p) \/ Unlock(p) PROVE TypeOK'
  <2>1. CASE Leave(p)
    BY <2>1 DEF Leave
  <2>2. CASE Compare(p)
    <3>1. pc' \in [Procs -> Steps] /\ mine' \in [Procs -> Files \cup {NoFile}]
      BY <2>2 DEF Compare
    <3>2. UNCHANGED <<judged, at, seen, lock, claim, crashes>>
      BY <2>2 DEF Compare
    <3> QED BY <3>1, <3>2
  <2>3. CASE Unlock(p)
    BY <2>3 DEF Unlock
  <2> QED BY <1>16, <2>1, <2>2, <2>3
<1>17. ASSUME NEW p \in Procs, Crash(p) PROVE TypeOK'
  BY <1>17 DEF Crash, LeaveBreak, Claims
<1>18. ASSUME NEW p \in Procs, Restart(p) PROVE TypeOK'
  BY <1>18 DEF Restart
<1>19. ASSUME TickLock PROVE TypeOK'
  <2>1. lock.age \in Ages /\ lock.age # 2
    BY <1>19 DEF TickLock
  <2>2. lock.age + 1 \in Ages
    BY <2>1
  <2>3. lock' \in LockFiles
    BY <1>19, <2>2 DEF TickLock
  <2>4. UNCHANGED <<pc, mine, judged, at, seen, claim, crashes>>
    BY <1>19 DEF TickLock
  <2> QED BY <2>3, <2>4
<1>20. ASSUME NEW n \in Claims, TickClaim(n) PROVE TypeOK'
  BY <1>20 DEF TickClaim
<1>21. ASSUME UNCHANGED vars PROVE TypeOK'
  BY <1>21 DEF vars
<1> QED
  BY <1>1, <1>2, <1>3, <1>4, <1>5, <1>6, <1>7, <1>8, <1>9, <1>10, <1>11, <1>12, <1>13, <1>14, <1>15,
     <1>16, <1>17, <1>18, <1>19, <1>20, <1>21 DEF Next, Step, Tick

\* Type correctness of the lock's specification.
THEOREM TypeCorrect == Spec => []TypeOK
<1>1. Init => TypeOK
  BY InitIInv DEF IInv
<1> QED BY <1>1, TypeStep, PTL DEF Spec

-----------------------------------------------------------------------------

NoPause == Pauses = {}

\* The steps that leave the lock file, and who has it, as they were.
Aside(p) ==
  \/ Start(p) \/ CreateFails(p) \/ Stat(p) \/ Read(p) \/ Retry(p) \/ GiveUp(p)
  \/ TakeClaim(p) \/ ClaimHeld(p) \/ NextClaim(p) \/ ClaimBusy(p) \/ Check(p) \/ DropClaim(p)
  \/ Restart(p)

\* A step aside moves a process that has not taken the lock to a step where it still has not.
LEMMA AsideFrame ==
  ASSUME TypeOK, NEW p \in Procs, Aside(p)
  PROVE  /\ UNCHANGED <<lock, mine, crashes>>
         /\ pc[p] \notin Taken /\ pc'[p] \notin Taken
         /\ pc[p] # "unlink"
         /\ \A q \in Procs : q # p => pc'[q] = pc[q] /\ judged'[q] = judged[q] /\ at'[q] = at[q] /\ seen'[q] = seen[q]
<1> USE DEF TypeOK, Taken, Goto
<1>1. CASE Start(p) \/ CreateFails(p) \/ Retry(p) \/ GiveUp(p) \/ Restart(p)
  BY <1>1 DEF Start, CreateFails, Retry, GiveUp, Restart
<1>2. CASE Stat(p)
  BY <1>2 DEF Stat
<1>3. CASE Read(p)
  BY <1>3 DEF Read
<1>4. CASE TakeClaim(p) \/ ClaimHeld(p) \/ NextClaim(p)
  BY <1>4 DEF TakeClaim, ClaimHeld, NextClaim
<1>5. CASE ClaimBusy(p) \/ DropClaim(p)
  BY <1>5 DEF ClaimBusy, DropClaim, LeaveBreak
<1>6. CASE Check(p)
  BY <1>6 DEF Check
<1> QED BY <1>1, <1>2, <1>3, <1>4, <1>5, <1>6 DEF Aside

\* The lock and its taker: the file a taker created is at the path until it gives it up.
LEMMA TakerStep == IInv /\ [Next]_vars => TakerInv' /\ OneTaker'
<1> SUFFICES ASSUME IInv, [Next]_vars PROVE TakerInv' /\ OneTaker'
  OBVIOUS
<1> USE DEF IInv, TakerInv, OneTaker
<1>1. ASSUME NEW p \in Procs, Aside(p) PROVE TakerInv' /\ OneTaker'
  BY <1>1, AsideFrame
<1>2. ASSUME NEW p \in Procs, Create(p) PROVE TakerInv' /\ OneTaker'
  <2>1. \A q \in Procs : pc[q] \notin Taken
    BY <1>2 DEF Create
  <2> QED BY <1>2, <2>1 DEF Create, TypeOK, Taken, Goto
<1>3. ASSUME NEW p \in Procs, Write(p) PROVE TakerInv' /\ OneTaker'
  BY <1>3 DEF Write, TypeOK, LockFiles, Taken, Goto
<1>4. ASSUME NEW p \in Procs, WriteFails(p) \/ Unlock(p) PROVE TakerInv' /\ OneTaker'
  BY <1>4 DEF WriteFails, Unlock, TypeOK, Taken, Goto
<1>5. ASSUME NEW p \in Procs, Unlink(p) PROVE TakerInv' /\ OneTaker'
  <2>1. \A q \in Procs : pc[q] \notin Taken
    BY <1>5 DEF Unlink, UnlinkInv, JudgedInv, Judging, Breaking, IsTaker
  <2> QED BY <1>5, <2>1 DEF Unlink, TypeOK, Taken, Goto
<1>6. ASSUME NEW p \in Procs, Leave(p) \/ Compare(p) PROVE TakerInv' /\ OneTaker'
  BY <1>6 DEF Leave, Compare, TypeOK, Taken, Goto
<1>7. ASSUME NEW p \in Procs, Crash(p) PROVE TakerInv' /\ OneTaker'
  BY <1>7 DEF Crash, LeaveBreak, TypeOK, Taken, Goto
<1>8. ASSUME Tick PROVE TakerInv' /\ OneTaker'
  BY <1>8 DEF Tick, TickLock, TickClaim, TypeOK, LockFiles
<1>9. ASSUME UNCHANGED vars PROVE TakerInv' /\ OneTaker'
  BY <1>9 DEF vars
<1> QED BY <1>1, <1>2, <1>3, <1>4, <1>5, <1>6, <1>7, <1>8, <1>9 DEF Next, Step, Aside

-----------------------------------------------------------------------------

\* Age of the lock: time may not pass the horizons under a taker (TickLock), and every new file is young.
LEMMA LockAgeStep == NoPause /\ IInv /\ [Next]_vars => LockAgeInv'
<1> SUFFICES ASSUME NoPause, IInv, [Next]_vars PROVE LockAgeInv'
  OBVIOUS
<1> USE DEF LockAgeInv
<1>1. TypeOK /\ TakerInv /\ OneTaker /\ LockAgeInv /\ TypeOK'
  BY TypeStep DEF IInv
<1> USE <1>1
<1>2. ASSUME NEW p \in Procs, Aside(p) PROVE LockAgeInv'
  BY <1>2, AsideFrame DEF IsTaker
<1>3. ASSUME NEW p \in Procs, Create(p) \/ Write(p) PROVE LockAgeInv'
  <2>1. CASE Create(p)
    BY <2>1 DEF Create, IsTaker
  <2>2. CASE Write(p)
    BY <2>2 DEF Write, TypeOK, LockFiles, Taken, TakerInv
  <2> QED BY <1>3, <2>1, <2>2
<1>4. ASSUME NEW p \in Procs, WriteFails(p) \/ Unlock(p) \/ Unlink(p) PROVE LockAgeInv'
  BY <1>4 DEF WriteFails, Unlock, Unlink, Gone
<1>5. ASSUME NEW p \in Procs, Leave(p) \/ Compare(p) PROVE LockAgeInv'
  BY <1>5 DEF Leave, Compare, Goto, TypeOK, IsTaker, Taken
<1>6. ASSUME NEW p \in Procs, Crash(p) PROVE LockAgeInv'
  BY <1>6 DEF Crash, LeaveBreak, Goto, TypeOK, IsTaker, Taken
<1>7. ASSUME TickLock PROVE LockAgeInv'
  <2>1. lock.age \in {0, 1} /\ lock' = [lock EXCEPT !.age = @ + 1]
    BY <1>7 DEF TickLock, TypeOK, LockFiles, Ages
  <2> QED BY <1>7, <2>1 DEF TickLock, NoPause, TypeOK, LockFiles, IsTaker
<1>8. ASSUME NEW n \in Claims, TickClaim(n) PROVE LockAgeInv'
  BY <1>8 DEF TickClaim, IsTaker
<1>9. ASSUME UNCHANGED vars PROVE LockAgeInv'
  BY <1>9 DEF vars, IsTaker
<1> QED BY <1>2, <1>3, <1>4, <1>5, <1>6, <1>7, <1>8, <1>9 DEF Next, Step, Tick, Aside

-----------------------------------------------------------------------------

\* The verdict on a claim in the way is "stale" only for a claim whose maker died: a live breaker's
\* claim is young at the stat and young at the read, and one that is gone at the read was live.
LEMMA StaleClaimOrphaned ==
  ASSUME TypeOK, ClaimAgeInv, ClaimInv, NEW p \in Procs, pc[p] = "judge", ClaimVerdict(p)
  PROVE  Orphaned(at[p])
<1> DEFINE now == claim[at[p]]
<1>1. at[p] \in Claims /\ now \in ClaimFiles /\ seen[p] \in ClaimFiles
  BY DEF TypeOK
<1>2. seen[p].age # Young => Orphaned(at[p])
  BY DEF ClaimInv
<1>3. CASE now.by = Nobody
  <2>1. seen[p].age # Young
    BY <1>3 DEF ClaimVerdict, Verdict, Breakable
  <2> QED BY <2>1, <1>2
<1>4. CASE now.by # Nobody /\ now.by = seen[p].by
  <2>1. now.age # Young
    BY <1>4 DEF ClaimVerdict, Verdict, Breakable
  <2> QED BY <2>1, <1>1, <1>4 DEF ClaimAgeInv, Orphaned
<1>5. CASE now.by # Nobody /\ now.by # seen[p].by
  <2>1. seen[p].age # Young
    BY <1>5, <1>1 DEF ClaimVerdict, Verdict, Breakable, ClaimFiles, Ages
  <2> QED BY <2>1, <1>2
<1> QED BY <1>3, <1>4, <1>5

\* The steps that touch neither a claim nor a call to breakStaleLock.
Outside(p) ==
  \/ Start(p) \/ Create(p) \/ CreateFails(p) \/ Write(p) \/ WriteFails(p) \/ Stat(p)
  \/ Retry(p) \/ GiveUp(p) \/ Leave(p) \/ Compare(p) \/ Unlock(p) \/ Restart(p)

LEMMA OutsideFrame ==
  ASSUME TypeOK, NEW p \in Procs, Outside(p)
  PROVE  /\ UNCHANGED <<claim, at, seen>>
         /\ pc[p] \notin Judging /\ pc'[p] \notin Judging
         /\ \A q \in Procs : q # p => pc'[q] = pc[q]
<1> USE DEF TypeOK, Judging, Breaking, Goto
<1>1. CASE Start(p) \/ CreateFails(p) \/ Retry(p) \/ GiveUp(p) \/ Restart(p) \/ Leave(p) \/ Unlock(p)
  BY <1>1 DEF Start, CreateFails, Retry, GiveUp, Restart, Leave, Unlock
<1>2. CASE Create(p) \/ Write(p) \/ WriteFails(p)
  BY <1>2 DEF Create, Write, WriteFails
<1>3. CASE Stat(p)
  BY <1>3 DEF Stat
<1>4. CASE Compare(p)
  BY <1>4 DEF Compare
<1> QED BY <1>1, <1>2, <1>3, <1>4 DEF Outside

\* The chain of claims: what a breaker skipped stays in the way of every other breaker for good.
LEMMA ClaimStep == NoPause /\ IInv /\ [Next]_vars => ClaimAgeInv' /\ ClaimInv'
<1> SUFFICES ASSUME NoPause, IInv, [Next]_vars PROVE ClaimAgeInv' /\ ClaimInv'
  OBVIOUS
<1>0. TypeOK /\ ClaimAgeInv /\ ClaimInv /\ TypeOK'
  BY TypeStep DEF IInv
<1> USE <1>0 DEF ClaimAgeInv, ClaimInv, Orphaned, IsBreaker
<1>1. ASSUME NEW p \in Procs, Outside(p) PROVE ClaimAgeInv' /\ ClaimInv'
  BY <1>1, OutsideFrame DEF Judging, Breaking
<1>2. ASSUME NEW p \in Procs, Read(p) PROVE ClaimAgeInv' /\ ClaimInv'
  <2>1. at[p] = 0
    BY <1>2 DEF Read, Judging, Breaking
  <2>2. UNCHANGED <<claim, at, seen>> /\ pc[p] = "read"
    BY <1>2 DEF Read
  <2>3. pc'[p] \in {"claim", "retry"} /\ \A q \in Procs : q # p => pc'[q] = pc[q]
    BY <1>2 DEF Read, Goto, TypeOK
  <2>4. pc'[p] \notin Breaking /\ pc[p] \notin Breaking
    BY <2>2, <2>3 DEF Breaking
  <2>5. \A n \in Claims : Orphaned(n) => Orphaned(n)'
    BY <2>2, <2>3, <2>4
  <2>6. ClaimAgeInv'
    BY <2>2, <2>3, <2>4
  <2>7. \A n \in Claims : ~(n < 0)
    BY DEF Claims
  <2>8. ClaimInv'
    BY <2>1, <2>2, <2>3, <2>4, <2>5, <2>7 DEF Judging
  <2> QED BY <2>6, <2>8
<1>3. ASSUME NEW p \in Procs, TakeClaim(p) PROVE ClaimAgeInv' /\ ClaimInv'
  BY <1>3 DEF TakeClaim, Goto, TypeOK, Judging, Breaking
<1>4. ASSUME NEW p \in Procs, ClaimHeld(p) PROVE ClaimAgeInv' /\ ClaimInv'
  BY <1>4 DEF ClaimHeld, Goto, TypeOK, Judging, Breaking
<1>5. ASSUME NEW p \in Procs, NextClaim(p) PROVE ClaimAgeInv' /\ ClaimInv'
  <2>1. Orphaned(at[p])
    BY <1>5, StaleClaimOrphaned DEF NextClaim
  <2>2. pc[p] = "judge" /\ pc' = [pc EXCEPT ![p] = "claim"] /\ UNCHANGED claim
    BY <1>5 DEF NextClaim, Goto
  <2>3. at'[p] = at[p] + 1 /\ \A q \in Procs : q # p => at'[q] = at[q] /\ seen'[q] = seen[q]
    BY <1>5 DEF NextClaim, TypeOK
  <2>4. pc'[p] = "claim" /\ \A q \in Procs : q # p => pc'[q] = pc[q]
    BY <2>2 DEF TypeOK
  <2>5. \A n \in Claims : Orphaned(n) => Orphaned(n)'
    BY <2>2, <2>3, <2>4 DEF Breaking
  <2>6. ClaimAgeInv'
    BY <2>2, <2>3, <2>4 DEF Breaking
  <2>7. \A n \in Claims : n < at'[p] => n < at[p] \/ n = at[p]
    BY <2>3 DEF Claims, TypeOK
  <2>8. ClaimInv'
    BY <2>1, <2>2, <2>3, <2>4, <2>5, <2>7 DEF Judging, Breaking
  <2> QED BY <2>6, <2>8
<1>6. ASSUME NEW p \in Procs, ClaimBusy(p) PROVE ClaimAgeInv' /\ ClaimInv'
  BY <1>6 DEF ClaimBusy, LeaveBreak, Goto, TypeOK, Judging, Breaking
<1>7. ASSUME NEW p \in Procs, Check(p) \/ Unlink(p) PROVE ClaimAgeInv' /\ ClaimInv'
  BY <1>7 DEF Check, Unlink, Goto, TypeOK, Judging, Breaking
<1>8. ASSUME NEW p \in Procs, DropClaim(p) PROVE ClaimAgeInv' /\ ClaimInv'
  BY <1>8 DEF DropClaim, LeaveBreak, Goto, TypeOK, Judging, Breaking, Unclaimed
<1>9. ASSUME NEW p \in Procs, Crash(p) PROVE ClaimAgeInv' /\ ClaimInv'
  BY <1>9 DEF Crash, LeaveBreak, Goto, TypeOK, Judging, Breaking
<1>10. ASSUME TickLock PROVE ClaimAgeInv' /\ ClaimInv'
  BY <1>10 DEF TickLock
<1>11. ASSUME NEW n \in Claims, TickClaim(n) PROVE ClaimAgeInv' /\ ClaimInv'
  BY <1>11 DEF TickClaim, NoPause, TypeOK, ClaimFiles, Ages
<1>12. ASSUME UNCHANGED vars PROVE ClaimAgeInv' /\ ClaimInv'
  BY <1>12 DEF vars
<1> QED BY <1>1, <1>2, <1>3, <1>4, <1>5, <1>6, <1>7, <1>8, <1>9, <1>10, <1>11, <1>12
        DEF Next, Step, Tick, Outside

-----------------------------------------------------------------------------

\* Only a taker gives up or replaces the lock, so who is in breakStaleLock and has judged a lock that
\* is still there has it to itself.
LEMMA OneBreakerAtATime == TypeOK /\ ClaimInv => OneBreaker
<1> SUFFICES ASSUME TypeOK, ClaimInv, NEW p \in Procs, NEW q \in Procs,
                    pc[p] \in Breaking, pc[q] \in Breaking
             PROVE  p = q
  BY DEF OneBreaker
<1> USE DEF TypeOK, ClaimInv, Orphaned, IsBreaker, Judging
<1>1. at[p] \in Nat /\ at[q] \in Nat
  BY DEF Claims
<1>2. CASE at[p] = at[q]
  BY <1>2
<1>3. CASE at[p] < at[q]
  BY <1>3
<1>4. CASE at[q] < at[p]
  BY <1>4
<1> QED BY <1>1, <1>2, <1>3, <1>4

\* The verdict on the lock is "stale" only for a lock without a taker: a live holder's pid answers,
\* and it holds no lock past the abandoned horizon.
LEMMA StaleLockUntaken ==
  ASSUME TypeOK, TakerInv, LockAgeInv, NEW st, SameFile(lock, st), lock.file # NoFile,
         Verdict(st, lock.file # NoFile, TRUE, lock)
  PROVE  \A q \in Procs : ~IsTaker(q)
<1>1. Breakable(lock.age, lock.by)
  BY DEF Verdict
<1>2. SUFFICES ASSUME NEW q \in Procs, IsTaker(q) PROVE FALSE
  OBVIOUS
<1>3. lock.age = Stale /\ pc[q] # "write"
  BY <1>1, <1>2 DEF Breakable, LockAgeInv, TypeOK, LockFiles, Ages
<1>4. Answers(lock.by)
  BY <1>2, <1>3 DEF Answers, TakerInv, IsTaker, Taken
<1> QED BY <1>1, <1>3, <1>4 DEF Breakable

\* What a waiter has judged.
LEMMA JudgedStep == IInv /\ [Next]_vars => JudgedInv'
<1> SUFFICES ASSUME IInv, [Next]_vars PROVE JudgedInv'
  OBVIOUS
<1>0. TypeOK /\ TakerInv /\ OneTaker /\ LockAgeInv /\ JudgedInv /\ TypeOK' /\ TakerInv'
  BY TypeStep, TakerStep DEF IInv
<1> USE <1>0 DEF JudgedInv, SameFile, IsTaker
<1>1. ASSUME NEW p \in Procs, Stat(p) PROVE JudgedInv'
  <2>1. CASE lock.file = NoFile
    BY <1>1, <2>1 DEF Stat, Goto, TypeOK, Judging, Breaking, Taken
  <2>2. CASE lock.file # NoFile
    BY <1>1, <2>2 DEF Stat, Goto, TypeOK, Judging, Breaking, Taken
  <2> QED BY <2>1, <2>2
<1>2. ASSUME NEW p \in Procs, Read(p) PROVE JudgedInv'
  <2>1. CASE Verdict(judged[p], lock.file # NoFile, SameFile(lock, judged[p]), lock)
    <3>1. SameFile(lock, judged[p]) => \A q \in Procs : ~IsTaker(q)
      BY <1>2, <2>1, StaleLockUntaken DEF Read
    <3>2. /\ UNCHANGED <<judged, lock, mine>>
          /\ pc[p] = "read" /\ pc' = [pc EXCEPT ![p] = "claim"]
      BY <1>2, <2>1 DEF Read, Goto
    <3> QED BY <3>1, <3>2 DEF TypeOK, Judging, Breaking, Taken
  <2>2. CASE ~Verdict(judged[p], lock.file # NoFile, SameFile(lock, judged[p]), lock)
    BY <1>2, <2>2 DEF Read, Goto, TypeOK, Judging, Breaking, Taken
  <2> QED BY <2>1, <2>2
<1>3. ASSUME NEW p \in Procs, Start(p) \/ CreateFails(p) \/ Retry(p) \/ GiveUp(p) \/ Restart(p)
      PROVE JudgedInv'
  BY <1>3 DEF Start, CreateFails, Retry, GiveUp, Restart, Goto, TypeOK, Judging, Breaking, Taken
<1>4. ASSUME NEW p \in Procs, TakeClaim(p) \/ ClaimHeld(p) \/ NextClaim(p) \/ Check(p) PROVE JudgedInv'
  <2>1. pc[p] \in Judging /\ pc[p] # "read" /\ pc'[p] \in Judging /\ pc'[p] # "read"
    BY <1>4 DEF TakeClaim, ClaimHeld, NextClaim, Check, Goto, TypeOK, Judging, Breaking
  <2>2. UNCHANGED <<judged, lock, mine>> /\ \A q \in Procs : q # p => pc'[q] = pc[q]
    BY <1>4 DEF TakeClaim, ClaimHeld, NextClaim, Check, Goto, TypeOK
  <2> QED BY <2>1, <2>2 DEF Judging, Breaking, Taken
<1>5. ASSUME NEW p \in Procs, ClaimBusy(p) \/ DropClaim(p) PROVE JudgedInv'
  BY <1>5 DEF ClaimBusy, DropClaim, LeaveBreak, Goto, TypeOK, Judging, Breaking, Taken
<1>6. ASSUME NEW p \in Procs, Create(p) PROVE JudgedInv'
  BY <1>6 DEF Create, Goto, TypeOK, Judging, Breaking
<1>7. ASSUME NEW p \in Procs, Write(p) PROVE JudgedInv'
  BY <1>7 DEF Write, Goto, TypeOK, LockFiles, Judging, Breaking, Taken, TakerInv
<1>8. ASSUME NEW p \in Procs, WriteFails(p) \/ Unlock(p) PROVE JudgedInv'
  BY <1>8 DEF WriteFails, Unlock, Gone, Goto, TypeOK, Judging, Breaking
<1>9. ASSUME NEW p \in Procs, Unlink(p) PROVE JudgedInv'
  BY <1>9 DEF Unlink, Gone, Goto, TypeOK, Judging, Breaking
<1>10. ASSUME NEW p \in Procs, Leave(p) \/ Compare(p) PROVE JudgedInv'
  BY <1>10 DEF Leave, Compare, Goto, TypeOK, Judging, Breaking, Taken
<1>11. ASSUME NEW p \in Procs, Crash(p) PROVE JudgedInv'
  BY <1>11 DEF Crash, LeaveBreak, Goto, TypeOK, Judging, Breaking, Taken
<1>12. ASSUME Tick PROVE JudgedInv'
  BY <1>12 DEF Tick, TickLock, TickClaim, TypeOK, LockFiles
<1>13. ASSUME UNCHANGED vars PROVE JudgedInv'
  BY <1>13 DEF vars
<1> QED BY <1>1, <1>2, <1>3, <1>4, <1>5, <1>6, <1>7, <1>8, <1>9, <1>10, <1>11, <1>12, <1>13 DEF Next, Step

-----------------------------------------------------------------------------

\* Between its check and its unlink, the file a breaker judged stays at the path.
LEMMA UnlinkStep == IInv /\ [Next]_vars => UnlinkInv'
<1> SUFFICES ASSUME IInv, [Next]_vars PROVE UnlinkInv'
  OBVIOUS
<1>0. TypeOK /\ TakerInv /\ JudgedInv /\ ClaimInv /\ UnlinkInv /\ OneBreaker
  BY OneBreakerAtATime DEF IInv
<1>1. \A p \in Procs : pc[p] = "unlink" => \A q \in Procs : ~IsTaker(q)
  BY <1>0 DEF UnlinkInv, JudgedInv, Judging, Breaking
<1> USE <1>0, <1>1 DEF UnlinkInv, SameFile
<1>2. ASSUME NEW p \in Procs, Start(p) \/ CreateFails(p) \/ Retry(p) \/ GiveUp(p) \/ Restart(p) \/ Leave(p)
      PROVE UnlinkInv'
  BY <1>2 DEF Start, CreateFails, Retry, GiveUp, Restart, Leave, Goto, TypeOK
<1>3. ASSUME NEW p \in Procs, Stat(p) \/ Read(p) PROVE UnlinkInv'
  <2>1. UNCHANGED lock /\ pc'[p] # "unlink"
    BY <1>3 DEF Stat, Read, Goto, TypeOK
  <2>2. \A q \in Procs : q # p => pc'[q] = pc[q] /\ judged'[q] = judged[q]
    BY <1>3 DEF Stat, Read, Goto, TypeOK
  <2> QED BY <2>1, <2>2
<1>4. ASSUME NEW p \in Procs, TakeClaim(p) \/ ClaimHeld(p) \/ NextClaim(p) PROVE UnlinkInv'
  BY <1>4 DEF TakeClaim, ClaimHeld, NextClaim, Goto, TypeOK
<1>5. ASSUME NEW p \in Procs, ClaimBusy(p) \/ DropClaim(p) PROVE UnlinkInv'
  BY <1>5 DEF ClaimBusy, DropClaim, LeaveBreak, Goto, TypeOK
<1>6. ASSUME NEW p \in Procs, Check(p) PROVE UnlinkInv'
  BY <1>6 DEF Check, Goto, TypeOK
<1>7. ASSUME NEW p \in Procs, Create(p) PROVE UnlinkInv'
  BY <1>7 DEF Create, Goto, TypeOK
<1>8. ASSUME NEW p \in Procs, Write(p) \/ WriteFails(p) \/ Unlock(p) PROVE UnlinkInv'
  <2>1. pc[p] \in Taken /\ IsTaker(p)
    BY <1>8 DEF Write, WriteFails, Unlock, Taken, TakerInv, IsTaker
  <2>2. \A q \in Procs : pc[q] # "unlink" /\ pc'[q] # "unlink"
    BY <1>8, <2>1 DEF Write, WriteFails, Unlock, Goto, TypeOK
  <2> QED BY <2>2
<1>9. ASSUME NEW p \in Procs, Unlink(p) PROVE UnlinkInv'
  <2>1. \A q \in Procs : pc[q] = "unlink" => q = p
    BY <1>9 DEF Unlink, OneBreaker, Breaking
  <2> QED BY <1>9, <2>1 DEF Unlink, Goto, TypeOK
<1>10. ASSUME NEW p \in Procs, Compare(p) PROVE UnlinkInv'
  BY <1>10 DEF Compare, Goto, TypeOK
<1>11. ASSUME NEW p \in Procs, Crash(p) PROVE UnlinkInv'
  BY <1>11 DEF Crash, LeaveBreak, Goto, TypeOK
<1>12. ASSUME Tick PROVE UnlinkInv'
  BY <1>12 DEF Tick, TickLock, TickClaim, TypeOK, LockFiles
<1>13. ASSUME UNCHANGED vars PROVE UnlinkInv'
  BY <1>13 DEF vars
<1> QED BY <1>2, <1>3, <1>4, <1>5, <1>6, <1>7, <1>8, <1>9, <1>10, <1>11, <1>12, <1>13 DEF Next, Step

\* The parts together: the inductive step.
LEMMA InductiveStep == NoPause /\ IInv /\ [Next]_vars => IInv'
  BY TypeStep, TakerStep, LockAgeStep, ClaimStep, JudgedStep, UnlinkStep DEF IInv

\* The inductive invariant of the lock protocol.
THEOREM Inductive == ASSUME NoPause PROVE Spec => []IInv
  BY InitIInv, InductiveStep, PTL DEF Spec

-----------------------------------------------------------------------------

\* No two processes ever run a locked section at once: record ids are computed, logs rewritten and
\* blobs collected by one process at a time.
THEOREM MutualExclusionHolds == ASSUME NoPause PROVE Spec => []MutualExclusion
<1>1. IInv => MutualExclusion
  BY DEF IInv, OneTaker, MutualExclusion, Taken
<1> QED BY <1>1, Inductive, PTL

\* Nobody's lock is broken under it: a holder finds its own lock at the path until it removes it.
THEOREM HolderKeepsLockHolds == ASSUME NoPause PROVE Spec => []HolderKeepsLock
<1>1. IInv => HolderKeepsLock
  BY DEF IInv, TakerInv, HolderKeepsLock, Taken
<1> QED BY <1>1, Inductive, PTL

\* At most one live process is breaking the lock, whatever claims dead breakers left behind.
THEOREM OneBreakerHolds == ASSUME NoPause PROVE Spec => []OneBreaker
<1>1. IInv => OneBreaker
  BY OneBreakerAtATime DEF IInv
<1> QED BY <1>1, Inductive, PTL

\* A breaker's unlink removes the very file it judged.
THEOREM BreaksOnlyJudgedHolds == ASSUME NoPause PROVE Spec => BreaksOnlyJudged
<1>1. IInv /\ [Next]_vars => [\A p \in Procs : Unlink(p) /\ lock.file # NoFile => SameFile(lock, judged[p])]_vars
  BY DEF IInv, UnlinkInv, Unlink
<1> QED BY <1>1, Inductive, PTL DEF Spec, BreaksOnlyJudged

\* A breaker's unlink never takes the lock from a live taker.
THEOREM NeverBreaksLiveHolds == ASSUME NoPause PROVE Spec => NeverBreaksLive
<1>1. IInv /\ [Next]_vars => [\A p \in Procs : Unlink(p) => \A q \in Procs : ~IsTaker(q)]_vars
  BY DEF IInv, UnlinkInv, JudgedInv, Unlink, Judging, Breaking
<1> QED BY <1>1, Inductive, PTL DEF Spec, NeverBreaksLive

-----------------------------------------------------------------------------

Inside == {p \in Procs : pc[p] = "in"}

\* Every step of the lock file protocol is an entry into the section while nobody is inside, an exit
\* from it, or no step of the section at all.
LEMMA SectionStep == IInv /\ [Next]_vars => [Section!Next]_Inside
<1> SUFFICES ASSUME IInv, [Next]_vars PROVE [Section!Next]_Inside
  OBVIOUS
<1>0. TypeOK /\ TakerInv /\ OneTaker
  BY DEF IInv
<1> USE <1>0 DEF Inside
<1>1. ASSUME NEW p \in Procs, Write(p) PROVE Section!Enter(p)
  <2>1. \A q \in Procs : pc[q] # "in"
    BY <1>1 DEF Write, OneTaker, Taken
  <2>2. \A q \in Procs : pc'[q] = "in" <=> q = p
    BY <1>1, <2>1 DEF Write, Goto, TypeOK
  <2> QED BY <2>1, <2>2 DEF Section!Enter
<1>2. ASSUME NEW p \in Procs, pc[p] = "in", Leave(p) \/ Crash(p) PROVE Section!Leave(p)
  <2>1. \A q \in Procs : pc'[q] = "in" <=> pc[q] = "in" /\ q # p
    BY <1>2 DEF Leave, Crash, LeaveBreak, Goto, TypeOK
  <2> QED BY <1>2, <2>1 DEF Section!Leave
<1>3. ASSUME NEW p \in Procs, pc[p] # "in", Crash(p) PROVE UNCHANGED Inside
  BY <1>3 DEF Crash, LeaveBreak, Goto, TypeOK
<1>4. ASSUME NEW p \in Procs, Aside(p) PROVE UNCHANGED Inside
  BY <1>4, AsideFrame DEF Taken
<1>5. ASSUME NEW p \in Procs, Create(p) \/ WriteFails(p) \/ Unlink(p) \/ Compare(p) \/ Unlock(p)
      PROVE UNCHANGED Inside
  <2>1. pc[p] # "in" /\ pc'[p] # "in" /\ \A q \in Procs : q # p => pc'[q] = pc[q]
    BY <1>5 DEF Create, WriteFails, Unlink, Compare, Unlock, Goto, TypeOK
  <2> QED BY <2>1
<1>6. ASSUME Tick \/ UNCHANGED vars PROVE UNCHANGED Inside
  BY <1>6 DEF Tick, TickLock, TickClaim, vars
<1>7. ASSUME NEW p \in Procs, Leave(p) PROVE pc[p] = "in"
  BY <1>7 DEF Leave
<1> QED
  BY <1>1, <1>2, <1>3, <1>4, <1>5, <1>6, <1>7 DEF Next, Step, Aside, Section!Next

\* The lock file implements the exclusive section the models of the log and the capture path assume.
THEOREM Refinement == ASSUME NoPause PROVE Spec => ImplementsSection
<1>1. Init => Section!Init
  BY DEF Init, Section!Init
<1>2. IInv /\ [Next]_vars => [Section!Next]_Inside
  BY SectionStep
<1> QED BY <1>1, <1>2, Inductive, PTL DEF Spec, ImplementsSection, Section!Spec, Inside

=============================================================================
