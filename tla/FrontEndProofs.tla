--------------------------- MODULE FrontEndProofs ---------------------------
(***************************************************************************)
(* Proofs about what the terminal apps share, the focus server and the     *)
(* names of herdr's tabs, for any number of them and any bounds.           *)
(*                                                                         *)
(* Daemon: while starts and stops do not overlap, a server that serves is  *)
(* the one its two files name, and a start with nothing else under way     *)
(* succeeds.  Tabs: the record's lock has one holder, no pass ever renames,*)
(* or claims, a name that a person gave; and unless a pass wrote under     *)
(* another, a name that OAK gave is claimed, and is not replaced by a      *)
(* title read before it.                                                   *)
(***************************************************************************)
EXTENDS Daemon, Tabs, TLAPS

-----------------------------------------------------------------------------
(* The focus server.                                                       *)

\* A server that owns, or is about to own, what its files say.
Working(p) == at[p] \notin {"none", "stranger", "boot"}

OneFront == \A f, g \in Fronts : Busy(f) /\ Busy(g) => f = g

OneServer == \A p, q \in Pids : Working(p) /\ Working(q) => p = q

\* The files are the server's own from the moment it listens, and announces itself.
FilesInv ==
  \A p \in Pids :
    /\ at[p] = "announce" => sock = p
    /\ at[p] = "serving" => sock = p /\ pidFile = p

Polls(f, p) == at[f] = "poll" /\ peer[f] = p

\* A server boots while the front end that spawned it waits for it, and nobody else starts or stops one.
BootInv ==
  \A p \in Pids : at[p] \in {"boot", "reclaim", "rmPid", "rmSock", "listen"} => \E f \in Fronts : Polls(f, p)

AnnounceInv == \A p \in Pids, f \in Fronts : at[p] = "announce" /\ Busy(f) => Polls(f, p)

LeaveInv ==
  \A p \in Pids, f \in Fronts :
    at[p] \in {"offPid", "offSock", "exiting"} /\ Busy(f) => at[f] = "wait" /\ peer[f] = p

\* A front end that is starting a server knows that none answered.
Starting(f) == at[f] \in {"spawn", "poll"} \/ (at[f] \in {"reclaim", "rmPid", "rmSock"} /\ goal[f] = "start")
StartInv == \A p \in Pids \ old, f \in Fronts : at[p] = "serving" /\ Starting(f) => Polls(f, p)

\* One that removes the files of a server knows that none works.
RemoveInv == \A p \in Pids, f \in Fronts : at[f] \in {"rmPid", "rmSock"} => ~Working(p)

GoalInv ==
  \A f \in Fronts : /\ at[f] = "connect" => goal[f] = "start"
                    /\ at[f] \in {"stop", "wait"} => goal[f] = "stop"

Calm == OneFront /\ OneServer /\ FilesInv /\ BootInv /\ AnnounceInv /\ LeaveInv /\ StartInv /\ RemoveInv /\ GoalInv

DaemonIInv == DaemonTypeOK /\ (~overlapped => Calm)

\* The process that an unhindered start spawned: killed, on its way with no file there, or listening.
Unhindered(p) ==
  \/ at[p] = "none" /\ p \in killed
  \/ at[p] \in {"boot", "reclaim", "rmPid", "rmSock", "listen"} /\ pidFile = NoProcess /\ sock = NoProcess
  \/ at[p] \in {"announce", "serving"}

\* What a start that is alone knows at each of its steps, where no older server and no other program is met.
Alone(f) ==
  /\ goal[f] = "start" /\ at[f] \notin {"stop", "wait"}
  /\ \A g \in Fronts \ {f} : ~Busy(g)
  /\ at[f] = "connect" => \A p \in Pids : at[p] # "none" => at[p] = "serving" /\ sock = p
  /\ at[f] \in {"reclaim", "rmPid", "rmSock", "spawn"} => \A p \in Pids : at[p] = "none"
  /\ at[f] \in {"rmSock", "spawn"} => pidFile = NoProcess
  /\ at[f] = "spawn" => sock = NoProcess
  /\ at[f] = "poll" => peer[f] \in Pids /\ Unhindered(peer[f]) /\ \A p \in Pids \ {peer[f]} : at[p] = "none"
  /\ at[f] = "failed" => peer[f] \in killed

\* The inductive invariant of such starts, whatever overlapped before.
AloneInv == old = {} /\ strangers = 0 => /\ \A p \in Pids : at[p] # "stranger"
                                        /\ \A f \in alone : Alone(f)

-----------------------------------------------------------------------------

USE DaemonAssumption DEF DaemonAssumption

\* The initial state satisfies the invariant: nothing runs, or one server that its files name.
LEMMA DaemonInitIInv == DaemonInit => DaemonIInv
<1> SUFFICES ASSUME DaemonInit PROVE DaemonIInv
  OBVIOUS
<1>1. PICK p \in Pids \cup {NoProcess} :
        /\ pidFile = p /\ sock = p /\ old = {p} \ {NoProcess}
        /\ at = [a \in Fronts \cup Pids |-> IF a \in Fronts THEN "idle" ELSE IF a = p THEN "serving" ELSE "none"]
  BY DEF DaemonInit
<1>2. /\ \A f \in Fronts : at[f] = "idle"
      /\ \A q \in Pids : at[q] = IF q = p THEN "serving" ELSE "none"
  BY <1>1
<1>3. DaemonTypeOK
  <2>1. crashes \in 0 .. MaxCrashes /\ strangers \in 0 .. MaxStrangers
    BY DEF DaemonInit
  <2>2. at \in [Fronts \cup Pids -> ServerSteps \cup FrontSteps]
    BY <1>1 DEF ServerSteps, FrontSteps
  <2> QED BY <1>1, <1>2, <2>1, <2>2 DEF DaemonInit, DaemonTypeOK, ServerSteps, FrontSteps
<1>4. Calm
  BY <1>1, <1>2 DEF Calm, OneFront, OneServer, FilesInv, BootInv, AnnounceInv, LeaveInv, StartInv, RemoveInv, GoalInv,
                    Busy, Working, Starting, Polls
<1> QED BY <1>3, <1>4 DEF DaemonIInv

\* Every step keeps the types.
LEMMA DaemonTypeStep == DaemonTypeOK /\ [DaemonNext]_daemonVars => DaemonTypeOK'
<1> SUFFICES ASSUME DaemonTypeOK, [DaemonNext]_daemonVars PROVE DaemonTypeOK'
  OBVIOUS
<1> USE DEF DaemonTypeOK, ServerSteps, FrontSteps

<1>1. ASSUME NEW a \in Fronts \cup Pids, Reclaim(a) PROVE DaemonTypeOK'
  BY <1>1 DEF Reclaim, Goto, AfterReclaim, counts
<1>2. ASSUME NEW a \in Fronts \cup Pids, RemovePid(a) PROVE DaemonTypeOK'
  BY <1>2 DEF RemovePid, Goto, AfterReclaim, counts
<1>3. ASSUME NEW a \in Fronts \cup Pids, RemoveSock(a) PROVE DaemonTypeOK'
  BY <1>3 DEF RemoveSock, Goto, AfterReclaim, counts
<1>4. ASSUME NEW p \in Pids, Boot(p) PROVE DaemonTypeOK'
  BY <1>4 DEF Boot, Goto, Leaves, Begins, counts
<1>5. ASSUME NEW p \in Pids, Listen(p) PROVE DaemonTypeOK'
  BY <1>5 DEF Listen, Goto, Leaves, Begins, counts
<1>6. ASSUME NEW p \in Pids, Announce(p) PROVE DaemonTypeOK'
  BY <1>6 DEF Announce, Goto, Leaves, Begins, counts
<1>7. ASSUME NEW p \in Pids, IdleExit(p) PROVE DaemonTypeOK'
  BY <1>7 DEF IdleExit, Goto, Leaves, Begins, counts
<1>8. ASSUME NEW p \in Pids, OffPid(p) PROVE DaemonTypeOK'
  BY <1>8 DEF OffPid, Goto, Leaves, Begins, counts
<1>9. ASSUME NEW p \in Pids, OffSock(p) PROVE DaemonTypeOK'
  BY <1>9 DEF OffSock, Goto, Leaves, Begins, counts
<1>10. ASSUME NEW p \in Pids, Exit(p) PROVE DaemonTypeOK'
  BY <1>10 DEF Exit, Goto, Leaves, Begins, counts
<1>11. ASSUME NEW p \in Pids, Crash(p) PROVE DaemonTypeOK'
  BY <1>11 DEF Crash, Goto, Leaves, Begins, counts
<1>12. ASSUME NEW p \in Pids, Reuse(p) PROVE DaemonTypeOK'
  BY <1>12 DEF Reuse, Goto, Leaves, Begins, counts
<1>13. ASSUME NEW f \in Fronts, Ensure(f) PROVE DaemonTypeOK'
  BY <1>13 DEF Ensure, Goto, Leaves, Begins, Alive, Listening, Answers, counts
<1>14. ASSUME NEW f \in Fronts, Connect(f) PROVE DaemonTypeOK'
  BY <1>14 DEF Connect, Goto, Leaves, Begins, Alive, Listening, Answers, counts
<1>15. ASSUME NEW f \in Fronts, ConnectFails(f) PROVE DaemonTypeOK'
  BY <1>15 DEF ConnectFails, Goto, Leaves, Begins, Alive, Listening, Answers, counts
<1>16. ASSUME NEW f \in Fronts, Spawn(f) PROVE DaemonTypeOK'
  BY <1>16 DEF Spawn, Goto, Leaves, Begins, Alive, Listening, Answers, counts
<1>17. ASSUME NEW f \in Fronts, PollEnds(f) PROVE DaemonTypeOK'
  BY <1>17 DEF PollEnds, Goto, Leaves, Begins, Alive, Listening, Answers, counts
<1>18. ASSUME NEW f \in Fronts, PollTimesOut(f) PROVE DaemonTypeOK'
  BY <1>18 DEF PollTimesOut, Goto, Leaves, Begins, Alive, Listening, Answers, counts
<1>19. ASSUME NEW f \in Fronts, Close(f) PROVE DaemonTypeOK'
  BY <1>19 DEF Close, Goto, Leaves, Begins, Alive, Listening, Answers, counts
<1>20. ASSUME NEW f \in Fronts, Stop(f) PROVE DaemonTypeOK'
  BY <1>20 DEF Stop, Goto, Leaves, Begins, Alive, Listening, Answers, counts
<1>21. ASSUME NEW f \in Fronts, AskToStop(f) PROVE DaemonTypeOK'
  BY <1>21 DEF AskToStop, Goto, Leaves, Begins, Alive, Listening, Answers, counts
<1>22. ASSUME NEW f \in Fronts, StopUnanswered(f) PROVE DaemonTypeOK'
  BY <1>22 DEF StopUnanswered, Goto, Leaves, Begins, Alive, Listening, Answers, counts
<1>23. ASSUME NEW f \in Fronts, Terminate(f) PROVE DaemonTypeOK'
  BY <1>23 DEF Terminate, Goto, Leaves, Begins, Alive, Listening, Answers, counts
<1>24. ASSUME NEW f \in Fronts, WaitEnds(f) PROVE DaemonTypeOK'
  BY <1>24 DEF WaitEnds, Goto, Leaves, Begins, Alive, Listening, Answers, counts
<1>25. CASE UNCHANGED daemonVars
  BY <1>25 DEF daemonVars, counts
<1> QED BY <1>1, <1>2, <1>3, <1>4, <1>5, <1>6, <1>7, <1>8, <1>9, <1>10, <1>11, <1>12, <1>13, <1>14, <1>15,
       <1>16, <1>17, <1>18, <1>19, <1>20, <1>21, <1>22, <1>23, <1>24, <1>25
       DEF DaemonNext, Serve, Front

LEMMA DaemonCalmStep == DaemonTypeOK /\ Calm /\ [DaemonNext]_daemonVars /\ ~overlapped' => Calm'
<1> SUFFICES ASSUME DaemonTypeOK, Calm, [DaemonNext]_daemonVars, ~overlapped' PROVE Calm'
  OBVIOUS
<1> USE DEF Calm, OneFront, OneServer, FilesInv, BootInv, AnnounceInv, LeaveInv, StartInv, RemoveInv, GoalInv,
            Busy, Working, Starting, Polls, Goto, DaemonTypeOK, ServerSteps, FrontSteps, counts

<1>1. ASSUME NEW f \in Fronts, Reclaim(f) PROVE Calm'
  BY <1>1 DEF Reclaim, AfterReclaim, Alive
<1>2. ASSUME NEW f \in Fronts, RemovePid(f) PROVE Calm'
  BY <1>2 DEF RemovePid
<1>3. ASSUME NEW f \in Fronts, RemoveSock(f) PROVE Calm'
  BY <1>3 DEF RemoveSock, AfterReclaim
<1>4. ASSUME NEW p \in Pids, Reclaim(p) PROVE Calm'
  BY <1>4 DEF Reclaim, AfterReclaim, Alive
<1>5. ASSUME NEW p \in Pids, RemovePid(p) PROVE Calm'
  BY <1>5 DEF RemovePid
<1>6. ASSUME NEW p \in Pids, RemoveSock(p) PROVE Calm'
  BY <1>6 DEF RemoveSock, AfterReclaim
<1>7. ASSUME NEW p \in Pids, Boot(p) PROVE Calm'
  BY <1>7 DEF Boot, Alive
<1>8. ASSUME NEW p \in Pids, Listen(p) PROVE Calm'
  BY <1>8 DEF Listen
<1>9. ASSUME NEW p \in Pids, Announce(p) PROVE Calm'
  BY <1>9 DEF Announce
<1>10. ASSUME NEW p \in Pids, IdleExit(p) PROVE Calm'
  <2>1. \A b \in Fronts \cup Pids : ~Busy(b)
    BY <1>10 DEF IdleExit, Begins
  <2> QED BY <1>10, <2>1 DEF IdleExit, Begins
<1>11. ASSUME NEW p \in Pids, OffPid(p) PROVE Calm'
  BY <1>11 DEF OffPid
<1>12. ASSUME NEW p \in Pids, OffSock(p) PROVE Calm'
  BY <1>12 DEF OffSock
<1>13. ASSUME NEW p \in Pids, Exit(p) PROVE Calm'
  BY <1>13 DEF Exit
<1>14. ASSUME NEW p \in Pids, Crash(p) PROVE Calm'
  BY <1>14 DEF Crash, Leaves
<1>15. ASSUME NEW p \in Pids, Reuse(p) PROVE Calm'
  BY <1>15 DEF Reuse
<1>16. ASSUME NEW f \in Fronts, Ensure(f) PROVE Calm'
  <2>1. \A b \in Fronts \cup Pids : ~Busy(b)
    BY <1>16 DEF Ensure
  <2> QED BY <1>16, <2>1 DEF Ensure
<1>17. ASSUME NEW f \in Fronts, Connect(f) PROVE Calm'
  BY <1>17 DEF Connect, Answers, Listening
<1>18. ASSUME NEW f \in Fronts, ConnectFails(f) PROVE Calm'
  BY <1>18 DEF ConnectFails, Answers, Listening
<1>19. ASSUME NEW f \in Fronts, Spawn(f) PROVE Calm'
  BY <1>19 DEF Spawn
<1>20. ASSUME NEW f \in Fronts, PollEnds(f) PROVE Calm'
  BY <1>20 DEF PollEnds, Alive, Answers, Listening
<1>21. ASSUME NEW f \in Fronts, PollTimesOut(f) PROVE Calm'
  BY <1>21 DEF PollTimesOut
<1>22. ASSUME NEW f \in Fronts, Close(f) PROVE Calm'
  BY <1>22 DEF Close
<1>23. ASSUME NEW f \in Fronts, Stop(f) PROVE Calm'
  <2>1. \A b \in Fronts \cup Pids : ~Busy(b)
    BY <1>23 DEF Stop, Begins
  <2> QED BY <1>23, <2>1 DEF Stop, Begins
<1>24. ASSUME NEW f \in Fronts, AskToStop(f) PROVE Calm'
  BY <1>24 DEF AskToStop, Listening
<1>25. ASSUME NEW f \in Fronts, StopUnanswered(f) PROVE Calm'
  BY <1>25 DEF StopUnanswered, Listening, Alive
<1>26. ASSUME NEW f \in Fronts, Terminate(f) PROVE Calm'
  BY <1>26 DEF Terminate, Alive, Leaves
<1>27. ASSUME NEW f \in Fronts, WaitEnds(f) PROVE Calm'
  <2>1. ~Alive(peer[f]) /\ at[f] = "wait"
    BY <1>27 DEF WaitEnds
  <2>2. \A p \in Pids : at[p] \notin {"offPid", "offSock", "exiting"}
    BY <2>1 DEF Alive
  <2> QED BY <1>27, <2>1, <2>2 DEF WaitEnds
<1>28. CASE UNCHANGED daemonVars
  BY <1>28 DEF daemonVars
<1> QED BY <1>1, <1>2, <1>3, <1>4, <1>5, <1>6, <1>7, <1>8, <1>9, <1>10, <1>11, <1>12, <1>13, <1>14, <1>15,
       <1>16, <1>17, <1>18, <1>19, <1>20, <1>21, <1>22, <1>23, <1>24, <1>25, <1>26, <1>27, <1>28
       DEF DaemonNext, Serve, Front

\* Every step keeps the invariant, for once starts and stops have overlapped they have for good.
LEMMA DaemonInductive == DaemonIInv /\ [DaemonNext]_daemonVars => DaemonIInv'
<1> SUFFICES ASSUME DaemonIInv, [DaemonNext]_daemonVars PROVE DaemonIInv'
  OBVIOUS
<1>1. DaemonTypeOK'
  BY DaemonTypeStep DEF DaemonIInv
<1>2. ~overlapped' => ~overlapped
  BY DEF DaemonNext, Serve, Front, daemonVars, counts, Reclaim, RemovePid, RemoveSock, Boot, Listen, Announce, IdleExit, Begins,
         OffPid, OffSock, Exit, Crash, Reuse, Ensure, Connect, ConnectFails, Spawn, PollEnds, PollTimesOut, Close,
         Stop, AskToStop, StopUnanswered, Terminate, WaitEnds
<1> QED BY <1>1, <1>2, DaemonCalmStep DEF DaemonIInv

\* The invariant holds in every behaviour.
LEMMA DaemonInvariance == DaemonSpec => []DaemonIInv
BY DaemonInitIInv, DaemonInductive, PTL DEF DaemonSpec

-----------------------------------------------------------------------------

\* Every step keeps what a start that is alone knows.
LEMMA DaemonAloneStep == DaemonTypeOK /\ AloneInv /\ [DaemonNext]_daemonVars => AloneInv'
<1> SUFFICES ASSUME DaemonTypeOK, AloneInv, [DaemonNext]_daemonVars, old' = {}, strangers' = 0
             PROVE  (\A p \in Pids : at'[p] # "stranger") /\ \A f \in alone' : Alone(f)'
  BY DEF AloneInv
<1> DEFINE Goal == (\A p \in Pids : at'[p] # "stranger") /\ \A f \in alone' : Alone(f)'
<1> USE DEF AloneInv, Alone, Unhindered, Busy, Goto, DaemonTypeOK, ServerSteps, FrontSteps, counts
<1>1. ASSUME NEW g \in Fronts, Reclaim(g) PROVE Goal
  BY <1>1 DEF Reclaim, AfterReclaim, Alive
<1>2. ASSUME NEW g \in Fronts, RemovePid(g) PROVE Goal
  BY <1>2 DEF RemovePid
<1>3. ASSUME NEW g \in Fronts, RemoveSock(g) PROVE Goal
  BY <1>3 DEF RemoveSock, AfterReclaim
<1>4. ASSUME NEW p \in Pids, Reclaim(p) PROVE Goal
  BY <1>4 DEF Reclaim, AfterReclaim, Alive
<1>5. ASSUME NEW p \in Pids, RemovePid(p) PROVE Goal
  BY <1>5 DEF RemovePid
<1>6. ASSUME NEW p \in Pids, RemoveSock(p) PROVE Goal
  BY <1>6 DEF RemoveSock, AfterReclaim
<1>7. ASSUME NEW p \in Pids, Boot(p) PROVE Goal
  BY <1>7 DEF Boot, Alive
<1>8. ASSUME NEW p \in Pids, Listen(p) PROVE Goal
  BY <1>8 DEF Listen
<1>9. ASSUME NEW p \in Pids, Announce(p) PROVE Goal
  BY <1>9 DEF Announce
<1>10. ASSUME NEW p \in Pids, IdleExit(p) PROVE Goal
  BY <1>10 DEF IdleExit, Begins
<1>11. ASSUME NEW p \in Pids, OffPid(p) PROVE Goal
  BY <1>11 DEF OffPid
<1>12. ASSUME NEW p \in Pids, OffSock(p) PROVE Goal
  BY <1>12 DEF OffSock
<1>13. ASSUME NEW p \in Pids, Exit(p) PROVE Goal
  BY <1>13 DEF Exit
<1>14. ASSUME NEW p \in Pids, Crash(p) PROVE Goal
  BY <1>14 DEF Crash, Leaves
<1>15. ASSUME NEW p \in Pids, Reuse(p) PROVE Goal
  BY <1>15 DEF Reuse
<1>16. ASSUME NEW g \in Fronts, Ensure(g) PROVE Goal
  BY <1>16 DEF Ensure
<1>17. ASSUME NEW g \in Fronts, Connect(g) PROVE Goal
  BY <1>17 DEF Connect, Answers, Listening
<1>18. ASSUME NEW g \in Fronts, ConnectFails(g) PROVE Goal
  BY <1>18 DEF ConnectFails, Answers, Listening
<1>19. ASSUME NEW g \in Fronts, Spawn(g) PROVE Goal
  BY <1>19 DEF Spawn
<1>20. ASSUME NEW g \in Fronts, PollEnds(g) PROVE Goal
  BY <1>20 DEF PollEnds, Alive, Answers, Listening
<1>21. ASSUME NEW g \in Fronts, PollTimesOut(g) PROVE Goal
  BY <1>21 DEF PollTimesOut
<1>22. ASSUME NEW g \in Fronts, Close(g) PROVE Goal
  BY <1>22 DEF Close
<1>23. ASSUME NEW g \in Fronts, Stop(g) PROVE Goal
  BY <1>23 DEF Stop, Begins
<1>24. ASSUME NEW g \in Fronts, AskToStop(g) PROVE Goal
  BY <1>24 DEF AskToStop, Listening
<1>25. ASSUME NEW g \in Fronts, StopUnanswered(g) PROVE Goal
  BY <1>25 DEF StopUnanswered, Listening, Alive
<1>26. ASSUME NEW g \in Fronts, Terminate(g) PROVE Goal
  BY <1>26 DEF Terminate, Alive, Leaves
<1>27. ASSUME NEW g \in Fronts, WaitEnds(g) PROVE Goal
  BY <1>27 DEF WaitEnds, Alive
<1>28. CASE UNCHANGED daemonVars
  BY <1>28 DEF daemonVars
<1> QED BY <1>1, <1>2, <1>3, <1>4, <1>5, <1>6, <1>7, <1>8, <1>9, <1>10, <1>11, <1>12, <1>13, <1>14, <1>15,
       <1>16, <1>17, <1>18, <1>19, <1>20, <1>21, <1>22, <1>23, <1>24, <1>25, <1>26, <1>27, <1>28
       DEF DaemonNext, Serve, Front

\* Every variable keeps its type: no front end takes a server's step, and no server a front end's.
THEOREM DaemonTyped == DaemonSpec => []DaemonTypeOK
<1>1. DaemonIInv => DaemonTypeOK
  BY DEF DaemonIInv
<1> QED BY <1>1, DaemonInvariance, PTL

\* While starts, stops and idle exits do not overlap, a server that serves is the one its socket and its pid file
\* name, whatever servers were killed and whatever pids other programs were given: the files, which nothing
\* locks, need no lock then (daemon.ts 245-349, server.ts).
THEOREM ServedByName == DaemonSpec => []ServedAsNamed
<1>1. DaemonIInv => ServedAsNamed
  BY DEF DaemonIInv, Calm, FilesInv, ServedAsNamed
<1> QED BY <1>1, DaemonInvariance, PTL

\* A start with nothing else under way, whose poll does not reach its deadline, fails only because its server was
\* killed, an older server runs, or another program has the last server's pid: whatever files servers left that died
\* at any step, and however many starts overlapped before, the way is free after one reclaim (reclaimStaleDaemon,
\* runServer).
THEOREM AloneStarts == DaemonSpec => []StartsWhenAlone
<1>1. DaemonInit => AloneInv
  BY DEF DaemonInit, AloneInv
<1>2. DaemonTypeOK /\ AloneInv => StartsWhenAlone
  BY DEF DaemonTypeOK, AloneInv, Alone, StartsWhenAlone
<1> QED BY <1>1, <1>2, DaemonAloneStep, DaemonTyped, PTL DEF DaemonSpec

-----------------------------------------------------------------------------
(* The names of herdr's tabs.                                              *)

\* A name that a person gave is never what a pass claims or is about to give.
ClaimsAreOurs ==
  /\ owned # Persons
  /\ \A p \in Passes :
       /\ pass[p].claim # Persons /\ pass[p].next # Persons
       /\ pass[p].at = "rename" => pass[p].seen # Persons /\ pass[p].next \in Titles

\* The invariant of types and claims.
IInv == TypeOK /\ ClaimsAreOurs

\* While no pass wrote under another: a pass knows the claim there is, and the label there is until it renames
\* the tab itself, and the name that OAK gave is claimed or about to be.
Saving(p) == pass[p].at \in {"save", "saved"}
ClaimKnown == \A p \in Passes : pass[p].at \in {"decide", "rename", "save", "saved"} => pass[p].claim = owned
LabelKnown == \A p \in Passes : pass[p].at \in {"pending", "load", "decide", "rename"} => pass[p].seen = label
NameClaimed == label \in {owned, AgentTitle} \/ \E p \in Passes : Saving(p) /\ pass[p].next = label
SavesName ==
  \A p \in Passes : Saving(p) =>
    \/ pass[p].next = label
    \/ label = AgentTitle
    \/ \E q \in Passes \ {p} : Saving(q) /\ pass[q].next = label

\* The inductive invariant of what is claimed.
ClaimInv == ~raced => ClaimKnown /\ (given # None => LabelKnown /\ NameClaimed /\ SavesName)

\* While no pass wrote under another: a pass that is to rename the tab goes by the time there is, which does not
\* hold it back; the record tells when the title the tab wears was read, or the one pass that saves will tell.
TimeKnown ==
  \A p \in Passes : pass[p].at = "rename" =>
    /\ pass[p].read = IF pass[p].next = pass[p].claim THEN time ELSE pass[p].listed
    /\ pass[p].seen = pass[p].claim /\ time # None => time <= pass[p].listed
OnlySaver(p) == Saving(p) /\ \A q \in Passes \ {p} : ~Saving(q)
TimeRecorded == (\A q \in Passes : ~Saving(q)) => label = owned /\ time # None /\ given <= time
TimeCarried ==
  \A p \in Passes : OnlySaver(p) =>
    /\ pass[p].next = label
    /\ pass[p].at = "save" => given <= pass[p].listed
    /\ pass[p].at = "saved" => time # None /\ given <= time

\* The inductive invariant of when titles were read.
TimeInv == ~raced => TimeKnown /\ (given # None => TimeRecorded /\ TimeCarried)

-----------------------------------------------------------------------------

USE TabsAssumption DEF TabsAssumption

\* The initial state satisfies the invariant.
LEMMA InitIInv == Init => IInv
<1> SUFFICES ASSUME Init PROVE IInv
  OBVIOUS
<1>1. 0 \in Times
  BY DEF Times
<1>2. Idle \in PassStates /\ Idle.at = "idle" /\ Idle.claim = None /\ Idle.next = None
  BY <1>1 DEF Idle, PassStates, Labels
<1>3. names \in 0 .. MaxNames /\ failures \in 0 .. MaxFailures
  BY DEF Init
<1>4. TypeOK
  BY <1>1, <1>2, <1>3 DEF Init, TypeOK, Labels
<1>5. ClaimsAreOurs
  BY <1>2 DEF Init, ClaimsAreOurs, Labels
<1> QED BY <1>4, <1>5 DEF IInv

\* A decision claims nothing but the claim there was, a title, or nothing; and it renames no person's name.
LEMMA DecisionOurs ==
  ASSUME NEW seen \in Labels, NEW claim \in Labels \cup {None}, claim # Persons, NEW when, NEW listed, NEW name \in Times
  PROVE  LET d == Decide(seen, claim, when, listed, name)
         IN  /\ d.claim \in Labels \cup {None} /\ d.claim # Persons
             /\ d.rename => seen # Persons /\ d.claim \in Titles
<1> DEFINE d == Decide(seen, claim, when, listed, name)
<1>1. Keeps(seen, claim) \in {claim, None}
  BY DEF Keeps
<1>2. CASE d = Decision(Keeps(seen, claim), FALSE)
  BY <1>1, <1>2 DEF Decision, Labels
<1>3. CASE d = Decision(name, seen # name) /\ name # 0 /\ Ours(seen, claim, name)
  <2>1. name \in Titles
    BY <1>3 DEF Titles, Times
  <2>2. Persons \notin {name, claim, Blank, AgentTitle}
    BY <2>1 DEF Labels
  <2> QED BY <1>3, <2>1, <2>2 DEF Decision, Ours, Labels
<1> QED BY <1>2, <1>3 DEF Decide

\* What a pass is made of.
LEMMA PassType ==
  ASSUME TypeOK, NEW p \in Passes
  PROVE  /\ pass[p] \in PassStates
         /\ pass[p].listed \in Times /\ pass[p].name \in Times /\ pass[p].seen \in Labels
         /\ pass[p].claim \in Labels \cup {None} /\ pass[p].next \in Labels \cup {None}
         /\ pass[p].read \in Times \cup {None}
<1>1. pass[p] \in PassStates
  BY DEF TypeOK
<1> QED BY <1>1 DEF PassStates

\* A pass that is over knows nothing.
LEMMA IdleType == Idle \in PassStates /\ Idle.at = "idle" /\ Idle.claim = None /\ Idle.next = None
<1>1. 0 \in Times /\ Blank \in Labels
  BY DEF Times, Labels
<1> QED BY <1>1 DEF PassStates, Idle

\* What a pass may become.
LEMMA PassUpdate ==
  ASSUME NEW x \in PassStates, NEW t \in Times, NEW n \in Times, NEW label0 \in Labels,
         NEW c \in Labels \cup {None}, NEW r \in Times \cup {None}
  PROVE  /\ [x EXCEPT !.at = "title", !.listed = t] \in PassStates
         /\ [x EXCEPT !.at = "load", !.name = n, !.seen = label0] \in PassStates
         /\ [x EXCEPT !.at = "pending", !.seen = label0] \in PassStates
         /\ [x EXCEPT !.at = "load", !.listed = t, !.name = n] \in PassStates
         /\ [x EXCEPT !.at = "decide", !.claim = c] \in PassStates
         /\ [x EXCEPT !.at = "rename", !.next = c, !.read = r] \in PassStates
         /\ [x EXCEPT !.at = "save", !.next = c] \in PassStates
         /\ [x EXCEPT !.at = "save", !.read = None] \in PassStates
         /\ [x EXCEPT !.at = "save", !.next = c, !.read = None] \in PassStates
         /\ [x EXCEPT !.at = "saved"] \in PassStates
  BY DEF PassStates

\* A step of one pass keeps the invariant when what that pass becomes is well formed and ours.
LEMMA OnePass ==
  ASSUME IInv, NEW p \in Passes, NEW x \in PassStates, pass' = [pass EXCEPT ![p] = x],
         x.claim # Persons, x.next # Persons, x.at = "rename" => x.seen # Persons /\ x.next \in Titles,
         UNCHANGED <<title, label, owned, time, saver, list, reading, names, failures, given, raced>>,
         x.at # "saved"
  PROVE  IInv'
<1>1. TypeOK'
  BY DEF IInv, TypeOK
<1>2. ClaimsAreOurs'
  BY DEF IInv, TypeOK, ClaimsAreOurs
<1> QED BY <1>1, <1>2 DEF IInv

\* Every step keeps the invariant.
LEMMA TabsStep == IInv /\ [Next]_vars => IInv'
<1> SUFFICES ASSUME IInv, [Next]_vars PROVE IInv'
  OBVIOUS
<1>0. TypeOK /\ ClaimsAreOurs
  BY DEF IInv
<1>a. \A p \in Apps \cup Syncs : p \in Passes
  BY DEF Passes
<1>1. CASE Retitle
  <2>1. title' \in Times
    BY <1>0, <1>1 DEF Retitle, TypeOK, Times
  <2> QED BY <1>0, <1>1, <2>1 DEF Retitle, IInv, TypeOK, ClaimsAreOurs
<1>2. CASE Name
  <2>1. names' \in 0 .. MaxNames
    BY <1>0, <1>2 DEF Name, TypeOK
  <2>2. label' \in Labels
    BY <1>2 DEF Name, Labels
  <2> QED BY <1>0, <1>2, <2>1, <2>2 DEF Name, IInv, TypeOK, ClaimsAreOurs
<1>3. ASSUME NEW p \in Apps, ListStart(p) \/ ListEnd(p) PROVE IInv'
  <2>1. ListStart(p) => reading' \in [Apps -> Times \cup {None}] /\ UNCHANGED list
    BY <1>0 DEF ListStart, TypeOK
  <2>2. ListEnd(p) => /\ reading' \in [Apps -> Times \cup {None}]
                      /\ list' \in [Apps -> [listed : Times, name : Times]]
    BY <1>0 DEF ListEnd, TypeOK
  <2> QED BY <1>0, <1>3, <2>1, <2>2 DEF ListStart, ListEnd, IInv, TypeOK, ClaimsAreOurs
<1>b. title \in Times /\ label \in Labels /\ owned \in Labels \cup {None} /\ time \in Times \cup {None}
  BY <1>0 DEF TypeOK
<1>c. None \notin Labels /\ Persons # None
  BY DEF Labels
<1>4. ASSUME NEW p \in Passes, SyncStart(p) PROVE IInv'
  <2> DEFINE x == [Idle EXCEPT !.at = "title", !.listed = title]
  <2>1. x \in PassStates
    BY ZenonT(60), <1>b, IdleType, PassUpdate
  <2>2. x.at = "title" /\ x.claim = None /\ x.next = None
    BY DEF Idle
  <2> HIDE DEF x
  <2>3. pass' = [pass EXCEPT ![p] = x]
    BY <1>4 DEF SyncStart, x
  <2> QED BY <1>4, <1>c, <2>1, <2>2, <2>3, OnePass DEF SyncStart
<1>5. ASSUME NEW p \in Passes, SyncSnapshot(p) PROVE IInv'
  <2> DEFINE x == IF title = 0 THEN Idle
                  ELSE [pass[p] EXCEPT !.at = "load", !.name = title, !.seen = label]
  <2>1. x \in PassStates
    BY ZenonT(60), <1>0, <1>b, IdleType, PassType, PassUpdate
  <2>2. /\ x.at \in {"idle", "load"}
        /\ x.claim \in {None, pass[p].claim} /\ x.next \in {None, pass[p].next}
    BY <1>0, PassType DEF Idle, PassStates
  <2>3. x.claim # Persons /\ x.next # Persons
    BY <1>0, <1>c, <2>2 DEF ClaimsAreOurs
  <2> HIDE DEF x
  <2>4. pass' = [pass EXCEPT ![p] = x]
    BY <1>5 DEF SyncSnapshot, x
  <2> QED BY <1>5, <2>1, <2>2, <2>3, <2>4, OnePass DEF SyncSnapshot
<1>6. ASSUME NEW p \in Passes, AppSnapshot(p) PROVE IInv'
  <2> DEFINE x == [Idle EXCEPT !.at = "pending", !.seen = label]
  <2>1. x \in PassStates
    BY ZenonT(60), <1>b, IdleType, PassUpdate
  <2>2. x.at = "pending" /\ x.claim = None /\ x.next = None
    BY DEF Idle
  <2> HIDE DEF x
  <2>3. pass' = [pass EXCEPT ![p] = x]
    BY <1>6 DEF AppSnapshot, x
  <2> QED BY <1>6, <1>c, <2>1, <2>2, <2>3, OnePass DEF AppSnapshot
<1>7. ASSUME NEW p \in Apps, NEW q \in Passes, q = p, AppStart(p) PROVE IInv'
  <2> DEFINE x == [pass[q] EXCEPT !.at = "load", !.listed = list[p].listed, !.name = list[p].name]
  <2>1. list[p].listed \in Times /\ list[p].name \in Times
    BY <1>0 DEF TypeOK
  <2>2. x \in PassStates
    BY ZenonT(60), <1>0, <2>1, PassType, PassUpdate
  <2>3. x.at = "load" /\ x.claim = pass[q].claim /\ x.next = pass[q].next
    BY <1>0, PassType DEF PassStates
  <2> HIDE DEF x
  <2>4. pass' = [pass EXCEPT ![q] = x]
    BY <1>0, <1>7 DEF AppStart, TypeOK, x
  <2> QED BY <1>0, <1>7, <2>2, <2>3, <2>4, OnePass DEF AppStart, ClaimsAreOurs
<1>8. ASSUME NEW p \in Passes, LoadClaim(p) PROVE IInv'
  <2> DEFINE x == [pass[p] EXCEPT !.at = "decide", !.claim = owned]
  <2>1. x \in PassStates
    BY ZenonT(60), <1>0, <1>b, PassType, PassUpdate
  <2>2. x.at = "decide" /\ x.claim = owned /\ x.next = pass[p].next
    BY <1>0, PassType DEF PassStates
  <2> HIDE DEF x
  <2>3. pass' = [pass EXCEPT ![p] = x]
    BY <1>0, <1>8 DEF LoadClaim, TypeOK, x
  <2> QED BY <1>0, <1>8, <2>1, <2>2, <2>3, OnePass DEF LoadClaim, ClaimsAreOurs
<1>9. ASSUME NEW p \in Passes, LoadTime(p) PROVE IInv'
  <2> DEFINE d == Decide(pass[p].seen, pass[p].claim, time, pass[p].listed, pass[p].name)
             r == IF d.claim = pass[p].claim THEN time ELSE pass[p].listed
             x == IF d.rename THEN [pass[p] EXCEPT !.at = "rename", !.next = d.claim, !.read = r]
                  ELSE IF d.claim # pass[p].claim THEN [pass[p] EXCEPT !.at = "save", !.next = d.claim]
                  ELSE Idle
  <2>1. /\ d.claim \in Labels \cup {None} /\ d.claim # Persons
        /\ d.rename => pass[p].seen # Persons /\ d.claim \in Titles
    <3>1. pass[p].claim # Persons
      BY <1>0 DEF ClaimsAreOurs
    <3> QED BY <1>0, <3>1, PassType, DecisionOurs
  <2>2. r \in Times \cup {None}
    BY <1>0, <1>b, PassType
  <2> HIDE DEF d, r
  <2>3. x \in PassStates
    <3>1. pass[p] \in PassStates
      BY <1>0, PassType
    <3>2. [pass[p] EXCEPT !.at = "rename", !.next = d.claim, !.read = r] \in PassStates
      BY <2>1, <2>2, <3>1 DEF PassStates
    <3>3. [pass[p] EXCEPT !.at = "save", !.next = d.claim] \in PassStates
      BY <2>1, <3>1 DEF PassStates
    <3> QED BY <3>2, <3>3, IdleType
  <2>4. /\ x.at \in {"rename", "save", "idle"} /\ (x.at = "rename" => d.rename /\ x.next = d.claim)
        /\ x.claim \in {None, pass[p].claim} /\ x.next \in {None, d.claim} /\ x.seen \in {pass[p].seen, Blank}
    <3>1. CASE d.rename
      BY <1>0, <3>1, PassType DEF PassStates
    <3>2. CASE ~d.rename /\ d.claim # pass[p].claim
      BY <1>0, <3>2, PassType DEF PassStates
    <3>3. CASE ~d.rename /\ d.claim = pass[p].claim
      BY <3>3 DEF Idle
    <3> QED BY <3>1, <3>2, <3>3
  <2>5. pass' = [pass EXCEPT ![p] = x]
    BY <1>9 DEF LoadTime, d, r
  <2>6. x.claim # Persons /\ x.next # Persons /\ (x.at = "rename" => x.seen # Persons /\ x.next \in Titles)
    BY <1>0, <1>c, <2>1, <2>4 DEF ClaimsAreOurs
  <2> HIDE DEF x
  <2> QED BY ZenonT(60), <1>9, <2>3, <2>4, <2>5, <2>6, OnePass DEF LoadTime
<1>10. ASSUME NEW p \in Passes, Rename(p) PROVE IInv'
  <2> DEFINE x == IF pass[p].next # pass[p].claim THEN [pass[p] EXCEPT !.at = "save", !.read = None] ELSE Idle
  <2>1. x \in PassStates
    BY ZenonT(60), <1>0, PassType, PassUpdate, IdleType
  <2>2. /\ x.at \in {"save", "idle"}
        /\ x.claim \in {None, pass[p].claim} /\ x.next \in {None, pass[p].next}
    BY <1>0, PassType DEF PassStates, Idle
  <2>3. x.claim # Persons /\ x.next # Persons
    BY <1>0, <1>c, <2>2 DEF ClaimsAreOurs
  <2> HIDE DEF x
  <2>4. pass' = [pass EXCEPT ![p] = x]
    BY <1>10 DEF Rename, x
  <2>5. label' \in Labels /\ given' \in Times \cup {None} /\ raced' \in BOOLEAN
    BY <1>0, <1>10, PassType DEF Rename, ClaimsAreOurs, Labels, Races
  <2>6. TypeOK'
    BY <1>0, <1>10, <2>1, <2>2, <2>4, <2>5 DEF Rename, TypeOK
  <2>7. ClaimsAreOurs'
    BY <1>0, <1>10, <2>2, <2>3, <2>4 DEF Rename, TypeOK, ClaimsAreOurs
  <2> QED BY <2>6, <2>7 DEF IInv
<1>11. ASSUME NEW p \in Passes, RenameFails(p) PROVE IInv'
  <2> DEFINE x == IF pass[p].seen # pass[p].claim
                  THEN [pass[p] EXCEPT !.at = "save", !.next = pass[p].seen, !.read = None] ELSE Idle
  <2>1. x \in PassStates
    BY ZenonT(60), <1>0, PassType, PassUpdate, IdleType
  <2>2. /\ x.at \in {"save", "idle"}
        /\ x.claim \in {None, pass[p].claim} /\ x.next \in {None, pass[p].seen}
    BY <1>0, PassType DEF PassStates, Idle
  <2>3. x.claim # Persons /\ x.next # Persons
    BY <1>0, <1>11, <1>c, <2>2 DEF RenameFails, ClaimsAreOurs
  <2> HIDE DEF x
  <2>4. pass' = [pass EXCEPT ![p] = x]
    BY <1>11 DEF RenameFails, x
  <2>5. label' \in Labels /\ given' \in Times \cup {None} /\ raced' \in BOOLEAN
    BY <1>0, <1>11, PassType DEF RenameFails, ClaimsAreOurs, Labels, TypeOK
  <2>6. failures' \in 0 .. MaxFailures
    BY <1>0, <1>11 DEF RenameFails, TypeOK
  <2>7. TypeOK'
    BY <1>0, <1>11, <2>1, <2>2, <2>4, <2>5, <2>6 DEF RenameFails, TypeOK
  <2>8. ClaimsAreOurs'
    BY <1>0, <1>11, <2>2, <2>3, <2>4 DEF RenameFails, TypeOK, ClaimsAreOurs
  <2> QED BY <2>7, <2>8 DEF IInv
<1>12. ASSUME NEW p \in Passes, SaveTime(p) PROVE IInv'
  <2> DEFINE x == [pass[p] EXCEPT !.at = "saved"]
  <2>1. x \in PassStates
    BY ZenonT(60), <1>0, PassType, PassUpdate
  <2>2. x.at = "saved" /\ x.claim = pass[p].claim /\ x.next = pass[p].next
    BY <1>0, PassType DEF PassStates
  <2> HIDE DEF x
  <2>3. pass' = [pass EXCEPT ![p] = x]
    BY <1>0, <1>12 DEF SaveTime, TypeOK, x
  <2>4. saver' \in Passes \cup {None} /\ time' \in Times \cup {None} /\ raced' \in BOOLEAN
    BY <1>0, <1>12, PassType DEF SaveTime, Races
  <2>5. \A q \in Passes : pass'[q].at = "saved" => saver' = q
    <3>1. None \notin Passes
      BY DEF TabsAssumption
    <3>2. \A q \in Passes : pass[q].at # "saved"
      BY <1>0, <1>12, <3>1 DEF SaveTime, TypeOK
    <3> QED BY <1>0, <1>12, <2>3, <3>2 DEF SaveTime, TypeOK
  <2>6. TypeOK'
    BY <1>0, <1>12, <2>1, <2>3, <2>4, <2>5 DEF SaveTime, TypeOK
  <2>7. ClaimsAreOurs'
    BY <1>0, <1>12, <2>2, <2>3 DEF SaveTime, TypeOK, ClaimsAreOurs
  <2> QED BY <2>6, <2>7 DEF IInv
<1>13. ASSUME NEW p \in Passes, SaveClaim(p) PROVE IInv'
  <2>1. saver' = None /\ owned' = pass[p].next /\ pass' = [pass EXCEPT ![p] = Idle] /\ raced' \in BOOLEAN
    BY <1>13 DEF SaveClaim, Races
  <2>2. \A q \in Passes : pass'[q].at # "saved"
    BY <1>0, <1>13, <2>1, IdleType DEF SaveClaim, TypeOK
  <2>3. TypeOK'
    BY <1>0, <1>13, <2>1, <2>2, IdleType, PassType DEF SaveClaim, TypeOK
  <2>4. ClaimsAreOurs'
    BY <1>0, <1>c, <1>13, <2>1, IdleType DEF TypeOK, ClaimsAreOurs
  <2> QED BY <2>3, <2>4 DEF IInv
<1>14. ASSUME NEW p \in Passes, Die(p) PROVE IInv'
  <2>1. failures' \in 0 .. MaxFailures
    BY <1>0, <1>14 DEF Die, TypeOK
  <2>2. TypeOK'
    BY <1>0, <1>14, <2>1, IdleType DEF Die, TypeOK
  <2>3. ClaimsAreOurs'
    BY <1>0, <1>c, <1>14, IdleType DEF Die, TypeOK, ClaimsAreOurs
  <2> QED BY <2>2, <2>3 DEF IInv
<1>15. CASE UNCHANGED vars
  BY <1>0, <1>15 DEF vars, IInv, TypeOK, ClaimsAreOurs
<1> QED
  BY <1>1, <1>2, <1>3, <1>4, <1>5, <1>6, <1>7, <1>8, <1>9, <1>10, <1>11, <1>12, <1>13, <1>14, <1>15, <1>a DEF Next

-----------------------------------------------------------------------------

\* A pass that neither was nor is at its save changes nothing that is claimed.
LEMMA Quiet ==
  ASSUME IInv, ClaimInv, NEW p \in Passes, NEW x, pass' = [pass EXCEPT ![p] = x],
         ~Saving(p), x.at \notin {"save", "saved"},
         x.at \in {"decide", "rename"} /\ ~raced => x.claim = owned,
         x.at \in {"pending", "load", "decide", "rename"} /\ ~raced /\ given # None => x.seen = label,
         UNCHANGED <<label, owned, given, raced>>
  PROVE  ClaimInv'
<1> SUFFICES ASSUME ~raced' PROVE ClaimKnown' /\ (given' # None => LabelKnown' /\ NameClaimed' /\ SavesName')
  BY DEF ClaimInv
<1>0. ~raced /\ pass'[p] = x /\ \A q \in Passes : q # p => pass'[q] = pass[q]
  BY DEF IInv, TypeOK
<1>1. ClaimKnown'
  BY <1>0 DEF ClaimInv, ClaimKnown
<1>2. ASSUME given # None PROVE LabelKnown' /\ NameClaimed' /\ SavesName'
  <2>1. \A q \in Passes : Saving(q)' <=> Saving(q) /\ q # p
    BY <1>0 DEF Saving
  <2>2. LabelKnown'
    BY <1>0, <1>2 DEF ClaimInv, LabelKnown
  <2>3. NameClaimed'
    BY <1>0, <1>2, <2>1 DEF ClaimInv, NameClaimed
  <2>4. SavesName'
    BY <1>0, <1>2, <2>1 DEF ClaimInv, SavesName
  <2> QED BY <2>2, <2>3, <2>4
<1> QED BY <1>1, <1>2

\* No step takes the claim from a name that OAK gave, unless a pass wrote under another.
LEMMA ClaimStep == IInv /\ ClaimInv /\ [Next]_vars => ClaimInv'
<1> SUFFICES ASSUME IInv, ClaimInv, [Next]_vars PROVE ClaimInv'
  OBVIOUS
<1>0. pass \in [Passes -> PassStates] /\ raced \in BOOLEAN
  BY DEF IInv, TypeOK
<1>a. \A p \in Apps \cup Syncs : p \in Passes
  BY DEF Passes
<1>1. CASE UNCHANGED <<label, owned, given, raced, pass>>
  BY <1>1 DEF ClaimInv, ClaimKnown, LabelKnown, NameClaimed, SavesName, Saving
<1>2. CASE Name
  BY <1>2 DEF Name, ClaimInv, ClaimKnown
<1>3. ASSUME NEW p \in Passes, SyncStart(p) \/ SyncSnapshot(p) \/ AppSnapshot(p) PROVE ClaimInv'
  <2>1. CASE SyncStart(p)
    <3> DEFINE x == [Idle EXCEPT !.at = "title", !.listed = title]
    <3>1. x.at = "title"
      BY DEF Idle
    <3> HIDE DEF x
    <3>2. pass' = [pass EXCEPT ![p] = x]
      BY <2>1 DEF SyncStart, x
    <3> QED BY <2>1, <3>1, <3>2, Quiet DEF SyncStart, Saving
  <2>2. CASE SyncSnapshot(p)
    <3> DEFINE x == IF title = 0 THEN Idle
                    ELSE [pass[p] EXCEPT !.at = "load", !.name = title, !.seen = label]
    <3>1. x.at \in {"idle", "load"} /\ (x.at = "load" => x.seen = label)
      BY <1>0 DEF Idle, PassStates
    <3> HIDE DEF x
    <3>2. pass' = [pass EXCEPT ![p] = x]
      BY <2>2 DEF SyncSnapshot, x
    <3> QED BY <2>2, <3>1, <3>2, Quiet DEF SyncSnapshot, Saving
  <2>3. CASE AppSnapshot(p)
    <3> DEFINE x == [Idle EXCEPT !.at = "pending", !.seen = label]
    <3>1. x.at = "pending" /\ x.seen = label
      BY DEF Idle
    <3> HIDE DEF x
    <3>2. pass' = [pass EXCEPT ![p] = x]
      BY <2>3 DEF AppSnapshot, x
    <3> QED BY <2>3, <3>1, <3>2, Quiet DEF AppSnapshot, Saving
  <2> QED BY <1>3, <2>1, <2>2, <2>3
<1>4. ASSUME NEW p \in Apps, NEW q \in Passes, q = p, AppStart(p) PROVE ClaimInv'
  <2> DEFINE x == [pass[q] EXCEPT !.at = "load", !.listed = list[p].listed, !.name = list[p].name]
  <2>1. x.at = "load" /\ x.seen = pass[q].seen
    BY <1>0 DEF PassStates
  <2> HIDE DEF x
  <2>2. pass' = [pass EXCEPT ![q] = x]
    BY <1>0, <1>4 DEF AppStart, x
  <2> QED BY <1>4, <2>1, <2>2, Quiet DEF AppStart, Saving, ClaimInv, LabelKnown
<1>5. ASSUME NEW p \in Passes, LoadClaim(p) PROVE ClaimInv'
  <2> DEFINE x == [pass[p] EXCEPT !.at = "decide", !.claim = owned]
  <2>1. x.at = "decide" /\ x.claim = owned /\ x.seen = pass[p].seen
    BY <1>0 DEF PassStates
  <2> HIDE DEF x
  <2>2. pass' = [pass EXCEPT ![p] = x]
    BY <1>0, <1>5 DEF LoadClaim, x
  <2> QED BY <1>5, <2>1, <2>2, Quiet DEF LoadClaim, Saving, ClaimInv, LabelKnown
<1>6. ASSUME NEW p \in Passes, LoadTime(p) PROVE ClaimInv'
  <2> DEFINE d == Decide(pass[p].seen, pass[p].claim, time, pass[p].listed, pass[p].name)
             r == IF d.claim = pass[p].claim THEN time ELSE pass[p].listed
             x == IF d.rename THEN [pass[p] EXCEPT !.at = "rename", !.next = d.claim, !.read = r]
                  ELSE IF d.claim # pass[p].claim THEN [pass[p] EXCEPT !.at = "save", !.next = d.claim]
                  ELSE Idle
  <2>1. ~d.rename => d.claim \in {pass[p].seen, Keeps(pass[p].seen, pass[p].claim)}
    BY DEF Decide, Decision
  <2>2. pass' = [pass EXCEPT ![p] = x]
    BY <1>6 DEF LoadTime
  <2>3. pass[p].at = "decide" /\ UNCHANGED <<label, owned, given, raced>>
    BY <1>6 DEF LoadTime
  <2> HIDE DEF d, r
  <2>4. CASE d.rename \/ d.claim = pass[p].claim
    <3>1. x.at \in {"rename", "idle"} /\ (x.at = "rename" => x.claim = pass[p].claim /\ x.seen = pass[p].seen)
      <4>1. CASE d.rename
        BY <1>0, <4>1 DEF PassStates
      <4>2. CASE ~d.rename
        BY <2>4, <4>2 DEF Idle
      <4> QED BY <4>1, <4>2
    <3> HIDE DEF x
    <3> QED BY <2>2, <2>3, <3>1, Quiet DEF Saving, ClaimInv, ClaimKnown, LabelKnown
  <2>5. CASE ~d.rename /\ d.claim # pass[p].claim
    <3>1. x.at = "save" /\ x.claim = pass[p].claim /\ x.next = d.claim
      BY <1>0, <2>5 DEF PassStates
    <3> HIDE DEF x
    <3> SUFFICES ASSUME ~raced PROVE ClaimKnown' /\ (given' # None => LabelKnown' /\ NameClaimed' /\ SavesName')
      BY <2>3 DEF ClaimInv
    <3>2. pass'[p] = x /\ \A q \in Passes : q # p => pass'[q] = pass[q]
      BY <1>0, <2>2
    <3>3. ClaimKnown'
      BY <2>3, <3>1, <3>2 DEF ClaimInv, ClaimKnown
    <3>4. ASSUME given # None PROVE LabelKnown' /\ NameClaimed' /\ SavesName'
      <4>1. \A q \in Passes : Saving(q) => q # p /\ Saving(q)' /\ pass'[q].next = pass[q].next
        BY <2>3, <3>2 DEF Saving
      <4>2. LabelKnown'
        BY <2>3, <3>1, <3>2, <3>4 DEF ClaimInv, LabelKnown
      <4>3. NameClaimed'
        BY <2>3, <3>4, <4>1 DEF ClaimInv, NameClaimed
      <4>4. d.claim = label \/ label = AgentTitle \/ \E q \in Passes \ {p} : Saving(q) /\ pass[q].next = label
        <5>1. pass[p].seen = label /\ pass[p].claim = owned
          BY <2>3, <3>4 DEF ClaimInv, ClaimKnown, LabelKnown
        <5>2. CASE d.claim = pass[p].seen
          BY <5>1, <5>2
        <5>3. CASE d.claim = Keeps(pass[p].seen, pass[p].claim)
          <6>1. d.claim = None
            BY <2>5, <5>3 DEF Keeps
          <6>2. label # owned
            <7>1. label \in Labels /\ None \notin Labels
              BY DEF IInv, TypeOK, TabsAssumption
            <7> QED BY <5>1, <5>3, <6>1, <7>1 DEF Keeps
          <6> QED BY <3>4, <4>1, <6>2 DEF ClaimInv, NameClaimed
        <5> QED BY <2>1, <2>5, <5>2, <5>3
      <4>5. SavesName'
        <5> SUFFICES ASSUME NEW g \in Passes, Saving(g)'
                     PROVE  \/ pass'[g].next = label
                            \/ label = AgentTitle
                            \/ \E q \in Passes \ {g} : Saving(q)' /\ pass'[q].next = label
          BY <2>3 DEF SavesName
        <5>1. CASE g = p
          BY <3>1, <3>2, <4>1, <4>4, <5>1
        <5>2. CASE g # p
          <6>1. Saving(g) /\ pass'[g] = pass[g]
            BY <3>2, <5>2 DEF Saving
          <6> QED BY <3>4, <4>1, <6>1 DEF ClaimInv, SavesName
        <5> QED BY <5>1, <5>2
      <4> QED BY <4>2, <4>3, <4>5
    <3> QED BY <2>3, <3>3, <3>4
  <2> QED BY <2>4, <2>5
<1>b. ASSUME NEW p \in Passes, Races(p), ~raced'
      PROVE  ~raced /\ \A q \in Passes : q # p => pass[q].at \in {"idle", "title"}
  BY <1>0, <1>b DEF Races, Under
<1>7. ASSUME NEW p \in Passes, Rename(p) PROVE ClaimInv'
  <2> SUFFICES ASSUME ~raced' PROVE ClaimKnown' /\ LabelKnown' /\ NameClaimed' /\ SavesName'
    BY DEF ClaimInv
  <2> DEFINE x == IF pass[p].next # pass[p].claim THEN [pass[p] EXCEPT !.at = "save", !.read = None] ELSE Idle
  <2>1. ~raced /\ \A q \in Passes : q # p => pass[q].at \in {"idle", "title"}
    BY <1>7, <1>b DEF Rename
  <2>2. pass' = [pass EXCEPT ![p] = x]
    BY <1>7 DEF Rename
  <2>3. pass[p].claim = owned /\ owned' = owned /\ label' = pass[p].next
    BY <1>7, <2>1 DEF Rename, ClaimInv, ClaimKnown
  <2>4. \/ x.at = "save" /\ x.claim = owned /\ x.next = label'
        \/ x.at = "idle" /\ label' = owned
    <3>1. CASE pass[p].next # pass[p].claim
      BY <1>0, <2>3, <3>1 DEF PassStates
    <3>2. CASE pass[p].next = pass[p].claim
      BY <2>3, <3>2 DEF Idle
    <3> QED BY <3>1, <3>2
  <2> HIDE DEF x
  <2>5. pass'[p] = x /\ \A q \in Passes : q # p => pass'[q] = pass[q]
    BY <1>0, <2>2
  <2> QED BY <2>1, <2>3, <2>4, <2>5 DEF ClaimKnown, LabelKnown, NameClaimed, SavesName, Saving
<1>8. ASSUME NEW p \in Passes, RenameFails(p) PROVE ClaimInv'
  <2> SUFFICES ASSUME ~raced' PROVE ClaimInv'
    BY DEF ClaimInv
  <2> DEFINE x == IF pass[p].seen # pass[p].claim
                  THEN [pass[p] EXCEPT !.at = "save", !.next = pass[p].seen, !.read = None] ELSE Idle
  <2>1. pass[p].at = "rename" /\ pass' = [pass EXCEPT ![p] = x] /\ UNCHANGED <<label, owned, given, raced>>
    BY <1>8 DEF RenameFails
  <2>2. CASE pass[p].seen = pass[p].claim
    <3>1. x.at = "idle"
      BY <2>2 DEF Idle
    <3> HIDE DEF x
    <3> QED BY <2>1, <3>1, Quiet DEF Saving
  <2>3. CASE pass[p].seen # pass[p].claim
    <3>1. x.at = "save" /\ x.claim = pass[p].claim /\ x.next = pass[p].seen
      BY <1>0, <2>3 DEF PassStates
    <3> HIDE DEF x
    <3>2. pass'[p] = x /\ \A q \in Passes : q # p => pass'[q] = pass[q]
      BY <1>0, <2>1
    <3>3. ClaimKnown'
      BY <2>1, <3>1, <3>2 DEF ClaimInv, ClaimKnown
    <3>4. ASSUME given # None PROVE LabelKnown' /\ NameClaimed' /\ SavesName'
      <4>1. pass[p].seen = label
        BY <2>1, <3>4 DEF ClaimInv, LabelKnown
      <4>2. \A q \in Passes : Saving(q)' <=> Saving(q) \/ q = p
        BY <3>1, <3>2 DEF Saving
      <4>3. LabelKnown'
        BY <2>1, <3>1, <3>2, <3>4 DEF ClaimInv, LabelKnown
      <4>4. NameClaimed'
        BY <2>1, <3>1, <3>2, <4>1, <4>2 DEF NameClaimed
      <4>5. SavesName'
        BY <2>1, <3>1, <3>2, <4>1, <4>2 DEF SavesName
      <4> QED BY <4>3, <4>4, <4>5
    <3> QED BY <2>1, <3>3, <3>4 DEF ClaimInv
  <2> QED BY <2>2, <2>3
<1>9. ASSUME NEW p \in Passes, SaveTime(p) PROVE ClaimInv'
  <2> SUFFICES ASSUME ~raced' PROVE ClaimKnown' /\ (given' # None => LabelKnown' /\ NameClaimed' /\ SavesName')
    BY DEF ClaimInv
  <2> DEFINE x == [pass[p] EXCEPT !.at = "saved"]
  <2>1. ~raced /\ \A q \in Passes : q # p => pass[q].at \in {"idle", "title"}
    BY <1>9, <1>b DEF SaveTime
  <2>2. x.at = "saved" /\ x.claim = pass[p].claim /\ x.next = pass[p].next
    BY <1>0 DEF PassStates
  <2> HIDE DEF x
  <2>3. pass' = [pass EXCEPT ![p] = x]
    BY <1>0, <1>9 DEF SaveTime, x
  <2>4. pass[p].at = "save" /\ UNCHANGED <<label, owned, given>>
    BY <1>9 DEF SaveTime
  <2>5. pass'[p] = x /\ \A q \in Passes : q # p => pass'[q] = pass[q]
    BY <1>0, <2>3
  <2>6. \A q \in Passes : /\ Saving(q) <=> q = p
                          /\ Saving(q)' <=> q = p
    BY <2>1, <2>2, <2>4, <2>5 DEF Saving
  <2>7. ClaimKnown' /\ LabelKnown'
    BY <2>1, <2>2, <2>4, <2>5 DEF ClaimInv, ClaimKnown, LabelKnown
  <2>8. given # None => NameClaimed' /\ SavesName'
    BY <2>1, <2>2, <2>4, <2>5, <2>6 DEF ClaimInv, NameClaimed, SavesName
  <2> QED BY <2>4, <2>7, <2>8
<1>10. ASSUME NEW p \in Passes, SaveClaim(p) PROVE ClaimInv'
  <2> SUFFICES ASSUME ~raced' PROVE ClaimKnown' /\ (given' # None => LabelKnown' /\ NameClaimed' /\ SavesName')
    BY DEF ClaimInv
  <2>1. ~raced /\ \A q \in Passes : q # p => pass[q].at \in {"idle", "title"}
    BY <1>10, <1>b DEF SaveClaim
  <2>2. pass[p].at = "saved" /\ owned' = pass[p].next /\ UNCHANGED <<label, given>>
    BY <1>10 DEF SaveClaim
  <2>3. Idle.at = "idle" /\ pass'[p] = Idle /\ \A q \in Passes : q # p => pass'[q] = pass[q]
    BY <1>0, <1>10, IdleType DEF SaveClaim
  <2>4. \A q \in Passes : pass'[q].at \in {"idle", "title"}
    BY <2>1, <2>3
  <2>5. \A q \in Passes : Saving(q) <=> q = p
    BY <2>1, <2>2 DEF Saving
  <2>6. given # None => label \in {owned', AgentTitle}
    BY <2>1, <2>2, <2>5 DEF ClaimInv, SavesName
  <2> QED BY <2>2, <2>4, <2>6 DEF ClaimKnown, LabelKnown, NameClaimed, SavesName, Saving
<1>11. ASSUME NEW p \in Passes, Die(p) PROVE ClaimInv'
  <2>1. CASE Saving(p)
    BY <1>11, <2>1 DEF Die, Saving, ClaimInv
  <2>2. CASE ~Saving(p)
    <3>1. pass' = [pass EXCEPT ![p] = Idle] /\ UNCHANGED <<label, owned, given, raced>>
      BY <1>0, <1>11, <2>2 DEF Die, Saving
    <3> QED BY <2>2, <3>1, IdleType, Quiet
  <2> QED BY <2>1, <2>2
<1>12. CASE Retitle \/ (\E p \in Apps : ListStart(p) \/ ListEnd(p)) \/ UNCHANGED vars
  BY <1>1, <1>12 DEF Retitle, ListStart, ListEnd, vars
<1> QED
  BY <1>2, <1>3, <1>4, <1>5, <1>6, <1>7, <1>8, <1>9, <1>10, <1>11, <1>12, <1>a DEF Next

-----------------------------------------------------------------------------

\* A pass that neither was nor is at its save changes nothing that is recorded of times.
LEMMA QuietTime ==
  ASSUME IInv, TimeInv, NEW p \in Passes, NEW x, pass' = [pass EXCEPT ![p] = x],
         ~Saving(p), x.at \notin {"save", "saved"},
         ~raced /\ x.at = "rename" =>
           /\ x.read = IF x.next = x.claim THEN time ELSE x.listed
           /\ x.seen = x.claim /\ time # None => time <= x.listed,
         UNCHANGED <<label, owned, time, given, raced>>
  PROVE  TimeInv'
<1> SUFFICES ASSUME ~raced PROVE TimeKnown' /\ (given # None => TimeRecorded' /\ TimeCarried')
  BY DEF TimeInv
<1>1. pass'[p] = x /\ \A q \in Passes : q # p => pass'[q] = pass[q]
  BY DEF IInv, TypeOK
<1>2. TimeKnown'
  BY <1>1 DEF TimeInv, TimeKnown
<1>3. \A q \in Passes : /\ Saving(q)' <=> Saving(q)
                        /\ Saving(q) => pass'[q] = pass[q]
  BY <1>1 DEF Saving
<1>4. ASSUME given # None PROVE TimeRecorded' /\ TimeCarried'
  <2>1. TimeRecorded'
    BY <1>3, <1>4 DEF TimeInv, TimeRecorded
  <2>2. TimeCarried'
    BY <1>3, <1>4 DEF TimeInv, TimeCarried, OnlySaver
  <2> QED BY <2>1, <2>2
<1> QED BY <1>2, <1>4

\* So does one that comes to its save while another is at its own.
LEMMA SecondSaver ==
  ASSUME IInv, TimeInv, NEW p \in Passes, NEW x, pass' = [pass EXCEPT ![p] = x], x.at = "save",
         given # None => \E q \in Passes \ {p} : Saving(q),
         UNCHANGED <<label, owned, time, given, raced>>
  PROVE  TimeInv'
<1> SUFFICES ASSUME ~raced PROVE TimeKnown' /\ (given # None => TimeRecorded' /\ TimeCarried')
  BY DEF TimeInv
<1>1. pass'[p] = x /\ \A q \in Passes : q # p => pass'[q] = pass[q]
  BY DEF IInv, TypeOK
<1>2. TimeKnown'
  BY <1>1 DEF TimeInv, TimeKnown
<1>3. ASSUME given # None PROVE TimeRecorded' /\ TimeCarried'
  <2>1. Saving(p)' /\ \E q \in Passes \ {p} : Saving(q)'
    BY <1>1, <1>3 DEF Saving
  <2> QED BY <2>1 DEF TimeRecorded, TimeCarried, OnlySaver
<1> QED BY <1>2, <1>3

\* While the record tells of the label and nobody saves, a pass that sees the label keeps its claim.
LEMMA SeenIsClaim ==
  ASSUME IInv, ClaimInv, TimeInv, ~raced, given # None, NEW p \in Passes, pass[p].at \in {"decide", "rename"},
         \A q \in Passes \ {p} : ~Saving(q)
  PROVE  pass[p].seen = pass[p].claim /\ time # None /\ given <= time
<1>1. \A q \in Passes : ~Saving(q)
  BY DEF Saving
<1>2. label = owned /\ time # None /\ given <= time
  BY <1>1 DEF TimeInv, TimeRecorded
<1> QED BY <1>2 DEF ClaimInv, ClaimKnown, LabelKnown

\* A decision that is not held back goes by a time that is not ahead of its list, and one that sees its own claim
\* keeps it or renames the tab.
LEMMA DecisionTimes ==
  ASSUME NEW seen \in Labels, NEW claim \in Labels \cup {None}, NEW when \in Times \cup {None}, NEW listed \in Times,
         NEW name \in Times, seen = claim
  PROVE  LET d == Decide(seen, claim, when, listed, name)
         IN  /\ d.rename /\ when # None => when <= listed
             /\ ~d.rename => d.claim = claim
<1> DEFINE d == Decide(seen, claim, when, listed, name)
<1>1. claim # None /\ Keeps(seen, claim) = claim
  BY DEF Keeps, Labels
<1>2. when # None => (when > listed <=> ~(when <= listed))
  BY DEF Times
<1>3. CASE d = Decision(Keeps(seen, claim), FALSE)
  BY <1>1, <1>3 DEF Decision
<1>4. CASE d = Decision(name, seen # name) /\ ~HeldBack(seen, claim, when, listed)
  <2>1. d.claim = name
    BY <1>4 DEF Decision
  <2>2. when # None => when <= listed
    BY <1>1, <1>2, <1>4 DEF HeldBack
  <2>3. CASE seen = name
    BY <2>1, <2>2, <2>3
  <2>4. CASE seen # name
    <3>1. (seen # name) = TRUE
      BY <2>4
    <3>2. d = Decision(name, TRUE)
      BY <1>4, <3>1, Zenon
    <3> QED BY <2>2, <3>2 DEF Decision
  <2> QED BY <2>3, <2>4
<1> QED BY <1>3, <1>4 DEF Decide

\* Every step keeps the invariant of times.
LEMMA TimeStep == IInv /\ ClaimInv /\ TimeInv /\ [Next]_vars => TimeInv'
<1> SUFFICES ASSUME IInv, ClaimInv, TimeInv, [Next]_vars PROVE TimeInv'
  OBVIOUS
<1>0. TypeOK /\ pass \in [Passes -> PassStates] /\ raced \in BOOLEAN
  BY DEF IInv, TypeOK
<1>a. \A p \in Apps \cup Syncs : p \in Passes
  BY DEF Passes
<1>b. ASSUME NEW p \in Passes, Races(p), ~raced'
      PROVE  ~raced /\ \A q \in Passes : q # p => pass[q].at \in {"idle", "title"}
  BY <1>0, <1>b DEF Races, Under
<1>1. CASE UNCHANGED <<label, owned, time, given, raced, pass>>
  BY <1>1 DEF TimeInv, TimeKnown, TimeRecorded, TimeCarried, OnlySaver, Saving
<1>2. CASE Name
  BY <1>2 DEF Name, TimeInv, TimeKnown
<1>3. ASSUME NEW p \in Passes, SyncStart(p) \/ SyncSnapshot(p) \/ AppSnapshot(p) \/ LoadClaim(p) PROVE TimeInv'
  <2>1. PICK x : pass' = [pass EXCEPT ![p] = x] /\ x.at \in {"title", "idle", "load", "pending", "decide"}
    <3>1. CASE SyncStart(p)
      <4>1. pass' = [pass EXCEPT ![p] = [Idle EXCEPT !.at = "title", !.listed = title]]
        BY <3>1 DEF SyncStart
      <4>2. [Idle EXCEPT !.at = "title", !.listed = title].at = "title"
        BY DEF Idle
      <4> QED BY <4>1, <4>2
    <3>2. CASE SyncSnapshot(p)
      <4> DEFINE x == IF title = 0 THEN Idle
                      ELSE [pass[p] EXCEPT !.at = "load", !.name = title, !.seen = label]
      <4>1. x.at \in {"idle", "load"}
        BY <1>0 DEF Idle, PassStates
      <4>2. pass' = [pass EXCEPT ![p] = x]
        BY <3>2 DEF SyncSnapshot
      <4> HIDE DEF x
      <4> QED BY <4>1, <4>2
    <3>3. CASE AppSnapshot(p)
      <4>1. pass' = [pass EXCEPT ![p] = [Idle EXCEPT !.at = "pending", !.seen = label]]
        BY <3>3 DEF AppSnapshot
      <4>2. [Idle EXCEPT !.at = "pending", !.seen = label].at = "pending"
        BY DEF Idle
      <4> QED BY <4>1, <4>2
    <3>4. CASE LoadClaim(p)
      <4> DEFINE x == [pass[p] EXCEPT !.at = "decide", !.claim = owned]
      <4>1. x.at = "decide"
        BY <1>0 DEF PassStates
      <4> HIDE DEF x
      <4>2. pass' = [pass EXCEPT ![p] = x]
        BY <1>0, <3>4 DEF LoadClaim, x
      <4> QED BY <4>1, <4>2
    <3> QED BY <1>3, <3>1, <3>2, <3>3, <3>4
  <2>2. ~Saving(p) /\ UNCHANGED <<label, owned, time, given, raced>>
    BY <1>3 DEF SyncStart, SyncSnapshot, AppSnapshot, LoadClaim, Saving
  <2> QED BY <2>1, <2>2, QuietTime
<1>4. ASSUME NEW p \in Apps, NEW q \in Passes, q = p, AppStart(p) PROVE TimeInv'
  <2> DEFINE x == [pass[q] EXCEPT !.at = "load", !.listed = list[p].listed, !.name = list[p].name]
  <2>1. x.at = "load"
    BY <1>0 DEF PassStates
  <2> HIDE DEF x
  <2>2. pass' = [pass EXCEPT ![q] = x]
    BY <1>0, <1>4 DEF AppStart, x
  <2> QED BY <1>4, <2>1, <2>2, QuietTime DEF AppStart, Saving
<1>5. ASSUME NEW p \in Passes, LoadTime(p) PROVE TimeInv'
  <2> DEFINE d == Decide(pass[p].seen, pass[p].claim, time, pass[p].listed, pass[p].name)
             r == IF d.claim = pass[p].claim THEN time ELSE pass[p].listed
             x == IF d.rename THEN [pass[p] EXCEPT !.at = "rename", !.next = d.claim, !.read = r]
                  ELSE IF d.claim # pass[p].claim THEN [pass[p] EXCEPT !.at = "save", !.next = d.claim]
                  ELSE Idle
  <2>1. ASSUME pass[p].seen = pass[p].claim
        PROVE  /\ d.rename /\ time # None => time <= pass[p].listed
               /\ ~d.rename => d.claim = pass[p].claim
    <3>1. time \in Times \cup {None}
      BY <1>0 DEF TypeOK
    <3>2. /\ pass[p].listed \in Times /\ pass[p].name \in Times /\ pass[p].seen \in Labels
          /\ pass[p].claim \in Labels \cup {None}
      BY <1>0, PassType
    <3> QED BY <2>1, <3>1, <3>2, DecisionTimes
  <2>2. pass' = [pass EXCEPT ![p] = x]
    BY <1>5 DEF LoadTime
  <2>3. pass[p].at = "decide" /\ UNCHANGED <<label, owned, time, given, raced>>
    BY <1>5 DEF LoadTime
  <2> HIDE DEF d
  <2>4. CASE d.rename
    <3>1. /\ x.at = "rename" /\ x.next = d.claim /\ x.read = r /\ x.claim = pass[p].claim
          /\ x.seen = pass[p].seen /\ x.listed = pass[p].listed
      BY <1>0, <2>4 DEF PassStates
    <3> HIDE DEF x
    <3> QED BY <2>1, <2>2, <2>3, <2>4, <3>1, QuietTime DEF Saving
  <2>5. CASE ~d.rename /\ d.claim = pass[p].claim
    <3>1. x.at = "idle"
      BY <2>5 DEF Idle
    <3> HIDE DEF x
    <3> QED BY <2>2, <2>3, <3>1, QuietTime DEF Saving
  <2>6. CASE ~d.rename /\ d.claim # pass[p].claim
    <3>1. x.at = "save"
      BY <1>0, <2>6 DEF PassStates
    <3> HIDE DEF x
    <3>2. CASE raced
      BY <2>3, <3>2 DEF TimeInv
    <3>3. CASE ~raced
      <4>1. given # None => \E q \in Passes \ {p} : Saving(q)
        BY <2>1, <2>3, <2>6, <3>3, SeenIsClaim
      <4> QED BY <2>2, <2>3, <3>1, <4>1, SecondSaver
    <3> QED BY <1>0, <3>2, <3>3
  <2> QED BY <2>4, <2>5, <2>6
<1>6. ASSUME NEW p \in Passes, Rename(p) PROVE TimeInv'
  <2> SUFFICES ASSUME ~raced' PROVE TimeKnown' /\ (given' # None => TimeRecorded' /\ TimeCarried')
    BY DEF TimeInv
  <2> DEFINE x == IF pass[p].next # pass[p].claim THEN [pass[p] EXCEPT !.at = "save", !.read = None] ELSE Idle
  <2>1. ~raced /\ \A q \in Passes : q # p => pass[q].at \in {"idle", "title"}
    BY <1>6, <1>b DEF Rename
  <2>2. pass' = [pass EXCEPT ![p] = x]
    BY <1>6 DEF Rename
  <2>3. /\ pass[p].at = "rename" /\ pass[p].claim = owned /\ UNCHANGED <<owned, time>>
        /\ label' = pass[p].next /\ given' = pass[p].read
        /\ pass[p].read = IF pass[p].next = pass[p].claim THEN time ELSE pass[p].listed
    BY <1>6, <2>1 DEF Rename, ClaimInv, ClaimKnown, TimeInv, TimeKnown
  <2>4. pass[p].listed \in Times /\ time \in Times \cup {None}
    BY <1>0, PassType DEF TypeOK
  <2>5. pass'[p] = x /\ \A q \in Passes : q # p => pass'[q] = pass[q]
    BY <1>0, <2>2
  <2>6. CASE pass[p].next # pass[p].claim
    <3>1. x.at = "save" /\ x.next = label' /\ x.listed = given'
      BY <1>0, <2>3, <2>6 DEF PassStates
    <3> HIDE DEF x
    <3>2. given' <= given'
      BY <2>3, <2>4, <2>6 DEF Times
    <3>3. \A q \in Passes : Saving(q)' <=> q = p
      BY <2>1, <2>5, <3>1 DEF Saving
    <3>4. TimeKnown' /\ TimeRecorded'
      BY <2>1, <2>5, <3>1, <3>3 DEF TimeKnown, TimeRecorded
    <3>5. TimeCarried'
      BY <2>5, <3>1, <3>2, <3>3 DEF TimeCarried, OnlySaver
    <3> QED BY <3>4, <3>5
  <2>7. CASE pass[p].next = pass[p].claim
    <3>1. x.at = "idle" /\ label' = owned /\ given' = time
      BY <2>3, <2>7 DEF Idle
    <3> HIDE DEF x
    <3>2. time # None => time <= time
      BY <2>4 DEF Times
    <3>3. \A q \in Passes : pass'[q].at \in {"idle", "title"}
      BY <2>1, <2>5, <3>1
    <3> QED BY <2>3, <3>1, <3>2, <3>3 DEF TimeKnown, TimeRecorded, TimeCarried, OnlySaver, Saving
  <2> QED BY <2>6, <2>7
<1>7. ASSUME NEW p \in Passes, RenameFails(p) PROVE TimeInv'
  <2> SUFFICES ASSUME ~raced' PROVE TimeInv'
    BY DEF TimeInv
  <2> DEFINE x == IF pass[p].seen # pass[p].claim
                  THEN [pass[p] EXCEPT !.at = "save", !.next = pass[p].seen, !.read = None] ELSE Idle
  <2>1. pass[p].at = "rename" /\ pass' = [pass EXCEPT ![p] = x] /\ UNCHANGED <<label, owned, time, given, raced>>
    BY <1>7 DEF RenameFails
  <2>2. CASE pass[p].seen = pass[p].claim
    <3>1. x.at = "idle"
      BY <2>2 DEF Idle
    <3> HIDE DEF x
    <3> QED BY <2>1, <3>1, QuietTime DEF Saving
  <2>3. CASE pass[p].seen # pass[p].claim
    <3>1. x.at = "save"
      BY <1>0, <2>3 DEF PassStates
    <3> HIDE DEF x
    <3>2. given # None => \E q \in Passes \ {p} : Saving(q)
      BY <2>1, <2>3, SeenIsClaim
    <3> QED BY <2>1, <3>1, <3>2, SecondSaver
  <2> QED BY <2>2, <2>3
<1>8. ASSUME NEW p \in Passes, SaveTime(p) PROVE TimeInv'
  <2> SUFFICES ASSUME ~raced' PROVE TimeKnown' /\ (given' # None => TimeRecorded' /\ TimeCarried')
    BY DEF TimeInv
  <2> DEFINE x == [pass[p] EXCEPT !.at = "saved"]
  <2>1. ~raced /\ \A q \in Passes : q # p => pass[q].at \in {"idle", "title"}
    BY <1>8, <1>b DEF SaveTime
  <2>2. x.at = "saved" /\ x.next = pass[p].next
    BY <1>0 DEF PassStates
  <2> HIDE DEF x
  <2>3. pass' = [pass EXCEPT ![p] = x]
    BY <1>0, <1>8 DEF SaveTime, x
  <2>4. /\ pass[p].at = "save" /\ UNCHANGED <<label, owned, given>>
        /\ time' = IF pass[p].next = None THEN None ELSE pass[p].listed
    BY <1>8 DEF SaveTime
  <2>5. pass'[p] = x /\ \A q \in Passes : q # p => pass'[q] = pass[q]
    BY <1>0, <2>3
  <2>6. \A q \in Passes : /\ Saving(q) <=> q = p
                          /\ Saving(q)' <=> q = p
    BY <2>1, <2>2, <2>4, <2>5 DEF Saving
  <2>7. TimeKnown' /\ TimeRecorded'
    BY <2>1, <2>2, <2>5, <2>6 DEF TimeKnown, TimeRecorded
  <2>8. ASSUME given # None PROVE TimeCarried'
    <3>1. pass[p].next = label /\ given <= pass[p].listed
      BY <2>1, <2>4, <2>6, <2>8 DEF TimeInv, TimeCarried, OnlySaver
    <3>2. label # None /\ pass[p].listed # None
      <4>1. label \in Labels /\ pass[p].listed \in Times
        BY <1>0, PassType DEF TypeOK
      <4> QED BY <4>1 DEF Labels, Times
    <3> QED BY <2>2, <2>4, <2>5, <2>6, <3>1, <3>2 DEF TimeCarried, OnlySaver
  <2> QED BY <2>4, <2>7, <2>8
<1>9. ASSUME NEW p \in Passes, SaveClaim(p) PROVE TimeInv'
  <2> SUFFICES ASSUME ~raced' PROVE TimeKnown' /\ (given' # None => TimeRecorded' /\ TimeCarried')
    BY DEF TimeInv
  <2>1. ~raced /\ \A q \in Passes : q # p => pass[q].at \in {"idle", "title"}
    BY <1>9, <1>b DEF SaveClaim
  <2>2. pass[p].at = "saved" /\ owned' = pass[p].next /\ UNCHANGED <<label, time, given>>
    BY <1>9 DEF SaveClaim
  <2>3. pass'[p] = Idle /\ \A q \in Passes : q # p => pass'[q] = pass[q]
    BY <1>0, <1>9 DEF SaveClaim
  <2>4. \A q \in Passes : pass'[q].at \in {"idle", "title"}
    BY <2>1, <2>3, IdleType
  <2>5. \A q \in Passes : Saving(q) <=> q = p
    BY <2>1, <2>2 DEF Saving
  <2>6. given # None => pass[p].next = label /\ time # None /\ given <= time
    BY <2>1, <2>2, <2>5 DEF TimeInv, TimeCarried, OnlySaver
  <2> QED BY <2>2, <2>4, <2>6 DEF TimeKnown, TimeRecorded, TimeCarried, OnlySaver, Saving
<1>10. ASSUME NEW p \in Passes, Die(p) PROVE TimeInv'
  <2>1. CASE Saving(p)
    BY <1>10, <2>1 DEF Die, Saving, TimeInv
  <2>2. CASE ~Saving(p)
    <3>1. pass' = [pass EXCEPT ![p] = Idle] /\ UNCHANGED <<label, owned, time, given, raced>>
      BY <1>0, <1>10, <2>2 DEF Die, Saving
    <3> QED BY <2>2, <3>1, IdleType, QuietTime
  <2> QED BY <2>1, <2>2
<1>11. CASE Retitle \/ (\E p \in Apps : ListStart(p) \/ ListEnd(p)) \/ UNCHANGED vars
  BY <1>1, <1>11 DEF Retitle, ListStart, ListEnd, vars
<1> QED
  BY <1>2, <1>3, <1>4, <1>5, <1>6, <1>7, <1>8, <1>9, <1>10, <1>11, <1>a DEF Next

-----------------------------------------------------------------------------

\* Types, for any apps, syncs and bounds; the record's lock has one holder.
THEOREM Typed == Spec => []TypeOK
<1>1. IInv => TypeOK
  BY DEF IInv
<1> QED BY <1>1, InitIInv, TabsStep, PTL DEF Spec

\* A tab that a person named is left alone (reconcileHerdrTabs: "never a tab the user renamed themselves").
THEOREM PersonsNames == Spec => []PersonsNameStays
<1>1. IInv => PersonsNameStays
  BY DEF IInv, ClaimsAreOurs, PersonsNameStays
<1> QED BY <1>1, InitIInv, TabsStep, PTL DEF Spec

\* Unless a pass wrote under another, a name OAK gave is claimed once no pass is at work (saveOwned's comment).
THEOREM NamesClaimed == Spec => []Claimed
<1>1. Init => ClaimInv
  BY IdleType DEF Init, ClaimInv, ClaimKnown
<1>2. ClaimInv => Claimed
  <2> SUFFICES ASSUME ClaimInv, ~raced, given # None, \A p \in Passes : ~Under(p)
               PROVE  label \in {owned, AgentTitle}
    BY DEF Claimed, ClaimedAlways
  <2>1. \A p \in Passes : ~Saving(p)
    BY DEF Under, Saving
  <2> QED BY <2>1 DEF ClaimInv, NameClaimed
<1> QED BY <1>1, <1>2, InitIInv, TabsStep, ClaimStep, PTL DEF Spec

\* Unless a pass wrote under another, an older title is not put back over the one a tab wears (reconcileHerdrTabs,
\* "a claim made from a title newer than this pass's list").
THEOREM OldTitlesStay == Spec => OldTitleStays
<1>1. Init => ClaimInv /\ TimeInv
  BY IdleType DEF Init, ClaimInv, ClaimKnown, TimeInv, TimeKnown
<1>2. ASSUME IInv, ClaimInv, TimeInv, NEW p \in Passes, Rename(p), ~raced', pass[p].seen = label, given # None
      PROVE  pass[p].listed >= given
  <2>1. ~raced /\ pass[p].at = "rename" /\ \A q \in Passes \ {p} : ~Saving(q)
    BY <1>2 DEF Rename, Races, Under, Saving, IInv, TypeOK
  <2>2. pass[p].seen = pass[p].claim /\ time # None /\ given <= time
    BY <1>2, <2>1, SeenIsClaim
  <2>3. time <= pass[p].listed
    BY <1>2, <2>1, <2>2 DEF TimeInv, TimeKnown
  <2>4. given \in Nat /\ time \in Nat /\ pass[p].listed \in Nat
    BY <1>2, <2>2, PassType DEF IInv, TypeOK, Times
  <2> QED BY <2>2, <2>3, <2>4
<1>3. IInv /\ ClaimInv /\ TimeInv /\ [Next]_vars =>
        [\A p \in Passes : Rename(p) /\ ~raced' /\ pass[p].seen = label /\ given # None => pass[p].listed >= given]_vars
  BY <1>2
<1> QED BY <1>1, <1>3, InitIInv, TabsStep, ClaimStep, TimeStep, PTL DEF Spec, OldTitleStays

=============================================================================
