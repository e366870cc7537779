------------------------------- MODULE Daemon -------------------------------
(***************************************************************************)
(* The focus server's life: packages/core/src/daemon.ts (front ends) and   *)
(* packages/tui/src/server.ts (the server).  Two files say that a server   *)
(* runs, its socket and its pid file; both are created, looked at and      *)
(* removed without a lock, by the server and by every front end.           *)
(***************************************************************************)
EXTENDS Integers, FiniteSets

CONSTANTS
  Fronts,       \* terminals and `oak server` commands
  Pids,         \* process ids
  NoProcess,    \* no process
  MaxCrashes,   \* bound: servers that are killed
  MaxStrangers  \* bound: pids of dead servers that other programs are given

ASSUME DaemonAssumption ==
  /\ NoProcess \notin Pids
  /\ Fronts \cap Pids = {}
  /\ MaxCrashes \in Nat /\ MaxStrangers \in Nat

VARIABLES
  pidFile,    \* the pid in oak-server.pid, or NoProcess
  sock,       \* the server whose socket oak.sock is, or NoProcess
  at,         \* the step each front end and each process is at
  goal,       \* what a front end is doing: starting or stopping a server
  peer,       \* the server a front end is attached to, spawned or waits for
  old,        \* servers of an older build, whose protocol no front end speaks
  crashes,
  strangers,
  killed,     \* the servers that were killed (not in the program)
  struck,     \* whether another program was sent SIGTERM (not in the program)
  alone,      \* the front ends whose start began, and went on, with nothing else under way, and whose poll did not
              \* reach its deadline (not in the program)
  overlapped  \* whether a start, a stop or an idle exit began while another was under way (not in the program)

counts == <<crashes, strangers, killed, old>>
daemonVars == <<pidFile, sock, at, goal, peer, counts, struck, alone, overlapped>>

-----------------------------------------------------------------------------

\* "none" is a pid no process has, "stranger" one that another program has.
ServerSteps == {"none", "stranger", "boot", "reclaim", "rmPid", "rmSock", "listen", "announce", "serving",
                "offPid", "offSock", "exiting"}
FrontSteps == {"idle", "connect", "reclaim", "rmPid", "rmSock", "spawn", "poll", "attached", "failed",
               "stop", "wait"}

\* Nothing runs, or a server that was there before an update.
DaemonInit ==
  /\ \E p \in Pids \cup {NoProcess} :
       /\ pidFile = p /\ sock = p /\ old = {p} \ {NoProcess}
       /\ at = [a \in Fronts \cup Pids |-> IF a \in Fronts THEN "idle" ELSE IF a = p THEN "serving" ELSE "none"]
  /\ goal = [f \in Fronts |-> "start"]
  /\ peer = [f \in Fronts |-> NoProcess]
  /\ crashes = 0 /\ strangers = 0 /\ killed = {}
  /\ struck = FALSE /\ alone = {} /\ overlapped = FALSE

\* kill(pid, 0).
Alive(p) == p # NoProcess /\ at[p] # "none"

\* The server that answers on the socket's path, and one whose hello a front end accepts.
Listening(p) == p # NoProcess /\ sock = p /\ at[p] \in {"announce", "serving"}
Answers(p) == Listening(p) /\ p \notin old

Busy(a) == at[a] \notin {"idle", "attached", "failed", "none", "stranger", "serving"}
Begins ==
  /\ overlapped' = (overlapped \/ \E a \in Fronts \cup Pids : Busy(a))
  /\ alone' = {}

Goto(a, step) == at' = [at EXCEPT ![a] = step]

\* A process goes away or stops: those attached to it see the connection close.
Leaves(p, step) ==
  at' = [a \in Fronts \cup Pids |-> IF a = p THEN step
                                    ELSE IF a \in Fronts /\ at[a] = "attached" /\ peer[a] = p THEN "idle" ELSE at[a]]

-----------------------------------------------------------------------------
(* reclaimStaleDaemon, of a front end or of a server that boots.           *)

AfterReclaim(a) == IF a \in Pids THEN "listen" ELSE IF goal[a] = "start" THEN "spawn" ELSE "idle"

\* Mutant: a socket without a pidfile is no leftover.
ReclaimNamed(a) ==
  /\ at[a] = "reclaim"
  /\ Goto(a, IF pidFile = NoProcess \/ Alive(pidFile) THEN AfterReclaim(a) ELSE "rmPid")
  /\ UNCHANGED <<pidFile, sock, goal, peer, counts, struck, alone, overlapped>>

\* Mutant: a pidfile is stale whenever it is there.
ReclaimAny(a) ==
  /\ at[a] = "reclaim"
  /\ Goto(a, "rmPid")
  /\ UNCHANGED <<pidFile, sock, goal, peer, counts, struck, alone, overlapped>>

Reclaim(a) ==
  /\ at[a] = "reclaim"
  /\ Goto(a, IF Alive(pidFile) THEN AfterReclaim(a) ELSE "rmPid")
  /\ UNCHANGED <<pidFile, sock, goal, peer, counts, struck, alone, overlapped>>

RemovePid(a) ==
  /\ at[a] = "rmPid"
  /\ pidFile' = NoProcess
  /\ Goto(a, "rmSock")
  /\ UNCHANGED <<sock, goal, peer, counts, struck, alone, overlapped>>

RemoveSock(a) ==
  /\ at[a] = "rmSock"
  /\ sock' = NoProcess
  /\ Goto(a, AfterReclaim(a))
  /\ UNCHANGED <<pidFile, goal, peer, counts, struck, alone, overlapped>>

-----------------------------------------------------------------------------
(* runServer.                                                              *)

Boot(p) ==
  /\ at[p] = "boot"
  /\ Goto(p, IF Alive(pidFile) THEN "none" ELSE "reclaim")
  /\ UNCHANGED <<pidFile, sock, goal, peer, counts, struck, alone, overlapped>>

\* A path that is taken, by whatever is left there, cannot be listened on.
Listen(p) ==
  /\ at[p] = "listen"
  /\ IF sock = NoProcess THEN sock' = p /\ Goto(p, "announce") ELSE Goto(p, "none") /\ UNCHANGED sock
  /\ UNCHANGED <<pidFile, goal, peer, counts, struck, alone, overlapped>>

Announce(p) ==
  /\ at[p] = "announce"
  /\ pidFile' = p
  /\ Goto(p, "serving")
  /\ UNCHANGED <<sock, goal, peer, counts, struck, alone, overlapped>>

IdleExit(p) ==
  /\ at[p] = "serving"
  /\ \A f \in Fronts : ~(at[f] = "attached" /\ peer[f] = p)
  /\ Goto(p, "offPid")
  /\ Begins
  /\ UNCHANGED <<pidFile, sock, goal, peer, counts, struck>>

\* shutdown removes both files, whosever they are by now.
OffPid(p) ==
  /\ at[p] = "offPid"
  /\ pidFile' = NoProcess
  /\ Goto(p, "offSock")
  /\ UNCHANGED <<sock, goal, peer, counts, struck, alone, overlapped>>

OffSock(p) ==
  /\ at[p] = "offSock"
  /\ sock' = NoProcess
  /\ Goto(p, "exiting")
  /\ UNCHANGED <<pidFile, goal, peer, counts, struck, alone, overlapped>>

Exit(p) ==
  /\ at[p] = "exiting"
  /\ Goto(p, "none")
  /\ UNCHANGED <<pidFile, sock, goal, peer, counts, struck, alone, overlapped>>

\* The server is killed; the two files stay as they are.
Crash(p) ==
  /\ crashes < MaxCrashes
  /\ at[p] \notin {"none", "stranger"}
  /\ crashes' = crashes + 1 /\ killed' = killed \cup {p}
  /\ Leaves(p, "none")
  /\ UNCHANGED <<pidFile, sock, goal, peer, strangers, old, struck, alone, overlapped>>

\* Another program gets the pid a dead server left in the pid file.
Reuse(p) ==
  /\ strangers < MaxStrangers
  /\ at[p] = "none" /\ pidFile = p
  /\ strangers' = strangers + 1
  /\ Goto(p, "stranger")
  /\ UNCHANGED <<pidFile, sock, goal, peer, crashes, killed, old, struck, alone, overlapped>>

-----------------------------------------------------------------------------
(* ensureDaemon.                                                           *)

Ensure(f) ==
  /\ at[f] \in {"idle", "failed"}
  /\ Goto(f, "connect")
  /\ goal' = [goal EXCEPT ![f] = "start"]
  /\ overlapped' = (overlapped \/ \E a \in Fronts \cup Pids : Busy(a))
  /\ alone' = IF \E a \in Fronts \cup Pids : Busy(a) \/ (at[a] = "serving" /\ sock # a) THEN {} ELSE {f}
  /\ UNCHANGED <<pidFile, sock, peer, counts, struck>>

Connect(f) ==
  /\ at[f] \in {"connect", "poll"}
  /\ Answers(sock)
  /\ Goto(f, "attached")
  /\ peer' = [peer EXCEPT ![f] = sock]
  /\ UNCHANGED <<pidFile, sock, goal, counts, struck, alone, overlapped>>

ConnectFails(f) ==
  /\ at[f] = "connect"
  /\ ~Answers(sock)
  /\ Goto(f, "reclaim")
  /\ UNCHANGED <<pidFile, sock, goal, peer, counts, struck, alone, overlapped>>

\* A pid is not given again at once: not while a file or a front end that failed still names it.
Spawn(f) ==
  /\ at[f] = "spawn"
  /\ \E p \in Pids \ ({pidFile, sock} \cup old) :
       /\ at[p] = "none" /\ \A g \in Fronts : at[g] = "failed" => peer[g] # p
       /\ at' = [at EXCEPT ![f] = "poll", ![p] = "boot"]
       /\ peer' = [peer EXCEPT ![f] = p]
       /\ killed' = killed \ {p}
  /\ UNCHANGED <<pidFile, sock, goal, crashes, strangers, old, struck, alone, overlapped>>

\* The spawned server died.
PollEnds(f) ==
  /\ at[f] = "poll"
  /\ ~Alive(peer[f]) /\ ~Answers(sock)
  /\ Goto(f, "failed")
  /\ UNCHANGED <<pidFile, sock, goal, peer, counts, struck, alone, overlapped>>

\* The deadline passes while the server that was spawned is not to be reached.
PollTimesOut(f) ==
  /\ at[f] = "poll"
  /\ Alive(peer[f]) /\ ~Answers(sock)
  /\ Goto(f, "failed")
  /\ overlapped' = TRUE
  /\ alone' = {}
  /\ UNCHANGED <<pidFile, sock, goal, peer, counts, struck>>

Close(f) ==
  /\ at[f] = "attached"
  /\ Goto(f, "idle")
  /\ UNCHANGED <<pidFile, sock, goal, peer, counts, struck, alone, overlapped>>

-----------------------------------------------------------------------------
(* stopDaemon.                                                             *)

Stop(f) ==
  /\ at[f] \in {"idle", "failed"}
  /\ Goto(f, "stop")
  /\ goal' = [goal EXCEPT ![f] = "stop"]
  /\ Begins
  /\ UNCHANGED <<pidFile, sock, peer, counts, struck>>

\* A server that answers is asked to shut down.
AskToStop(f) ==
  /\ at[f] = "stop"
  /\ Listening(sock)
  /\ peer' = [peer EXCEPT ![f] = sock]
  /\ at' = [a \in Fronts \cup Pids |->
              CASE a = f -> "wait"
                [] a = sock -> "offPid"
                [] a \in Fronts \ {f} /\ at[a] = "attached" /\ peer[a] = sock -> "idle"
                [] OTHER -> at[a]]
  /\ UNCHANGED <<pidFile, sock, goal, counts, struck, alone, overlapped>>

\* One that does not is known by its pid file.
StopUnanswered(f) ==
  /\ at[f] = "stop"
  /\ ~Listening(sock)
  /\ peer' = [peer EXCEPT ![f] = pidFile]
  /\ Goto(f, IF Alive(pidFile) THEN "wait" ELSE "reclaim")
  /\ UNCHANGED <<pidFile, sock, goal, counts, struck, alone, overlapped>>

\* Half the deadline is over: SIGTERM, to whatever process has the pid.
Terminate(f) ==
  /\ at[f] = "wait"
  /\ Alive(peer[f])
  /\ LET p == peer[f]
     IN  /\ Leaves(p, IF at[p] \in {"announce", "serving"} THEN "offPid"
                      ELSE IF at[p] \in {"offPid", "offSock", "exiting"} THEN at[p] ELSE "none")
         /\ struck' = (struck \/ at[p] = "stranger")
  /\ UNCHANGED <<pidFile, sock, goal, peer, counts, alone, overlapped>>

\* It is gone, or the deadline is over.
WaitEnds(f) ==
  /\ at[f] = "wait"
  /\ Goto(f, "reclaim")
  /\ overlapped' = (overlapped \/ Alive(peer[f]))
  /\ UNCHANGED <<pidFile, sock, goal, peer, counts, struck, alone>>

-----------------------------------------------------------------------------

Serve(p) ==
  \/ Boot(p) \/ Listen(p) \/ Announce(p) \/ IdleExit(p) \/ OffPid(p) \/ OffSock(p) \/ Exit(p)
  \/ Crash(p) \/ Reuse(p)

Front(f) ==
  \/ Ensure(f) \/ Connect(f) \/ ConnectFails(f) \/ Spawn(f) \/ PollEnds(f) \/ PollTimesOut(f) \/ Close(f)
  \/ Stop(f) \/ AskToStop(f) \/ StopUnanswered(f) \/ Terminate(f) \/ WaitEnds(f)

DaemonNext ==
  \/ \E a \in Fronts \cup Pids : Reclaim(a) \/ RemovePid(a) \/ RemoveSock(a)
  \/ \E p \in Pids : Serve(p)
  \/ \E f \in Fronts : Front(f)

DaemonSpec == DaemonInit /\ [][DaemonNext]_daemonVars

-----------------------------------------------------------------------------
(* Properties.                                                             *)

DaemonTypeOK ==
  /\ pidFile \in Pids \cup {NoProcess} /\ sock \in Pids \cup {NoProcess}
  /\ at \in [Fronts \cup Pids -> ServerSteps \cup FrontSteps]
  /\ \A f \in Fronts : at[f] \in FrontSteps
  /\ \A p \in Pids : at[p] \in ServerSteps
  /\ goal \in [Fronts -> {"start", "stop"}]
  /\ peer \in [Fronts -> Pids \cup {NoProcess}]
  /\ crashes \in 0 .. MaxCrashes /\ strangers \in 0 .. MaxStrangers /\ killed \subseteq Pids /\ old \subseteq Pids
  /\ alone \subseteq Fronts /\ struck \in BOOLEAN /\ overlapped \in BOOLEAN

\* While starts, stops and idle exits do not overlap, a server that serves is the one its two files name:
\* there is one, a terminal that is attached is attached to it, and `oak focus` reaches that terminal.
ServedAsNamed ==
  ~overlapped => \A p \in Pids : at[p] = "serving" => pidFile = p /\ sock = p

\* A start with nothing else under way, whose poll does not reach its deadline before the server it spawned listens
\* (PollTimesOut takes such a start out of `alone`), fails only because its server was killed, an older server
\* runs, or another program has the pid of the last one: no file that dead servers left, wherever they died and
\* whatever overlapped before, is in its way.
StartsWhenAlone ==
  \A f \in alone : at[f] = "failed" => peer[f] \in killed \/ old # {} \/ strangers > 0

\* "A live pid is never touched" (reclaimStaleDaemon): no reclaim removes the files of a server that lives.
LivePidNeverTouched ==
  [][\A a \in Fronts \cup Pids, p \in Pids :
       /\ at[a] = "rmPid" /\ at'[a] # "rmPid" => ~(pidFile = p /\ Alive(p))
       /\ at[a] = "rmSock" /\ at'[a] # "rmSock" => ~(sock = p /\ Alive(p))]_daemonVars

\* Stopping the focus server ends no other program.
StrangersSpared == ~struck

=============================================================================
