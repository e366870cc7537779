------------------------------- MODULE Notify -------------------------------
(***************************************************************************)
(* Announcing a raised hand on the desktop (packages/core/src/notify.ts).  *)
(* Every open surface - terminal app, editors, `oak notify --watch` - sees *)
(* the hands that are up on each of its ticks, and asks the claim file     *)
(* whether this hand is still to be announced.  The claim file is read and *)
(* replaced under a lock file of its own, which is simpler than LockFile:  *)
(* it names no owner, is removed by age, and is never waited for.          *)
(***************************************************************************)
EXTENDS Integers, Sequences, FiniteSets

CONSTANTS
  Surfaces,    \* processes that announce
  Agents,      \* the sessions whose hands they watch
  StaleAfter,  \* the age past which a lock file is a crash leftover (10 s)
  Cooldown,    \* prefs.cooldownSeconds
  Day,         \* the age past which a claim is dropped
  MaxTime,     \* bound: the clock
  MaxCrashes   \* bound: surfaces that die at work

ASSUME NotifyAssumption ==
  /\ StaleAfter \in Nat
  /\ Day \in Nat
  /\ Cooldown \in 0 .. Day
  /\ MaxTime \in Nat \ {0}
  /\ MaxCrashes \in Nat

VARIABLES
  now,       \* the clock
  hand,      \* the hand each session has up: its kind and when it went up, or Down
  lock,      \* when the lock file was created, or Free
  claims,    \* notify-claims.json: the last hand of each session that was announced, or Unclaimed
  surface,   \* what each surface is doing
  memo,      \* announcedHere: the newest hand of each session a surface has put to the claim
  toasts,    \* the announcements of each session, in order
  quiet,     \* the hands a surface was told to be quiet about by the cooldown (not in the program)
  raced,     \* whether a surface has removed another lock than the one it judged (not in the program)
  crashes

vars == <<now, hand, lock, claims, surface, memo, toasts, quiet, raced, crashes>>

-----------------------------------------------------------------------------

Kinds == {"permission", "input"}
\* HAND_RANK: the smaller, the more urgent.
Rank(kind) == IF kind = "permission" THEN 0 ELSE 2

Times == 0 .. MaxTime
Down == [kind |-> "none", ts |-> 0]
Free == -1
Unclaimed == [ts |-> 0, at |-> 0, kind |-> "none"]
Claims == {Unclaimed} \cup [ts : Times, at : Times, kind : Kinds]
NoClaims == [s \in Agents |-> Unclaimed]
Raised == [kind : Kinds, ts : Times]
Hands == {Down} \cup Raised
Toasts == [ts : Times, at : Times, kind : Kinds]

\* `row` is the hand as the surface read it, `at` the time it did, `old` the lock it judged, `seen` the
\* claims it read.
Idle == [step |-> "idle", of |-> "none", row |-> Down, at |-> 0, old |-> Free, seen |-> NoClaims, due |-> FALSE]

Steps == {"open", "judge", "reclaim", "read", "write", "release"}
Calls ==
  {Idle} \cup [step : Steps, of : Agents, row : Raised, at : Times, old : Times \cup {Free},
               seen : [Agents -> Claims], due : BOOLEAN]

Init ==
  /\ now = 1
  /\ hand = [s \in Agents |-> Down]
  /\ lock = Free
  /\ claims = NoClaims
  /\ surface = [p \in Surfaces |-> Idle]
  /\ memo = [p \in Surfaces |-> [s \in Agents |-> 0]]
  /\ toasts = [s \in Agents |-> <<>>]
  /\ quiet = {}
  /\ raced = FALSE
  /\ crashes = 0

At(p, step) == surface[p].step = step
Goto(p, step) == surface' = [surface EXCEPT ![p].step = step]
Return(p) == surface' = [surface EXCEPT ![p] = Idle]

-----------------------------------------------------------------------------
(* Hands go up and down (Attention); a new one has a newer time.           *)

Raise(s) ==
  /\ hand[s].ts < now /\ \A p \in Surfaces : memo[p][s] < now
  /\ \E kind \in Kinds : hand' = [hand EXCEPT ![s] = [kind |-> kind, ts |-> now]]
  /\ UNCHANGED <<now, lock, claims, surface, memo, toasts, quiet, raced, crashes>>

Lower(s) ==
  /\ hand[s] # Down
  /\ hand' = [hand EXCEPT ![s] = Down]
  /\ UNCHANGED <<now, lock, claims, surface, memo, toasts, quiet, raced, crashes>>

\* A call is a few system calls long: no unit of the clock passes while one runs.
Tick ==
  /\ now < MaxTime
  /\ \A p \in Surfaces : At(p, "idle")
  /\ now' = now + 1
  /\ UNCHANGED <<hand, lock, claims, surface, memo, toasts, quiet, raced, crashes>>

-----------------------------------------------------------------------------
(* announceAttention and dueDesktopNotify.                                 *)

\* A hand this surface has not yet put to the claim; from here on it has.
Ask(p, s) ==
  /\ At(p, "idle")
  /\ hand[s] # Down
  /\ memo[p][s] < hand[s].ts
  /\ memo' = [memo EXCEPT ![p][s] = hand[s].ts]
  /\ surface' = [surface EXCEPT ![p] = [Idle EXCEPT !.step = "open", !.of = s, !.row = hand[s], !.at = now]]
  /\ UNCHANGED <<now, hand, lock, claims, toasts, quiet, raced, crashes>>

\* Mutant: opened with 'w', over a lock that is there.
OpensOver(p) ==
  /\ At(p, "open")
  /\ lock' = now
  /\ Goto(p, "read")
  /\ UNCHANGED <<now, hand, claims, memo, toasts, quiet, raced, crashes>>

\* openSync(lock, 'wx').
Open(p) ==
  /\ At(p, "open")
  /\ lock = Free
  /\ lock' = now
  /\ Goto(p, "read")
  /\ UNCHANGED <<now, hand, claims, memo, toasts, quiet, raced, crashes>>

OpenFails(p) ==
  /\ At(p, "open")
  /\ lock # Free
  /\ Goto(p, "judge")
  /\ UNCHANGED <<now, hand, lock, claims, memo, toasts, quiet, raced, crashes>>

\* The lock is looked at for its age; this call stays quiet in any case.
Judge(p) ==
  /\ At(p, "judge")
  /\ IF lock # Free /\ surface[p].at - lock > StaleAfter
     THEN surface' = [surface EXCEPT ![p].step = "reclaim", ![p].old = lock]
     ELSE Return(p)
  /\ UNCHANGED <<now, hand, lock, claims, memo, toasts, quiet, raced, crashes>>

\* Whatever lock is there by now is removed.
Reclaim(p) ==
  /\ At(p, "reclaim")
  /\ lock' = Free
  /\ raced' = (raced \/ lock \notin {surface[p].old, Free})
  /\ Return(p)
  /\ UNCHANGED <<now, hand, claims, memo, toasts, quiet, crashes>>

Announced(prev, row) == prev # Unclaimed /\ prev.ts >= row.ts

\* Mutant: as urgent is urgent enough.
CoolingIfMilder(prev, row, at) ==
  prev # Unclaimed /\ at - prev.at < Cooldown /\ Rank(row.kind) > Rank(prev.kind)

Cooling(prev, row, at) ==
  prev # Unclaimed /\ at - prev.at < Cooldown /\ Rank(row.kind) >= Rank(prev.kind)

\* The claims are read and the answer decided.
Read(p) ==
  /\ At(p, "read")
  /\ LET row  == surface[p].row
         prev == claims[surface[p].of]
         due  == ~Announced(prev, row) /\ ~Cooling(prev, row, surface[p].at)
     IN  /\ surface' = [surface EXCEPT ![p].step = IF due THEN "write" ELSE "release", ![p].seen = claims]
         /\ quiet' = IF ~Announced(prev, row) /\ ~due THEN quiet \cup {<<surface[p].of, row.ts>>} ELSE quiet
  /\ UNCHANGED <<now, hand, lock, claims, memo, toasts, raced, crashes>>

\* Claims of a day ago are dropped with every write.
Kept(old, at) == [s \in Agents |-> IF at - old[s].at > Day THEN Unclaimed ELSE old[s]]

\* The new claim file is renamed over the old one.
Write(p) ==
  /\ At(p, "write")
  /\ LET row == surface[p].row
     IN  claims' = [Kept(surface[p].seen, surface[p].at) EXCEPT
                      ![surface[p].of] = [ts |-> row.ts, at |-> surface[p].at, kind |-> row.kind]]
  /\ surface' = [surface EXCEPT ![p].step = "release", ![p].due = TRUE]
  /\ UNCHANGED <<now, hand, lock, memo, toasts, quiet, raced, crashes>>

\* Mutant: the hand is read again when it is announced.
ReleaseRereads(p) ==
  /\ At(p, "release")
  /\ lock' = Free
  /\ toasts' = IF surface[p].due
               THEN [toasts EXCEPT ![surface[p].of] =
                       Append(@, [ts |-> hand[surface[p].of].ts, at |-> now, kind |-> hand[surface[p].of].kind])]
               ELSE toasts
  /\ Return(p)
  /\ UNCHANGED <<now, hand, claims, memo, quiet, raced, crashes>>

\* The finally removes the lock, and a hand that is due is announced.
Release(p) ==
  /\ At(p, "release")
  /\ lock' = Free
  /\ toasts' = IF surface[p].due
               THEN [toasts EXCEPT ![surface[p].of] =
                       Append(@, [ts |-> surface[p].row.ts, at |-> surface[p].at, kind |-> surface[p].row.kind])]
               ELSE toasts
  /\ Return(p)
  /\ UNCHANGED <<now, hand, claims, memo, quiet, raced, crashes>>

\* A surface dies, its lock file stays; one that is started anew knows nothing of what it asked.
Crash(p) ==
  /\ crashes < MaxCrashes
  /\ ~At(p, "idle")
  /\ crashes' = crashes + 1
  /\ Return(p)
  /\ memo' = [memo EXCEPT ![p] = [s \in Agents |-> 0]]
  /\ UNCHANGED <<now, hand, lock, claims, toasts, quiet, raced>>

-----------------------------------------------------------------------------

Next ==
  \/ Tick
  \/ \E s \in Agents : Raise(s) \/ Lower(s)
  \/ \E p \in Surfaces :
       \/ \E s \in Agents : Ask(p, s)
       \/ Open(p) \/ OpenFails(p) \/ Judge(p) \/ Reclaim(p) \/ Read(p) \/ Write(p) \/ Release(p)
       \/ Crash(p)

Spec == Init /\ [][Next]_vars

-----------------------------------------------------------------------------
(* Properties.                                                             *)

TypeOK ==
  /\ now \in Times /\ crashes \in 0 .. MaxCrashes /\ raced \in BOOLEAN
  /\ hand \in [Agents -> Hands]
  /\ lock \in Times \cup {Free}
  /\ claims \in [Agents -> Claims]
  /\ memo \in [Surfaces -> [Agents -> Times]]
  /\ surface \in [Surfaces -> Calls]
  /\ toasts \in [Agents -> Seq(Toasts)]
  /\ quiet \subseteq (Agents \X Times)

\* A hand is announced once per machine in the day its claim is kept for, whichever surfaces see it and
\* wherever they die, as long as no lock is removed for another one ("True at most once per machine per
\* raised hand", dueDesktopNotify).
OncePerHand ==
  ~raced => \A s \in Agents : \A i, j \in DOMAIN toasts[s] : i < j =>
    \/ toasts[s][i].ts < toasts[s][j].ts
    \/ toasts[s][j].at - toasts[s][i].at > Day

\* Within the cooldown a session is announced again only for a more urgent wait ("a hand that goes up,
\* down and up again inside it stays quiet unless the new wait is more urgent", notify.ts).
CooldownKept ==
  ~raced => \A s \in Agents : \A i, j \in DOMAIN toasts[s] : i < j =>
    \/ toasts[s][j].at - toasts[s][i].at >= Cooldown
    \/ Rank(toasts[s][j].kind) < Rank(toasts[s][i].kind)

\* A hand that every surface has put to the claim was announced, or is inside a cooldown ("the OS
\* notification must fire ONCE, from whichever surface sees the transition first", notify.ts).
HandHeard ==
  \A s \in Agents :
    crashes = 0 /\ hand[s] # Down /\ (\A p \in Surfaces : memo[p][s] >= hand[s].ts /\ surface[p].of # s) =>
      \/ \E i \in DOMAIN toasts[s] : toasts[s][i].ts >= hand[s].ts
      \/ <<s, hand[s].ts>> \in quiet

\* A reclaim removes the lock that was judged a crash leftover ("this one stays quiet rather than racing a
\* live holder", dueDesktopNotify).
ReclaimsLeftovers == ~raced

=============================================================================
