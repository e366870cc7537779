---------------------------- MODULE NotifyProofs ----------------------------
(***************************************************************************)
(* Proofs about Notify, for any surfaces, sessions and times: the state is *)
(* well formed, a hand is announced once, and the cooldown is kept.        *)
(*                                                                         *)
(* The argument: while no lock was removed for another one, the lock file  *)
(* names the one surface at work on the claims, since its age is nothing,  *)
(* so what that surface read is what it replaces; and the claim of a       *)
(* session stands for each of its announcements of the last Day.           *)
(***************************************************************************)
EXTENDS Notify, TLAPS

\* A surface works at the claims, from its open to its release.
Holds(p) == surface[p].step \in {"read", "write", "release"}

\* A surface is to announce a hand: decided, or claimed already.
Due(p) == At(p, "write") \/ (At(p, "release") /\ surface[p].due)

\* The announcement t leaves room for one of a hand of time ts and kind, at time when.
Settled(t, ts, kind, when) ==
  \/ when - t.at > Day
  \/ /\ t.ts < ts
     /\ when - t.at >= Cooldown \/ Rank(kind) < Rank(t.kind)

\* The claim c speaks for the announcement t.
Covers(c, t) ==
  /\ c # Unclaimed
  /\ c.ts >= t.ts /\ c.at >= t.at
  /\ c.at - t.at >= Cooldown \/ Rank(c.kind) <= Rank(t.kind)

\* Each call takes one time; what it judged a leftover is older; only one that is over is to announce.
CallsAreNow ==
  \A p \in Surfaces :
    /\ ~At(p, "idle") => surface[p].at = now
    /\ At(p, "reclaim") => surface[p].old < now
    /\ surface[p].due => At(p, "release")

OneHolder ==
  /\ \A p \in Surfaces : Holds(p) => lock = now
  /\ \A p, q \in Surfaces : Holds(p) /\ Holds(q) => p = q

\* The holder's copy of the claims is current; once it has written, its claim stands.
CopyIsCurrent ==
  \A p \in Surfaces :
    /\ At(p, "write") => surface[p].seen = claims
    /\ At(p, "release") /\ surface[p].due =>
         claims[surface[p].of] = [ts |-> surface[p].row.ts, at |-> now, kind |-> surface[p].row.kind]

ClaimsSpeak ==
  \A s \in Agents :
    /\ claims[s].at <= now
    /\ \A i \in DOMAIN toasts[s] :
         /\ toasts[s][i].at <= now
         /\ now - toasts[s][i].at > Day \/ Covers(claims[s], toasts[s][i])

DueIsSettled ==
  \A p \in Surfaces : Due(p) =>
    \A i \in DOMAIN toasts[surface[p].of] :
      Settled(toasts[surface[p].of][i], surface[p].row.ts, surface[p].row.kind, now)

ToastsAreSettled ==
  \A s \in Agents : \A i, j \in DOMAIN toasts[s] : i < j =>
    Settled(toasts[s][i], toasts[s][j].ts, toasts[s][j].kind, toasts[s][j].at)

\* The inductive invariant.
Announcing == OneHolder /\ CopyIsCurrent /\ ClaimsSpeak /\ DueIsSettled /\ ToastsAreSettled
IInv == TypeOK /\ CallsAreNow /\ (~raced => Announcing)

-----------------------------------------------------------------------------

USE NotifyAssumption DEF NotifyAssumption, At, Goto, Return

\* The initial state satisfies every part of the invariant.
LEMMA InitIInv == Init => IInv
<1> SUFFICES ASSUME Init PROVE IInv
  OBVIOUS
<1>1. TypeOK
  <2>1. now \in Times /\ 0 \in Times
    BY DEF Init, Times
  <2>2. claims \in [Agents -> Claims] /\ hand \in [Agents -> Hands]
    BY DEF Init, NoClaims, Claims, Hands
  <2>3. surface \in [Surfaces -> Calls] /\ toasts \in [Agents -> Seq(Toasts)]
    BY DEF Init, Calls
  <2>4. memo \in [Surfaces -> [Agents -> Times]] /\ quiet \subseteq (Agents \X Times)
    BY <2>1 DEF Init
  <2>5. crashes \in 0 .. MaxCrashes
    BY DEF Init
  <2>6. raced \in BOOLEAN /\ lock \in Times \cup {Free}
    BY DEF Init
  <2> QED BY <2>1, <2>2, <2>3, <2>4, <2>5, <2>6 DEF TypeOK
<1>2. CallsAreNow
  BY DEF Init, CallsAreNow, Idle
<1>3. Announcing
  BY DEF Init, Announcing, OneHolder, CopyIsCurrent, ClaimsSpeak, DueIsSettled, ToastsAreSettled, Holds, Due, Idle,
     NoClaims, Unclaimed
<1> QED BY <1>1, <1>2, <1>3 DEF IInv

\* What the type of a call gives: a surface at work knows a session, a raised hand, its time and its copy.
LEMMA CallType ==
  ASSUME TypeOK, NEW p \in Surfaces
  PROVE  /\ surface[p] \in Calls
         /\ ~At(p, "idle") => /\ surface[p] \in [step : Steps, of : Agents, row : Raised, at : Times,
                                               old : Times \cup {Free}, seen : [Agents -> Claims],
                                               due : BOOLEAN]
                              /\ surface[p].of \in Agents /\ surface[p].row \in Raised
                              /\ surface[p].at \in Times /\ surface[p].old \in Times \cup {Free}
                              /\ surface[p].seen \in [Agents -> Claims] /\ surface[p].due \in BOOLEAN
         /\ At(p, "idle") => surface[p] = Idle
<1>1. surface[p] \in Calls
  BY DEF TypeOK
<1>2. CASE surface[p] = Idle
  BY <1>1, <1>2 DEF Idle
<1>3. CASE surface[p] \in [step : Steps, of : Agents, row : Raised, at : Times, old : Times \cup {Free},
                          seen : [Agents -> Claims], due : BOOLEAN]
  <2>1. surface[p].step # "idle"
    BY <1>3 DEF Steps
  <2> QED BY <1>1, <1>3, <2>1
<1> QED BY <1>1, <1>2, <1>3 DEF Calls

\* Every step keeps every variable in its type.
LEMMA TypeStep == TypeOK /\ [Next]_vars => TypeOK'
<1> SUFFICES ASSUME TypeOK, [Next]_vars PROVE TypeOK'
  OBVIOUS
<1> USE DEF TypeOK
<1>0. Idle \in Calls /\ Down \in Hands /\ Unclaimed \in Claims
  BY DEF Calls, Hands, Claims
<1>1. CASE Tick
  BY <1>1 DEF Tick, Times
<1>2. ASSUME NEW s \in Agents, Raise(s) PROVE TypeOK'
  <2>1. now \in Times
    OBVIOUS
  <2>2. \A kind \in Kinds : [kind |-> kind, ts |-> now] \in Hands
    BY <2>1 DEF Hands, Raised
  <2> QED BY <1>2, <2>2 DEF Raise
<1>3. ASSUME NEW s \in Agents, Lower(s) PROVE TypeOK'
  BY <1>0, <1>3 DEF Lower
<1>4. ASSUME NEW p \in Surfaces, NEW s \in Agents, Ask(p, s) PROVE TypeOK'
  <2>1. hand[s] \in Raised
    BY <1>4 DEF Ask, Hands
  <2>2. hand[s].ts \in Times
    BY <2>1 DEF Raised
  <2>3. memo' \in [Surfaces -> [Agents -> Times]]
    BY <1>4, <2>2 DEF Ask
  <2>4. [Idle EXCEPT !.step = "open", !.of = s, !.row = hand[s], !.at = now] \in Calls
    <3>1. Free \in Times \cup {Free} /\ NoClaims \in [Agents -> Claims]
      BY <1>0 DEF NoClaims
    <3> QED BY <2>1, <3>1 DEF Idle, Calls, Steps
  <2> QED BY <1>4, <2>3, <2>4 DEF Ask
<1>5. ASSUME NEW p \in Surfaces, Open(p) \/ OpenFails(p) PROVE TypeOK'
  <2>1. \A step \in Steps : ~At(p, "idle") => [surface[p] EXCEPT !.step = step] \in Calls
    BY CallType DEF Calls
  <2>2. "read" \in Steps /\ "judge" \in Steps /\ ~At(p, "idle")
    BY <1>5 DEF Open, OpenFails, Steps
  <2> QED BY <1>5, <2>1, <2>2 DEF Open, OpenFails
<1>6. ASSUME NEW p \in Surfaces, Judge(p) PROVE TypeOK'
  <2>1. [surface[p] EXCEPT !.step = "reclaim", !.old = lock] \in Calls
    BY ZenonT(60), <1>6, CallType DEF Judge, Calls, Steps
  <2> QED BY <1>0, <1>6, <2>1 DEF Judge
<1>7. ASSUME NEW p \in Surfaces, Reclaim(p) PROVE TypeOK'
  BY <1>0, <1>7 DEF Reclaim
<1>8. ASSUME NEW p \in Surfaces, Read(p) PROVE TypeOK'
  <2>1. surface[p].of \in Agents /\ surface[p].row.ts \in Times
    BY <1>8, CallType DEF Read, Raised
  <2>2. quiet' \subseteq (Agents \X Times)
    BY <1>8, <2>1 DEF Read
  <2>3. \A step \in Steps : [surface[p] EXCEPT !.step = step, !.seen = claims] \in Calls
    BY ZenonT(60), <1>8, CallType DEF Read, Calls
  <2>4. "write" \in Steps /\ "release" \in Steps
    BY DEF Steps
  <2>5. surface' \in [Surfaces -> Calls]
    BY <1>8, <2>3, <2>4 DEF Read
  <2> QED BY <1>8, <2>2, <2>5 DEF Read
<1>9. ASSUME NEW p \in Surfaces, Write(p) PROVE TypeOK'
  <2> DEFINE c == [ts |-> surface[p].row.ts, at |-> surface[p].at, kind |-> surface[p].row.kind]
  <2>1. c \in Claims
    BY <1>9, CallType DEF Write, Raised, Claims
  <2>2. Kept(surface[p].seen, surface[p].at) \in [Agents -> Claims]
    BY <1>0, <1>9, CallType DEF Write, Kept
  <2>3. claims' \in [Agents -> Claims]
    BY <1>9, <2>1, <2>2 DEF Write
  <2>4. [surface[p] EXCEPT !.step = "release", !.due = TRUE] \in Calls
    BY ZenonT(60), <1>9, CallType DEF Write, Calls, Steps
  <2> QED BY <1>9, <2>3, <2>4 DEF Write
<1>10. ASSUME NEW p \in Surfaces, Release(p) PROVE TypeOK'
  <2> DEFINE s == surface[p].of
             t == [ts |-> surface[p].row.ts, at |-> surface[p].at, kind |-> surface[p].row.kind]
  <2>1. s \in Agents /\ t \in Toasts
    BY <1>10, CallType DEF Release, Raised, Toasts
  <2>2. Append(toasts[s], t) \in Seq(Toasts)
    BY <2>1
  <2>3. toasts' \in [Agents -> Seq(Toasts)]
    BY <1>10, <2>1, <2>2 DEF Release
  <2> QED BY <1>0, <1>10, <2>3 DEF Release
<1>11. ASSUME NEW p \in Surfaces, Crash(p) PROVE TypeOK'
  <2>1. 0 \in Times
    BY DEF Times
  <2> QED BY <1>0, <1>11, <2>1 DEF Crash
<1>12. CASE UNCHANGED vars
  BY <1>12 DEF vars
<1> QED BY <1>1, <1>2, <1>3, <1>4, <1>5, <1>6, <1>7, <1>8, <1>9, <1>10, <1>11, <1>12 DEF Next

-----------------------------------------------------------------------------

USE DEF Times, Free

\* A surface keeps the time it began at, and judges a leftover by an age above nothing.
LEMMA NowStep == TypeOK /\ CallsAreNow /\ [Next]_vars => CallsAreNow'
<1> SUFFICES ASSUME TypeOK, CallsAreNow, [Next]_vars PROVE CallsAreNow'
  OBVIOUS
<1> USE DEF CallsAreNow
<1>0. surface \in [Surfaces -> Calls] /\ now \in Int /\ Idle.step = "idle"
  BY DEF TypeOK, Idle
<1>1. CASE Tick
  BY <1>1 DEF Tick
<1>2. ASSUME NEW s \in Agents, Raise(s) \/ Lower(s) PROVE CallsAreNow'
  BY <1>2 DEF Raise, Lower
<1>3. ASSUME NEW p \in Surfaces, NEW s \in Agents, Ask(p, s) PROVE CallsAreNow'
  BY <1>0, <1>3 DEF Ask, Idle
<1>4. ASSUME NEW p \in Surfaces, Open(p) \/ OpenFails(p) PROVE CallsAreNow'
  BY <1>0, <1>4, CallType DEF Open, OpenFails, Calls
<1>5. ASSUME NEW p \in Surfaces, Judge(p) PROVE CallsAreNow'
  <2>1. ~At(p, "idle") /\ surface[p].at = now /\ lock \in Times \cup {Free}
    BY <1>5 DEF Judge, TypeOK
  <2>2. CASE surface' = [surface EXCEPT ![p].step = "reclaim", ![p].old = lock] /\ now - lock > StaleAfter
    <3>1. lock < now
      BY <1>0, <2>1, <2>2
    <3>2. surface'[p].step = "reclaim" /\ surface'[p].at = now /\ surface'[p].old = lock
      BY <1>0, <2>1, <2>2, CallType
    <3> QED BY <1>0, <1>5, <2>2, <3>1, <3>2 DEF Judge
  <2>3. CASE Return(p)
    BY <1>0, <1>5, <2>3 DEF Judge, Idle
  <2> QED BY <1>5, <2>1, <2>2, <2>3 DEF Judge
<1>6. ASSUME NEW p \in Surfaces, Reclaim(p) \/ Release(p) \/ Crash(p) PROVE CallsAreNow'
  BY <1>0, <1>6 DEF Reclaim, Release, Crash, Idle
<1>7. ASSUME NEW p \in Surfaces, Read(p) \/ Write(p) PROVE CallsAreNow'
  BY <1>0, <1>7, CallType DEF Read, Write
<1>8. CASE UNCHANGED vars
  BY <1>8 DEF vars
<1> QED BY <1>1, <1>2, <1>3, <1>4, <1>5, <1>6, <1>7, <1>8 DEF Next

\* A lock whose creation is now is never judged a leftover, so the holder stays alone.
LEMMA HolderStep ==
  ASSUME TypeOK, CallsAreNow, OneHolder, ~raced', [Next]_vars
  PROVE  OneHolder'
<1> USE DEF OneHolder, Holds
<1>0. surface \in [Surfaces -> Calls] /\ now \in Nat /\ Idle.step = "idle"
  BY DEF TypeOK, Idle
<1>1. CASE Tick
  BY <1>1 DEF Tick
<1>2. ASSUME NEW s \in Agents, Raise(s) \/ Lower(s) PROVE OneHolder'
  BY <1>2 DEF Raise, Lower
<1>3. ASSUME NEW p \in Surfaces, NEW s \in Agents, Ask(p, s) PROVE OneHolder'
  BY <1>0, <1>3 DEF Ask, Idle
<1>4. ASSUME NEW p \in Surfaces, Open(p) PROVE OneHolder'
  <2>1. \A q \in Surfaces : ~Holds(q)
    BY <1>0, <1>4 DEF Open
  <2> QED BY <1>0, <1>4, <2>1, CallType DEF Open
<1>5. ASSUME NEW p \in Surfaces, OpenFails(p) \/ Judge(p) PROVE OneHolder'
  BY <1>0, <1>5, CallType DEF OpenFails, Judge, Idle
<1>6. ASSUME NEW p \in Surfaces, Reclaim(p) PROVE OneHolder'
  <2>1. lock \in {surface[p].old, Free} /\ surface[p].old < now
    BY <1>6, <1>0 DEF Reclaim, CallsAreNow, TypeOK
  <2>2. \A q \in Surfaces : ~Holds(q)
    BY <1>0, <2>1, <1>6, CallType DEF Reclaim
  <2> QED BY <1>0, <1>6, <2>2 DEF Reclaim
<1>7. ASSUME NEW p \in Surfaces, Read(p) \/ Write(p) PROVE OneHolder'
  BY <1>0, <1>7, CallType DEF Read, Write
<1>8. ASSUME NEW p \in Surfaces, Release(p) PROVE OneHolder'
  BY <1>0, <1>8 DEF Release
<1>9. ASSUME NEW p \in Surfaces, Crash(p) PROVE OneHolder'
  BY <1>0, <1>9 DEF Crash
<1>10. CASE UNCHANGED vars
  BY <1>10 DEF vars
<1> QED BY <1>1, <1>2, <1>3, <1>4, <1>5, <1>6, <1>7, <1>8, <1>9, <1>10 DEF Next

\* What an announcement and a claim are made of.
LEMMA ToastType ==
  ASSUME TypeOK, NEW s \in Agents
  PROVE  /\ \A i \in DOMAIN toasts[s] : toasts[s][i] \in Toasts /\ toasts[s][i].ts \in Nat /\ toasts[s][i].at \in Nat
         /\ claims[s].ts \in Nat /\ claims[s].at \in Nat
<1>1. toasts[s] \in Seq(Toasts)
  BY DEF TypeOK
<1>2. \A i \in DOMAIN toasts[s] : toasts[s][i] \in Toasts
  BY <1>1
<1>3. claims[s] \in Claims
  BY DEF TypeOK
<1>4. claims[s].ts \in Nat /\ claims[s].at \in Nat
  BY <1>3 DEF Claims, Unclaimed
<1> QED BY <1>2, <1>4 DEF Toasts

\* The claims are as true after a step that leaves them and the announcements alone and makes no hand due.
LEMMA Frame ==
  ASSUME CopyIsCurrent, ClaimsSpeak, DueIsSettled, ToastsAreSettled, UNCHANGED <<now, claims, toasts>>,
         \A q \in Surfaces : \/ surface'[q] = surface[q]
                             \/ surface'[q].step \notin {"write", "release"}
                             \/ surface'[q].step = "release" /\ surface'[q].due = FALSE
  PROVE  CopyIsCurrent' /\ ClaimsSpeak' /\ DueIsSettled' /\ ToastsAreSettled'
<1>1. CopyIsCurrent'
  BY DEF CopyIsCurrent
<1>2. ClaimsSpeak' /\ ToastsAreSettled'
  BY DEF ClaimsSpeak, ToastsAreSettled, Covers, Settled
<1>3. DueIsSettled'
  BY DEF DueIsSettled, Due, Settled
<1> QED BY <1>1, <1>2, <1>3

\* The claim that is written speaks for every announcement of its session, and what is dropped spoke for none
\* of the last Day.
LEMMA WriteSpeaks ==
  ASSUME TypeOK, CallsAreNow, Announcing, NEW p \in Surfaces, Write(p)
  PROVE  ClaimsSpeak'
<1> DEFINE of == surface[p].of
           c  == [ts |-> surface[p].row.ts, at |-> now, kind |-> surface[p].row.kind]
<1>1. of \in Agents /\ surface[p].row.ts \in Nat /\ now \in Nat /\ surface[p].at = now
  <2>1. of \in Agents
    BY CallType DEF Write
  <2>2. surface[p].row.ts \in Nat
    BY CallType DEF Write, Raised
  <2>3. now \in Nat
    BY DEF TypeOK
  <2>4. surface[p].at = now
    BY DEF Write, CallsAreNow
  <2> QED BY <2>1, <2>2, <2>3, <2>4
<1>2. surface[p].seen = claims /\ claims \in [Agents -> Claims]
  BY DEF Write, Announcing, CopyIsCurrent, TypeOK
<1>3. claims' = [Kept(claims, now) EXCEPT ![of] = c]
  BY <1>1, <1>2 DEF Write
<1>4. UNCHANGED <<now, toasts>>
  BY DEF Write
<1>a. \A s \in Agents : claims'[s].at <= now
  BY <1>1, <1>2, <1>3 DEF Announcing, ClaimsSpeak, Kept, Unclaimed
<1> SUFFICES ASSUME NEW s \in Agents, NEW i \in DOMAIN toasts[s], now - toasts[s][i].at <= Day
             PROVE  Covers(claims'[s], toasts[s][i])
  BY <1>1, <1>4, <1>a, ToastType DEF ClaimsSpeak, Announcing, Covers
<1>5. toasts[s][i].ts \in Nat /\ toasts[s][i].at \in Nat /\ toasts[s][i].at <= now
  BY ToastType DEF Announcing, ClaimsSpeak
<1>6. CASE s = of
  <2>1. Settled(toasts[s][i], c.ts, c.kind, now)
    BY <1>6 DEF Write, Announcing, DueIsSettled, Due
  <2>2. claims'[s] = c
    BY <1>1, <1>3, <1>6 DEF Kept
  <2>3. c # Unclaimed
    <3>1. surface[p].row.kind \in Kinds
      BY CallType DEF Write, Raised
    <3> QED BY <3>1 DEF Unclaimed, Kinds
  <2> QED BY <1>1, <1>5, <2>1, <2>2, <2>3 DEF Settled, Covers, Rank
<1>7. CASE s # of
  <2>1. Covers(claims[s], toasts[s][i])
    BY <1>1, <1>5 DEF Announcing, ClaimsSpeak
  <2>2. claims[s].at \in Nat /\ ~(now - claims[s].at > Day)
    BY <1>1, <1>5, <2>1, ToastType DEF Covers
  <2>3. claims'[s] = claims[s]
    BY <1>1, <1>3, <1>7, <2>2 DEF Kept
  <2> QED BY <2>1, <2>3
<1> QED BY <1>6, <1>7

\* The announcement that is made is settled with all before it, and the claim just written speaks for it.
LEMMA ReleaseSettled ==
  ASSUME TypeOK, CallsAreNow, Announcing, NEW p \in Surfaces, Release(p), surface[p].due
  PROVE  ClaimsSpeak' /\ ToastsAreSettled'
<1> DEFINE of == surface[p].of
           t  == [ts |-> surface[p].row.ts, at |-> now, kind |-> surface[p].row.kind]
           n  == Len(toasts[of])
<1>1. of \in Agents /\ t.ts \in Nat /\ now \in Nat /\ surface[p].at = now
  BY CallType DEF Release, CallsAreNow, TypeOK, Raised
<1>2. toasts \in [Agents -> Seq(Toasts)] /\ UNCHANGED <<now, claims>>
  BY DEF TypeOK, Release
<1>3. toasts' = [toasts EXCEPT ![of] = Append(toasts[of], t)]
  BY <1>1 DEF Release
<1>4. /\ \A s \in Agents : s # of => toasts'[s] = toasts[s]
      /\ toasts'[of] = Append(toasts[of], t)
  BY <1>1, <1>2, <1>3
<1>5. /\ n \in Nat /\ DOMAIN toasts[of] = 1 .. n /\ DOMAIN toasts'[of] = 1 .. n + 1
      /\ toasts'[of][n + 1] = t
      /\ \A i \in 1 .. n : toasts'[of][i] = toasts[of][i]
  BY <1>1, <1>2, <1>4
<1>6. \A i \in 1 .. n : Settled(toasts[of][i], t.ts, t.kind, now)
  BY <1>5 DEF Announcing, DueIsSettled, Due, Release
<1>7. claims[of] = t /\ Covers(claims[of], t)
  <2>1. claims[of] = t
    BY DEF Announcing, CopyIsCurrent, Release
  <2>2. t # Unclaimed
    <3>1. surface[p].row.kind \in Kinds
      BY CallType DEF Release, Raised
    <3> QED BY <3>1 DEF Unclaimed, Kinds
  <2> QED BY <1>1, <2>1, <2>2 DEF Covers, Rank
<1>8. ClaimsSpeak'
  <2> SUFFICES ASSUME NEW s \in Agents, NEW i \in DOMAIN toasts'[s]
               PROVE  /\ toasts'[s][i].at <= now
                      /\ now - toasts'[s][i].at > Day \/ Covers(claims[s], toasts'[s][i])
    BY <1>2 DEF Announcing, ClaimsSpeak, Covers
  <2>1. CASE s = of /\ i = n + 1
    BY <1>1, <1>5, <1>7, <2>1
  <2>2. CASE s # of \/ i # n + 1
    <3>1. s # of => i \in DOMAIN toasts[s] /\ toasts'[s][i] = toasts[s][i]
      BY <1>4
    <3>2. s = of => i \in DOMAIN toasts[s] /\ toasts'[s][i] = toasts[s][i]
      BY SMTT(30), <1>5, <2>2
    <3> QED BY <3>1, <3>2 DEF Announcing, ClaimsSpeak
  <2> QED BY <2>1, <2>2
<1>9. ToastsAreSettled'
  <2> SUFFICES ASSUME NEW s \in Agents, NEW i \in DOMAIN toasts'[s], NEW j \in DOMAIN toasts'[s], i < j
               PROVE  Settled(toasts'[s][i], toasts'[s][j].ts, toasts'[s][j].kind, toasts'[s][j].at)
    BY DEF ToastsAreSettled, Settled
  <2>1. CASE s = of /\ j = n + 1
    <3>1. i \in 1 .. n /\ toasts'[s][i] = toasts[of][i] /\ toasts'[s][j] = t
      BY SMTT(30), <1>5, <2>1
    <3> QED BY <1>6, <3>1
  <2>2. CASE s = of /\ j # n + 1
    <3>1. i \in 1 .. n /\ j \in 1 .. n
      BY SMTT(30), <1>5, <2>2
    <3> QED BY <1>5, <2>2, <3>1 DEF Announcing, ToastsAreSettled
  <2>3. CASE s # of
    BY <1>4, <2>3 DEF Announcing, ToastsAreSettled
  <2> QED BY <2>1, <2>2, <2>3
<1> QED BY <1>8, <1>9

\* Every step keeps the claims true of what was announced.
LEMMA AnnouncingStep ==
  ASSUME TypeOK, CallsAreNow, Announcing, ~raced', [Next]_vars
  PROVE  CopyIsCurrent' /\ ClaimsSpeak' /\ DueIsSettled' /\ ToastsAreSettled'
<1>0. surface \in [Surfaces -> Calls] /\ now \in Nat /\ Idle.step = "idle"
  BY DEF TypeOK, Idle
<1>a. CopyIsCurrent /\ ClaimsSpeak /\ DueIsSettled /\ ToastsAreSettled
  BY DEF Announcing
<1>1. CASE Tick
  <2>1. \A p \in Surfaces : surface'[p] = surface[p] /\ At(p, "idle")
    BY <1>1 DEF Tick
  <2>2. CopyIsCurrent' /\ DueIsSettled'
    BY <2>1 DEF CopyIsCurrent, DueIsSettled, Due
  <2>3. ToastsAreSettled'
    BY <1>1, <1>a DEF Tick, ToastsAreSettled, Settled
  <2>4. ClaimsSpeak'
    BY <1>0, <1>1, <1>a, ToastType DEF Tick, ClaimsSpeak, Covers
  <2> QED BY <2>2, <2>3, <2>4
<1>2. ASSUME NEW s \in Agents, Raise(s) \/ Lower(s)
      PROVE  CopyIsCurrent' /\ ClaimsSpeak' /\ DueIsSettled' /\ ToastsAreSettled'
  BY <1>2, <1>a, Frame DEF Raise, Lower
<1>3. ASSUME NEW p \in Surfaces, NEW s \in Agents, Ask(p, s)
      PROVE  CopyIsCurrent' /\ ClaimsSpeak' /\ DueIsSettled' /\ ToastsAreSettled'
  BY <1>0, <1>3, <1>a, Frame DEF Ask
<1>4. ASSUME NEW p \in Surfaces, Open(p) \/ OpenFails(p) \/ Judge(p)
      PROVE  CopyIsCurrent' /\ ClaimsSpeak' /\ DueIsSettled' /\ ToastsAreSettled'
  <2>1. surface'[p].step \notin {"write", "release"}
    BY <1>0, <1>4, CallType DEF Open, OpenFails, Judge
  <2> QED BY <1>0, <1>4, <1>a, <2>1, Frame DEF Open, OpenFails, Judge
<1>5. ASSUME NEW p \in Surfaces, Reclaim(p) \/ Crash(p)
      PROVE  CopyIsCurrent' /\ ClaimsSpeak' /\ DueIsSettled' /\ ToastsAreSettled'
  BY <1>0, <1>5, <1>a, Frame DEF Reclaim, Crash
<1>6. ASSUME NEW p \in Surfaces, Read(p)
      PROVE  CopyIsCurrent' /\ ClaimsSpeak' /\ DueIsSettled' /\ ToastsAreSettled'
  <2> DEFINE of   == surface[p].of
             row  == surface[p].row
             prev == claims[of]
             due  == ~Announced(prev, row) /\ ~Cooling(prev, row, surface[p].at)
  <2>1. /\ of \in Agents /\ row.ts \in Nat /\ surface[p].at = now /\ ~surface[p].due
        /\ UNCHANGED <<now, claims, toasts>>
    BY <1>6, CallType DEF Read, CallsAreNow, Raised
  <2>2. surface' = [surface EXCEPT ![p].step = IF due THEN "write" ELSE "release", ![p].seen = claims]
    BY <1>6 DEF Read
  <2>3. \A q \in Surfaces : q # p => surface'[q] = surface[q]
    BY <1>0, <2>2
  <2>4. /\ surface'[p].step = IF due THEN "write" ELSE "release"
        /\ surface'[p].seen = claims /\ surface'[p].of = of /\ surface'[p].row = row
        /\ surface'[p].due = surface[p].due
    BY <1>0, <1>6, <2>2, CallType DEF Read
  <2>5. CASE ~due
    BY <1>6, <1>a, <2>1, <2>3, <2>4, <2>5, CallType, Frame DEF Read
  <2>6. CASE due
    <3>1. CopyIsCurrent'
      BY <1>a, <2>1, <2>3, <2>4, <2>6 DEF CopyIsCurrent
    <3>2. ClaimsSpeak' /\ ToastsAreSettled'
      BY <1>a, <2>1 DEF ClaimsSpeak, ToastsAreSettled, Covers, Settled
    <3>3. ASSUME NEW i \in DOMAIN toasts[of] PROVE Settled(toasts[of][i], row.ts, row.kind, now)
      <4>1. CASE now - toasts[of][i].at > Day
        BY <4>1 DEF Settled
      <4>2. CASE Covers(prev, toasts[of][i])
        <5>1. prev.ts < row.ts
          BY <2>1, <2>6, <4>2, ToastType DEF Announced, Covers
        <5>2. now - prev.at >= Cooldown \/ Rank(row.kind) < Rank(prev.kind)
          BY <1>0, <2>1, <2>6, <4>2, ToastType DEF Cooling, Covers, Rank
        <5>3. /\ prev.ts \in Nat /\ prev.at \in Nat /\ toasts[of][i].ts \in Nat /\ toasts[of][i].at \in Nat
              /\ row.ts \in Nat /\ now \in Nat
          BY <1>0, <2>1, ToastType
        <5>4. /\ prev.ts >= toasts[of][i].ts /\ prev.at >= toasts[of][i].at
              /\ prev.at - toasts[of][i].at >= Cooldown \/ Rank(prev.kind) <= Rank(toasts[of][i].kind)
              /\ prev.at <= now
          <6>1. claims[of].at <= now
            BY <1>a, <2>1 DEF ClaimsSpeak
          <6> QED BY <4>2, <6>1 DEF Covers
        <5> QED BY <5>1, <5>2, <5>3, <5>4 DEF Settled, Rank
      <4> QED BY <1>a, <2>1, <4>1, <4>2 DEF ClaimsSpeak
    <3>4. DueIsSettled'
      BY <1>a, <2>1, <2>3, <2>4, <3>3 DEF DueIsSettled, Due, Settled
    <3> QED BY <3>1, <3>2, <3>4
  <2> QED BY <2>5, <2>6
<1>7. ASSUME NEW p \in Surfaces, Write(p)
      PROVE  CopyIsCurrent' /\ ClaimsSpeak' /\ DueIsSettled' /\ ToastsAreSettled'
  <2> DEFINE of == surface[p].of
             c  == [ts |-> surface[p].row.ts, at |-> now, kind |-> surface[p].row.kind]
  <2>1. of \in Agents /\ surface[p].at = now /\ UNCHANGED <<now, toasts>>
    BY <1>7, CallType DEF Write, CallsAreNow
  <2>2. \A q \in Surfaces : q # p => surface'[q] = surface[q] /\ ~Holds(q)
    BY <1>0, <1>7 DEF Write, Announcing, OneHolder, Holds
  <2>3. /\ surface'[p].step = "release" /\ surface'[p].of = of /\ surface'[p].row = surface[p].row
    BY <1>0, <1>7, CallType DEF Write
  <2>4. claims'[of] = c
    BY <1>7, <2>1 DEF Write, Kept
  <2>5. CopyIsCurrent'
    BY <2>1, <2>2, <2>3, <2>4 DEF CopyIsCurrent, Holds
  <2>6. DueIsSettled'
    <3> SUFFICES ASSUME NEW q \in Surfaces, Due(q)', NEW i \in DOMAIN toasts'[surface'[q].of]
                 PROVE  Settled(toasts'[surface'[q].of][i], surface'[q].row.ts, surface'[q].row.kind, now')
      BY DEF DueIsSettled
    <3>1. q = p
      BY <2>2 DEF Due, Holds
    <3>2. Due(p)
      BY <1>7 DEF Due, Write
    <3>3. i \in DOMAIN toasts[of]
      BY <2>1, <2>3, <3>1
    <3>4. Settled(toasts[of][i], surface[p].row.ts, surface[p].row.kind, now)
      BY <1>a, <3>2, <3>3 DEF DueIsSettled
    <3> QED BY <2>1, <2>3, <3>1, <3>4
  <2>7. ToastsAreSettled'
    BY <1>a, <2>1 DEF ToastsAreSettled, Settled
  <2> QED BY <1>7, <2>5, <2>6, <2>7, WriteSpeaks
<1>8. ASSUME NEW p \in Surfaces, Release(p)
      PROVE  CopyIsCurrent' /\ ClaimsSpeak' /\ DueIsSettled' /\ ToastsAreSettled'
  <2>1. CASE ~surface[p].due
    BY <1>0, <1>8, <1>a, <2>1, Frame DEF Release
  <2>2. CASE surface[p].due
    <3>1. \A q \in Surfaces : surface'[q].step \notin {"write", "release"}
      BY <1>0, <1>8 DEF Release, Announcing, OneHolder, Holds
    <3>2. CopyIsCurrent' /\ DueIsSettled'
      BY <3>1 DEF CopyIsCurrent, DueIsSettled, Due
    <3> QED BY <1>8, <2>2, <3>2, ReleaseSettled
  <2> QED BY <2>1, <2>2
<1>9. CASE UNCHANGED vars
  BY <1>9, <1>a, Frame DEF vars
<1> QED BY <1>1, <1>2, <1>3, <1>4, <1>5, <1>6, <1>7, <1>8, <1>9 DEF Next

\* The inductive invariant holds of every reachable state.
LEMMA Invariance == Spec => []IInv
<1>1. IInv /\ [Next]_vars => IInv'
  <2> SUFFICES ASSUME IInv, [Next]_vars PROVE IInv'
    OBVIOUS
  <2>1. TypeOK' /\ CallsAreNow'
    BY TypeStep, NowStep DEF IInv
  <2>2. ASSUME ~raced' PROVE Announcing'
    <3>1. ~raced
      BY <2>2 DEF Next, vars, Tick, Raise, Lower, Ask, Open, OpenFails, Judge, Reclaim, Read, Write, Release, Crash
    <3>2. OneHolder'
      BY <2>2, <3>1, HolderStep DEF IInv, Announcing
    <3>3. CopyIsCurrent' /\ ClaimsSpeak' /\ DueIsSettled' /\ ToastsAreSettled'
      BY <2>2, <3>1, AnnouncingStep DEF IInv
    <3> QED BY <3>2, <3>3 DEF Announcing
  <2> QED BY <2>1, <2>2 DEF IInv
<1> QED BY <1>1, InitIInv, PTL DEF Spec

-----------------------------------------------------------------------------

\* Types, for any surfaces, sessions and times.
THEOREM Typed == Spec => []TypeOK
<1>1. IInv => TypeOK
  BY DEF IInv
<1> QED BY <1>1, Invariance, PTL

\* A hand is announced once per machine in the day its claim is kept for, unless a lock was removed for another
\* one (dueDesktopNotify).
THEOREM AnnouncedOnce == Spec => []OncePerHand
<1>1. IInv => OncePerHand
  <2> SUFFICES ASSUME IInv, ~raced, NEW s \in Agents, NEW i \in DOMAIN toasts[s], NEW j \in DOMAIN toasts[s], i < j
               PROVE  \/ toasts[s][i].ts < toasts[s][j].ts
                      \/ toasts[s][j].at - toasts[s][i].at > Day
    BY DEF OncePerHand
  <2>1. Settled(toasts[s][i], toasts[s][j].ts, toasts[s][j].kind, toasts[s][j].at)
    BY DEF IInv, Announcing, ToastsAreSettled
  <2> QED BY <2>1 DEF Settled
<1> QED BY <1>1, Invariance, PTL

\* Within the cooldown a session is announced again only for a more urgent wait.
THEOREM CooldownHolds == Spec => []CooldownKept
<1>1. IInv => CooldownKept
  <2> SUFFICES ASSUME IInv, ~raced, NEW s \in Agents, NEW i \in DOMAIN toasts[s], NEW j \in DOMAIN toasts[s], i < j
               PROVE  \/ toasts[s][j].at - toasts[s][i].at >= Cooldown
                      \/ Rank(toasts[s][j].kind) < Rank(toasts[s][i].kind)
    BY DEF CooldownKept
  <2>1. Settled(toasts[s][i], toasts[s][j].ts, toasts[s][j].kind, toasts[s][j].at)
    BY DEF IInv, Announcing, ToastsAreSettled
  <2>2. toasts[s][i].at \in Nat /\ toasts[s][j].at \in Nat
    BY ToastType DEF IInv
  <2> QED BY <2>1, <2>2 DEF Settled
<1> QED BY <1>1, Invariance, PTL

=============================================================================
