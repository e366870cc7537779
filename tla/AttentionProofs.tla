-------------------------- MODULE AttentionProofs --------------------------
(***************************************************************************)
(* Proofs about Attention, for any calls, any names of them and any        *)
(* bounds: the state is well formed; the ledger pairs every wait's end     *)
(* with its beginning, and a fault miscounts one wait at most; a prompt    *)
(* that is open has a hand up; and the hand names no call whose result has *)
(* been handled.                                                           *)
(*                                                                         *)
(* The argument: while a hook is between its two writes no other changes   *)
(* the hand or the ledger, so the ledger fits the hand the hook is to      *)
(* leave.  A call waits only after its own hook has put its name into the  *)
(* hand, and what may take it out while it waits is a hook of the kinds    *)
(* that mark it overlapped; the result of a call takes out that call's     *)
(* name and no other.                                                      *)
(***************************************************************************)
EXTENDS Attention, FiniteSetTheorems, TLAPS

Lowers == {"Pre", "Post", "Prompt"}
Raises == {"Ask", "Stop", "Note"}

\* What each kind of hook does.
HookInv ==
  \A h \in Hooks :
    \/ hook[h] = NotRun
    \/ h[1] \in Lowers /\ hook[h].step \in {"look", "lower", "drop"} /\ hook[h].kind = "none"
    \/ h[1] = "Ask" /\ hook[h].step \in {"stamp", "write", "put"} /\ hook[h].kind = "permission"
    \/ h[1] = "Stop" /\ hook[h].step \in {"stamp", "write", "put"} /\ hook[h].kind = "idle-done"
    \/ h[1] = "Note" /\ hook[h].step \in {"stamp", "write", "put"} /\ hook[h].kind \in Waits

\* How far the agent is while its hooks run.
AgentInv ==
  /\ \A c \in Calls :
       /\ Running(<<"Pre", c>>) => call[c] = "started"
       /\ Running(<<"Ask", c>>) => call[c] = "asking"
       /\ Running(<<"Post", c>>) => call[c] = "done"
       /\ turn = "off" => call[c] \notin {"started", "asking"}
  /\ Running(<<"Stop", NoCall>>) => turn = "off"
  /\ Running(<<"Prompt", NoCall>>) => turn = "on"

\* Only a permission names calls.
HandInv == hand.calls # {} => hand.kind = "permission"

\* The hook that holds the lock is between its two writes.
Held(h) == At(h, "put") \/ At(h, "drop")

\* One hook at a time holds it; the result that lowers the hand is that of the one call it names.
LockInv ==
  /\ \A g, h \in Hooks : Held(g) /\ Held(h) => g = h
  /\ \A h \in Hooks : At(h, "drop") /\ h[1] = "Post" => hand.calls \subseteq {Key(h[2])}

\* The hand that a hook is about to leave.
Due(h) == IF At(h, "put") THEN Raised(hand, hook[h].kind, hook[h].ts, Key(h[2])) ELSE NoHand

\* The ledger of a hand.
Balanced(l, h) ==
  /\ \A i \in DOMAIN l : l[i].ev = IF i % 2 = 1 THEN "up" ELSE "down"
  /\ \A i \in DOMAIN l : i % 2 = 0 => l[i] = [l[i - 1] EXCEPT !.ev = "down"]
  /\ Standing(h) <=> Len(l) % 2 = 1
  /\ Standing(h) => l[Len(l)] = Up(h.kind, h.ts)

\* Without a fault the ledger fits the hand, or the hand that is to come.
LedgerInv ==
  faults = 0 =>
    /\ Unlocked => Balanced(ledger, hand)
    /\ \A h \in Hooks : Held(h) => Balanced(ledger, Due(h))

\* The wait that a hook is about to begin.
Begins(h) == IF At(h, "put") /\ ~Restates(h) /\ hook[h].kind \in Waits THEN 1 ELSE 0

Downs(l) == Cardinality({i \in DOMAIN l : l[i].ev = "down"})
Stands(h) == IF Standing(h) THEN 1 ELSE 0
Within(n, k) == n \in (-k) .. k

\* Each fault miscounts one wait at most.
CountInv ==
  /\ Unlocked => Within(Downs(ledger) + Stands(hand) - begun, faults)
  /\ \A h \in Hooks : Held(h) => Within(Downs(ledger) + Stands(Due(h)) - begun - Begins(h), faults)

\* The name of a waiting call that no sweeping hook overlapped is in the hand.
ShownInv ==
  \A c \in Calls : Open(c) /\ c \notin overlapped =>
    /\ \A h \in Hooks : ~Sweeping(h)
    /\ giveUps = 0 /\ faults = 0 /\ Alone(c) /\ Waiting(c) => keyOf[c] \in hand.calls

\* The inductive invariant.
IInv ==
  TypeOK /\ HookInv /\ AgentInv /\ HandInv /\ LockInv /\ LedgerInv /\ CountInv /\ ShownInv /\ AnsweredIsLowered

-----------------------------------------------------------------------------

USE AttentionAssumption DEF AttentionAssumption, At, Return

HookStates ==
  [step : {"none", "look", "stamp", "write", "lower", "put", "drop"}, start : Times, ts : Times,
   kind : {"none", "idle-done"} \cup Waits]

Lines == [ev : {"up", "down"}, kind : Waits, at : Times]

CallStates == {"none", "started", "asking", "running", "done", "denied"}

\* The hooks there are.
LEMMA HookFacts ==
  /\ \A c \in Calls : <<"Pre", c>> \in Hooks /\ <<"Ask", c>> \in Hooks /\ <<"Post", c>> \in Hooks
  /\ <<"Prompt", NoCall>> \in Hooks /\ <<"Stop", NoCall>> \in Hooks /\ <<"Note", NoCall>> \in Hooks
  /\ \A h \in Hooks :
       /\ h = <<h[1], h[2]>> /\ h[1] \in Lowers \cup Raises
       /\ h[1] \in {"Pre", "Ask", "Post"} => h[2] \in Calls
       /\ h[1] \in {"Prompt", "Stop", "Note"} => h[2] = NoCall
  BY DEF Hooks, Lowers, Raises

\* What the types say of the parts.
LEMMA Types ==
  ASSUME TypeOK
  PROVE  /\ clock \in Times /\ 0 \in Times /\ NoHand \in Hands /\ NotRun \in HookStates
         /\ hook \in [Hooks -> HookStates] /\ call \in [Calls -> CallStates]
         /\ hand \in Hands /\ hand.ts \in Times /\ hand.calls \subseteq Keys
         /\ ledger \in Seq(Lines) /\ faults \in Nat /\ giveUps \in Nat /\ begun \in Nat
         /\ keyOf \in [Calls -> Keys]
         /\ \A c \in Calls \cup {NoCall} : Key(c) \in Keys \cup {NoCall}
         /\ \A c \in Calls : Key(c) = keyOf[c] /\ Key(c) \in Keys /\ Key(c) # NoCall
         /\ Key(NoCall) = NoCall
         /\ \A h \in Hooks : hook[h] \in HookStates
<1>1. /\ clock \in Times /\ hand \in Hands /\ keyOf \in [Calls -> Keys]
      /\ ledger \in Seq(Lines) /\ faults \in Nat /\ giveUps \in Nat /\ begun \in Nat
      /\ hook \in [Hooks -> HookStates] /\ call \in [Calls -> CallStates]
  BY DEF TypeOK, HookStates, Lines, CallStates
<1>2. 0 \in Times
  BY DEF Times
<1>3. NoHand \in Hands /\ NotRun \in HookStates
  BY <1>2 DEF Hands, NotRun, HookStates
<1>4. hand.ts \in Times /\ hand.calls \subseteq Keys
  BY <1>1, <1>2 DEF Hands, NoHand
<1>5. \A c \in Calls : Key(c) = keyOf[c] /\ Key(c) \in Keys /\ Key(c) # NoCall
  BY <1>1 DEF Key
<1>6. Key(NoCall) = NoCall
  BY DEF Key
<1> QED BY <1>1, <1>2, <1>3, <1>4, <1>5, <1>6

\* The initial state satisfies every part of the invariant.
LEMMA InitIInv == Init => IInv
<1> SUFFICES ASSUME Init PROVE IInv
  OBVIOUS
<1>1. TypeOK
  <2>1. 0 \in Times /\ 1 \in Times
    BY DEF Times
  <2>2. clock \in Times /\ hand \in Hands
    BY <2>1 DEF Init, Hands
  <2>3. hook \in [Hooks -> HookStates]
    BY <2>1 DEF Init, NotRun, HookStates
  <2>4. ledger \in Seq([ev : {"up", "down"}, kind : Waits, at : Times])
    BY DEF Init
  <2>5. notes \in 0 .. MaxNotes /\ giveUps \in Nat /\ faults \in Nat /\ giveUps + faults <= MaxDrops /\ begun \in Nat
    BY DEF Init
  <2> QED BY <2>2, <2>3, <2>4, <2>5 DEF Init, TypeOK, HookStates
<1>2. \A h \in Hooks : ~Running(h) /\ ~At(h, "put") /\ ~At(h, "drop")
  BY DEF Init, Running, NotRun
<1>3. HookInv /\ AgentInv /\ HandInv /\ ShownInv /\ AnsweredIsLowered
  BY <1>2, HookFacts DEF Init, HookInv, AgentInv, HandInv, ShownInv, AnsweredIsLowered, Running, Open, NoHand
<1>4. LockInv
  BY <1>2 DEF LockInv, Held
<1>5. LedgerInv
  <2>1. Balanced(ledger, hand)
    BY DEF Init, Balanced, Standing, NoHand, Waits
  <2> QED BY <1>2, <2>1 DEF LedgerInv, Held
<1>6. CountInv
  <2>1. {i \in DOMAIN ledger : ledger[i].ev = "down"} = {}
    BY DEF Init
  <2>2. Downs(ledger) = 0
    BY <2>1, FS_EmptySet DEF Downs
  <2>3. Stands(hand) = 0
    BY DEF Init, Stands, Standing, NoHand, Waits
  <2>4. Within(Downs(ledger) + Stands(hand) - begun, faults)
    BY <2>2, <2>3 DEF Init, Within
  <2> QED BY <1>2, <2>4 DEF CountInv, Held
<1> QED BY <1>1, <1>3, <1>4, <1>5, <1>6 DEF IInv

\* A hook starts as the kind of event that starts it does.
LEMMA BeginType ==
  ASSUME TypeOK, NEW h \in Hooks, NEW step \in {"look", "stamp"}, NEW kind \in {"none", "idle-done"} \cup Waits,
         Begin(h, step, kind)
  PROVE  hook' \in [Hooks -> HookStates]
<1> DEFINE start == IF step = "look" THEN clock ELSE 0
<1>1. 0 \in Times /\ start \in Times
  BY Types
<1>2. [step |-> step, start |-> start, ts |-> 0, kind |-> kind] \in HookStates
  BY <1>1 DEF HookStates
<1> QED BY <1>2, Types DEF Begin

\* A report leaves a hand of its kind.
LEMMA RaisedType ==
  ASSUME TypeOK, NEW kind \in Waits \cup {"idle-done"}, NEW ts \in Times, NEW key \in Keys \cup {NoCall}
  PROVE  Raised(hand, kind, ts, key) \in Hands
  BY Types DEF Raised, Hands

\* A hook that goes on is still a hook, of the same kind.
LEMMA GoesOn ==
  ASSUME TypeOK, NEW h \in Hooks, NEW step \in {"write", "lower", "put", "drop"}, Step(h, step)
  PROVE  /\ hook' \in [Hooks -> HookStates]
         /\ hook'[h].step = step /\ hook'[h].kind = hook[h].kind /\ hook'[h].ts = hook[h].ts
         /\ hook'[h] # NotRun
         /\ \A g \in Hooks : g # h => hook'[g] = hook[g]
<1>1. hook[h] \in HookStates
  BY Types
<1>2. [hook[h] EXCEPT !.step = step] \in HookStates
  BY <1>1 DEF HookStates
<1>3. hook'[h] = [hook[h] EXCEPT !.step = step]
  BY Types DEF Step
<1>4. hook'[h].step = step /\ hook'[h].kind = hook[h].kind /\ hook'[h].ts = hook[h].ts
  BY <1>1, <1>3 DEF HookStates
<1> QED BY <1>2, <1>4, Types DEF Step, NotRun

\* A hook that is over leaves the others alone.
LEMMA Over ==
  ASSUME TypeOK, NEW h \in Hooks, Return(h)
  PROVE  /\ hook' \in [Hooks -> HookStates]
         /\ hook'[h] = NotRun
         /\ \A g \in Hooks : g # h => hook'[g] = hook[g]
  BY Types

\* A hook that takes its time goes on.
LEMMA Stamped ==
  ASSUME TypeOK, NEW h \in Hooks, Stamp(h)
  PROVE  /\ hook' \in [Hooks -> HookStates]
         /\ hook'[h].step = "write" /\ hook'[h].kind = hook[h].kind /\ hook'[h] # NotRun
         /\ \A g \in Hooks : g # h => hook'[g] = hook[g]
<1>1. hook[h] \in HookStates /\ clock \in Times
  BY Types
<1>2. [hook[h] EXCEPT !.step = "write", !.ts = clock] \in HookStates
  BY <1>1 DEF HookStates
<1>3. hook'[h] = [hook[h] EXCEPT !.step = "write", !.ts = clock]
  BY Types DEF Stamp
<1>4. hook'[h].step = "write" /\ hook'[h].kind = hook[h].kind
  BY <1>1, <1>3 DEF HookStates
<1>5. \A g \in Hooks : g # h => hook'[g] = hook[g]
  BY Types DEF Stamp
<1>6. hook' \in [Hooks -> HookStates]
  <2>1. hook' = [hook EXCEPT ![h] = [hook[h] EXCEPT !.step = "write", !.ts = clock]]
    BY Types DEF Stamp
  <2> QED BY <1>2, <2>1, Types
<1> QED BY <1>4, <1>5, <1>6 DEF NotRun

-----------------------------------------------------------------------------

\* The number of lines that close a wait.
LEMMA DownsOf ==
  ASSUME NEW l \in Seq(Lines)
  PROVE  /\ Downs(l) \in Nat
         /\ \A e \in Lines : Downs(Append(l, e)) = IF e.ev = "down" THEN Downs(l) + 1 ELSE Downs(l)
<1> DEFINE n == Len(l)
           D == {i \in DOMAIN l : l[i].ev = "down"}
<1>1. n \in Nat /\ DOMAIN l = 1 .. n
  OBVIOUS
<1>2. IsFiniteSet(D)
  <2>1. IsFiniteSet(1 .. n)
    BY <1>1, FS_Interval
  <2>2. D \in SUBSET (1 .. n)
    BY <1>1
  <2> QED BY <2>1, <2>2, FS_Subset
<1>3. Downs(l) \in Nat
  BY <1>2, FS_CardinalityType DEF Downs
<1>4. ASSUME NEW e \in Lines
      PROVE  Downs(Append(l, e)) = IF e.ev = "down" THEN Downs(l) + 1 ELSE Downs(l)
  <2> DEFINE m == Append(l, e)
  <2>1. DOMAIN m = 1 .. n + 1 /\ m[n + 1] = e /\ \A i \in 1 .. n : m[i] = l[i]
    BY <1>1
  <2>2. {i \in DOMAIN m : m[i].ev = "down"} = IF e.ev = "down" THEN D \cup {n + 1} ELSE D
    BY <1>1, <2>1
  <2>3. n + 1 \notin D
    BY <1>1
  <2> QED BY <1>2, <2>2, <2>3, FS_AddElement DEF Downs
<1> QED BY <1>3, <1>4

\* What an append may lose, and what it leaves when it loses nothing.
LEMMA AppendFacts ==
  ASSUME TypeOK, NEW down, NEW up, LedgerAppend(down, up),
         down = <<>> \/ \E e \in Lines : e.ev = "down" /\ down = <<e>>,
         up = <<>> \/ \E e \in Lines : e.ev = "up" /\ up = <<e>>
  PROVE  /\ ledger' \in Seq(Lines)
         /\ faults' \in Nat /\ faults <= faults' /\ giveUps + faults' <= MaxDrops
         /\ faults' = faults => ledger' = ledger \o down \o up
         /\ Downs(ledger') \in Nat
         /\ Downs(ledger') <= Downs(ledger) + (IF down = <<>> THEN 0 ELSE 1)
         /\ Downs(ledger) + (IF down = <<>> THEN 0 ELSE 1) <= Downs(ledger') + (faults' - faults)
<1> DEFINE all == (IF down = <<>> THEN {} ELSE {"down"}) \cup (IF up = <<>> THEN {} ELSE {"up"})
<1>1. PICK lost \in SUBSET all :
        /\ giveUps + faults + Cardinality(lost) <= MaxDrops
        /\ faults' = faults + Cardinality(lost)
        /\ ledger' = ledger \o (IF "down" \in lost THEN <<>> ELSE down) \o (IF "up" \in lost THEN <<>> ELSE up)
  BY DEF LedgerAppend
<1>2. /\ Cardinality({}) = 0 /\ Cardinality({"down"}) = 1 /\ Cardinality({"up"}) = 1
      /\ Cardinality({"down", "up"}) = 2
  <2>1. IsFiniteSet({"down"}) /\ Cardinality({"down"}) = 1
    BY FS_Singleton
  <2>2. Cardinality({"down"} \cup {"up"}) = 2
    <3>1. "up" \notin {"down"}
      OBVIOUS
    <3> DEFINE S == {"down"}
    <3>2. Cardinality(S \cup {"up"}) = IF "up" \in S THEN Cardinality(S) ELSE Cardinality(S) + 1
      BY <2>1, FS_AddElement
    <3> QED BY <2>1, <3>1, <3>2
  <2>3. {"down", "up"} = {"down"} \cup {"up"}
    OBVIOUS
  <2> QED BY <2>1, <2>2, <2>3, FS_EmptySet, FS_Singleton
<1>3. lost \in {{}, {"down"}, {"up"}, {"down", "up"}}
  BY <1>1
<1>4. Cardinality(lost) \in Nat /\ (Cardinality(lost) = 0 => lost = {}) /\ ("down" \in lost => Cardinality(lost) >= 1)
  <2>1. CASE lost = {}
    BY <1>2, <2>1
  <2>2. CASE lost = {"down"}
    BY <1>2, <2>2
  <2>3. CASE lost = {"up"}
    BY <1>2, <2>3
  <2>4. CASE lost = {"down", "up"}
    BY <1>2, <2>4
  <2> QED BY <1>3, <2>1, <2>2, <2>3, <2>4
<1>5. ledger \in Seq(Lines) /\ faults \in Nat /\ giveUps \in Nat
  BY Types
<1> DEFINE d == IF "down" \in lost THEN <<>> ELSE down
           u == IF "up" \in lost THEN <<>> ELSE up
           l1 == ledger \o d
<1>6. /\ l1 \in Seq(Lines)
      /\ Downs(l1) = Downs(ledger) + (IF "down" \in lost \/ down = <<>> THEN 0 ELSE 1)
  <2>1. CASE d = <<>>
    <3>1. l1 = ledger /\ ("down" \in lost \/ down = <<>>)
      BY <1>5, <2>1
    <3>2. Downs(ledger) \in Nat
      BY <1>5, DownsOf
    <3> HIDE DEF l1
    <3> QED BY <1>5, <3>1, <3>2
  <2>2. CASE d # <<>>
    <3>1. PICK e \in Lines : e.ev = "down" /\ down = <<e>> /\ "down" \notin lost
      BY <2>2
    <3>2. l1 = Append(ledger, e)
      BY <1>5, <3>1
    <3>3. down # <<>> /\ l1 \in Seq(Lines)
      BY <1>5, <2>2, <3>1, <3>2
    <3> HIDE DEF l1
    <3> QED BY <1>5, <3>1, <3>2, <3>3, DownsOf
  <2> QED BY <2>1, <2>2
<1>7. ledger' \in Seq(Lines) /\ Downs(ledger') = Downs(l1)
  <2>0. ledger' = l1 \o u
    BY <1>1
  <2>1. CASE u = <<>>
    <3>1. l1 \in Seq(Lines) /\ ledger' = l1 \o <<>>
      BY <1>6, <2>0, <2>1
    <3> HIDE DEF l1
    <3>2. ledger' = l1
      BY <3>1
    <3> QED BY <3>1, <3>2
  <2>2. CASE u # <<>>
    <3>1. PICK e \in Lines : e.ev = "up" /\ up = <<e>> /\ "up" \notin lost
      BY <2>2
    <3>2. ledger' = Append(l1, e)
      BY <1>6, <2>0, <3>1
    <3> HIDE DEF l1
    <3> QED BY <1>6, <3>1, <3>2, DownsOf
  <2> QED BY <2>1, <2>2
<1>8. Downs(ledger) \in Nat
  BY <1>5, DownsOf
<1>9. "down" \in lost => down # <<>>
  BY <1>1
<1>10. faults' = faults => lost = {}
  BY <1>1, <1>4, <1>5
<1>11. faults' = faults => ledger' = ledger \o down \o up
  BY <1>1, <1>10
<1>12. faults' \in Nat /\ faults <= faults' /\ giveUps + faults' <= MaxDrops
  BY <1>1, <1>4, <1>5
<1> HIDE DEF l1, d, u
<1>13. Downs(ledger') = Downs(ledger) + (IF "down" \in lost \/ down = <<>> THEN 0 ELSE 1)
  BY <1>6, <1>7
<1>14. "down" \in lost => faults' >= faults + 1
  BY <1>1, <1>4, <1>5
<1>15. faults' - faults \in Nat /\ ("down" \in lost => faults' - faults >= 1)
  <2>1. faults' - faults = Cardinality(lost)
    <3> DEFINE k == Cardinality(lost)
    <3>1. faults' = faults + k /\ k \in Nat /\ faults \in Nat
      BY <1>1, <1>4, <1>5
    <3> HIDE DEF k
    <3>2. faults' - faults = k
      BY <3>1
    <3> QED BY <3>2 DEF k
  <2> QED BY <1>4, <2>1
<1>16. Downs(ledger') \in Nat
  BY <1>7, DownsOf
<1> HIDE DEF all
<1>17. CASE down = <<>>
  BY <1>7, <1>8, <1>11, <1>12, <1>13, <1>15, <1>16, <1>17
<1>18. CASE down # <<>> /\ "down" \in lost
  BY <1>7, <1>8, <1>11, <1>12, <1>13, <1>15, <1>16, <1>18
<1>19. CASE down # <<>> /\ "down" \notin lost
  BY <1>7, <1>8, <1>11, <1>12, <1>13, <1>15, <1>16, <1>19
<1> QED BY <1>17, <1>18, <1>19

\* What a hook appends when it raises or lowers.
RaisesDown(h) == IF Restates(h) THEN <<>> ELSE Closing(hand)
RaisesUp(h) == IF Restates(h) \/ hook[h].kind \notin Waits THEN <<>> ELSE <<Up(hook[h].kind, hook[h].ts)>>

LEMMA LinesOf ==
  ASSUME TypeOK, NEW h \in Hooks
  PROVE  /\ Standing(hand) => Lowered(hand) \in Lines /\ Lowered(hand).ev = "down"
         /\ Closing(hand) = <<>> \/ \E e \in Lines : e.ev = "down" /\ Closing(hand) = <<e>>
         /\ RaisesDown(h) = <<>> \/ \E e \in Lines : e.ev = "down" /\ RaisesDown(h) = <<e>>
         /\ RaisesUp(h) = <<>> \/ \E e \in Lines : e.ev = "up" /\ RaisesUp(h) = <<e>>
         /\ <<>> = <<>> \/ \E e \in Lines : e.ev = "up" /\ <<>> = <<e>>
         /\ Closing(hand) = <<>> <=> ~Standing(hand)
         /\ hook[h].kind \in Waits => Up(hook[h].kind, hook[h].ts) \in Lines
<1>1. hand.ts \in Times /\ hook[h].ts \in Times
  BY Types DEF HookStates
<1>2. Standing(hand) => Lowered(hand) \in Lines /\ Lowered(hand).ev = "down"
  BY <1>1 DEF Standing, Lowered, Lines
<1>3. hook[h].kind \in Waits => Up(hook[h].kind, hook[h].ts) \in Lines /\ Up(hook[h].kind, hook[h].ts).ev = "up"
  BY <1>1 DEF Up, Lines
<1>4. Closing(hand) = <<>> \/ \E e \in Lines : e.ev = "down" /\ Closing(hand) = <<e>>
  BY <1>2 DEF Closing
<1>5. Closing(hand) = <<>> <=> ~Standing(hand)
  BY DEF Closing
<1>6. RaisesDown(h) = <<>> \/ \E e \in Lines : e.ev = "down" /\ RaisesDown(h) = <<e>>
  BY <1>4 DEF RaisesDown
<1>7. RaisesUp(h) = <<>> \/ \E e \in Lines : e.ev = "up" /\ RaisesUp(h) = <<e>>
  BY <1>3 DEF RaisesUp
<1> QED BY <1>2, <1>3, <1>4, <1>5, <1>6, <1>7

-----------------------------------------------------------------------------

\* The steps of a hook: those that change the files or the lock, and the others.
FileStep(h) ==
  \/ WriteAttention(h) \/ WriteStored(h) \/ ClearAttention(h) \/ NoteToolCall(h) \/ Unlink(h) \/ CutShort(h)
HookStepOf(h) == Stamp(h) \/ Look(h) \/ GiveUp(h) \/ FileStep(h)

\* What a step of a hook does to that hook.
LEMMA HookGoes ==
  ASSUME TypeOK, NEW h \in Hooks, HookStepOf(h)
  PROVE  /\ hook' \in [Hooks -> HookStates]
         /\ Running(h) /\ UNCHANGED agent /\ clock' = clock /\ overlapped' = overlapped
         /\ \A g \in Hooks : g # h => hook'[g] = hook[g]
         /\ hook'[h] = NotRun \/ (hook'[h] # NotRun /\ hook'[h].kind = hook[h].kind)
<1>1. Running(h)
  BY DEF HookStepOf, FileStep, Running, NotRun, Stamp, WriteAttention, WriteStored, Look, ClearAttention, NoteToolCall,
     Unlink, GiveUp, CutShort
<1>2. UNCHANGED agent /\ clock' = clock /\ overlapped' = overlapped
  BY DEF HookStepOf, FileStep, Stamp, WriteAttention, WriteStored, Look, ClearAttention, NoteToolCall, Unlink, GiveUp,
     CutShort, ghosts
<1>3. Stamp(h) \/ Return(h) \/ Step(h, "lower") \/ Step(h, "put") \/ Step(h, "drop")
  BY DEF HookStepOf, FileStep, WriteAttention, WriteStored, Look, ClearAttention, NoteToolCall, Unlink, GiveUp,
     CutShort, LowerHand, KeepsOthers
<1>4. CASE Stamp(h)
  BY <1>1, <1>2, <1>4, Stamped
<1>5. CASE Return(h)
  BY <1>1, <1>2, <1>5, Over
<1>6. ASSUME NEW step \in {"lower", "put", "drop"}, Step(h, step)
      PROVE  /\ hook' \in [Hooks -> HookStates]
             /\ \A g \in Hooks : g # h => hook'[g] = hook[g]
             /\ hook'[h] = NotRun \/ (hook'[h] # NotRun /\ hook'[h].kind = hook[h].kind)
  BY <1>6, GoesOn
<1> QED BY <1>1, <1>2, <1>3, <1>4, <1>5, <1>6

\* A hook that reports is of the kind it reports; one that lowers is not.
LEMMA ReportsAs ==
  ASSUME HookInv, NEW h \in Hooks
  PROVE  /\ hook[h].step \in {"stamp", "write", "put"} =>
              \/ h[1] = "Ask" /\ hook[h].kind = "permission" /\ h[2] \in Calls
              \/ h[1] = "Stop" /\ hook[h].kind = "idle-done" /\ h = <<"Stop", NoCall>>
              \/ h[1] = "Note" /\ hook[h].kind \in Waits /\ h[2] = NoCall
         /\ hook[h].step \in {"stamp", "write", "put"} => hook[h].kind \in Waits \cup {"idle-done"}
         /\ hook[h].step \in {"look", "lower", "drop"} => h[1] \in Lowers
<1>1. hook[h] = NotRun => hook[h].step = "none"
  BY DEF NotRun
<1> QED BY <1>1, HookFacts DEF HookInv, Waits

\* What the steps on the files do to their types.
LEMMA FileTypes ==
  ASSUME TypeOK, HookInv, NEW h \in Hooks, FileStep(h)
  PROVE  hand' \in Hands /\ ledger' \in Seq(Lines) /\ faults' \in Nat /\ giveUps + faults' <= MaxDrops /\ begun' \in Nat
<1>0. /\ giveUps \in Nat /\ faults \in Nat /\ giveUps + faults <= MaxDrops /\ begun \in Nat /\ ledger \in Seq(Lines)
      /\ hand \in Hands
  BY Types DEF TypeOK
<1>1. CASE WriteAttention(h)
  <2>1. LedgerAppend(RaisesDown(h), RaisesUp(h))
    BY <1>1 DEF WriteAttention, RaisesDown, RaisesUp
  <2> QED BY <1>0, <1>1, <2>1, AppendFacts, LinesOf DEF WriteAttention
<1>2. ASSUME LowerHand(h)
      PROVE  ledger' \in Seq(Lines) /\ faults' \in Nat /\ giveUps + faults' <= MaxDrops
  BY <1>2, AppendFacts, LinesOf DEF LowerHand
<1>3. CASE WriteStored(h)
  <2>1. hook[h].kind \in Waits \cup {"idle-done"} /\ hook[h].ts \in Times /\ Key(h[2]) \in Keys \cup {NoCall}
    BY <1>3, ReportsAs, HookFacts, Types DEF WriteStored, HookStates
  <2>2. hand' \in Hands
    BY <1>3, <2>1, RaisedType DEF WriteStored
  <2> QED BY <1>0, <1>3, <2>2 DEF WriteStored
<1>4. CASE ClearAttention(h)
  BY <1>0, <1>2, <1>4 DEF ClearAttention, LowerHand, files
<1>5. CASE NoteToolCall(h)
  <2>1. hand.kind = "permission" => [hand EXCEPT !.calls = @ \ {Key(h[2])}] \in Hands
    BY Types DEF Hands, NoHand
  <2> QED BY <1>0, <1>2, <1>5, <2>1 DEF NoteToolCall, LowerHand, KeepsOthers, files
<1>6. CASE Unlink(h)
  BY <1>0, <1>6, Types DEF Unlink
<1>7. CASE CutShort(h)
  BY <1>0, <1>7 DEF CutShort
<1> QED BY <1>1, <1>3, <1>4, <1>5, <1>6, <1>7 DEF FileStep

\* Every step keeps every variable in its type.
LEMMA TypeStep == TypeOK /\ HookInv /\ [Next]_vars => TypeOK'
<1> SUFFICES ASSUME TypeOK, HookInv, [Next]_vars PROVE TypeOK'
  OBVIOUS
<1> USE DEF files, agent, ghosts
<1>1. CASE Tick
  BY <1>1 DEF Tick, TypeOK, Times
<1>2. CASE Stops
  BY <1>2, BeginType, HookFacts DEF Stops, TypeOK, HookStates
<1>3. CASE NewPrompt
  BY <1>3, BeginType, HookFacts DEF NewPrompt, TypeOK, HookStates
<1>4. CASE Notifies
  <2>1. notes' \in 0 .. MaxNotes
    BY <1>4 DEF Notifies, TypeOK
  <2>2. hook' \in [Hooks -> HookStates]
    BY <1>4, BeginType, HookFacts DEF Notifies
  <2> QED BY <1>4, <2>1, <2>2 DEF Notifies, TypeOK, HookStates
<1>5. ASSUME NEW c \in Calls, Starts(c) PROVE TypeOK'
  BY <1>5, BeginType, HookFacts DEF Starts, TypeOK, HookStates
<1>6. ASSUME NEW c \in Calls, Prompts(c) PROVE TypeOK'
  <2>1. hook' \in [Hooks -> HookStates]
    BY <1>6, BeginType, HookFacts DEF Prompts, Waits
  <2>2. overlapped' \subseteq Calls
    BY <1>6 DEF Prompts, TypeOK
  <2> QED BY <1>6, <2>1, <2>2 DEF Prompts, TypeOK, HookStates
<1>7. ASSUME NEW c \in Calls, Runs(c) \/ Denied(c) PROVE TypeOK'
  BY <1>7 DEF Runs, Denied, Settled, TypeOK
<1>8. ASSUME NEW c \in Calls, Results(c) PROVE TypeOK'
  BY <1>8, BeginType, HookFacts DEF Results, TypeOK, HookStates
<1>9. ASSUME NEW h \in Hooks, Stamp(h) PROVE TypeOK'
  <2>1. newer' \subseteq Calls
    <3>1. h[1] = "Ask" => h[2] \in Calls
      BY HookFacts
    <3> QED BY <1>9, <3>1 DEF Stamp, TypeOK
  <2> QED BY <1>9, <2>1, Stamped DEF Stamp, TypeOK, HookStates
<1>10. ASSUME NEW h \in Hooks, FileStep(h) PROVE TypeOK'
  <2>1. UNCHANGED <<clock, agent, giveUps, ghosts>>
    BY <1>10 DEF FileStep, WriteAttention, WriteStored, ClearAttention, NoteToolCall, Unlink, CutShort
  <2>2. hook' \in [Hooks -> HookStates]
    BY <1>10, HookGoes DEF HookStepOf
  <2> QED BY <1>10, <2>1, <2>2, FileTypes DEF TypeOK, HookStates, Lines
<1>11. ASSUME NEW h \in Hooks, Look(h) PROVE TypeOK'
  BY <1>11, HookGoes DEF HookStepOf, Look, TypeOK, HookStates
<1>12. ASSUME NEW h \in Hooks, GiveUp(h) PROVE TypeOK'
  <2>1. hook' \in [Hooks -> HookStates]
    BY <1>12, HookGoes DEF HookStepOf
  <2>2. giveUps' \in Nat /\ giveUps' + faults <= MaxDrops
    BY <1>12, Types DEF GiveUp
  <2> QED BY <1>12, <2>1, <2>2 DEF GiveUp, TypeOK, HookStates
<1>13. CASE UNCHANGED vars
  BY <1>13 DEF vars, TypeOK
<1> QED BY <1>1, <1>2, <1>3, <1>4, <1>5, <1>6, <1>7, <1>8, <1>9, <1>10, <1>11, <1>12, <1>13 DEF Next, FileStep

-----------------------------------------------------------------------------

\* What a step may do to the hooks: one begins as its kind does, goes on, or is over.
LEMMA HookStep == TypeOK /\ HookInv /\ [Next]_vars => HookInv'
<1> SUFFICES ASSUME TypeOK, HookInv, [Next]_vars PROVE HookInv'
  OBVIOUS
<1>a. hook \in [Hooks -> HookStates]
  BY Types
<1>0. ASSUME NEW h \in Hooks, NEW step, NEW kind, Begin(h, step, kind),
             \/ h[1] \in Lowers /\ step = "look" /\ kind = "none"
             \/ h[1] = "Ask" /\ step = "stamp" /\ kind = "permission"
             \/ h[1] = "Stop" /\ step = "stamp" /\ kind = "idle-done"
             \/ h[1] = "Note" /\ step = "stamp" /\ kind \in Waits
      PROVE  HookInv'
  <2>1. /\ \A g \in Hooks : g # h => hook'[g] = hook[g]
        /\ hook'[h].step = step /\ hook'[h].kind = kind
    BY <1>0, <1>a DEF Begin
  <2> QED BY <1>0, <2>1 DEF HookInv
<1>1. CASE Tick
  BY <1>1 DEF Tick, HookInv
<1>2. CASE Stops
  BY <1>2, <1>0, HookFacts DEF Stops
<1>3. CASE NewPrompt
  BY <1>3, <1>0, HookFacts DEF NewPrompt, Lowers
<1>4. CASE Notifies
  BY <1>4, <1>0, HookFacts DEF Notifies
<1>5. ASSUME NEW c \in Calls, Starts(c) PROVE HookInv'
  BY <1>5, <1>0, HookFacts DEF Starts, Lowers
<1>6. ASSUME NEW c \in Calls, Prompts(c) PROVE HookInv'
  BY <1>6, <1>0, HookFacts DEF Prompts
<1>7. ASSUME NEW c \in Calls, Runs(c) \/ Denied(c) PROVE HookInv'
  BY <1>7 DEF Runs, Denied, HookInv
<1>8. ASSUME NEW c \in Calls, Results(c) PROVE HookInv'
  BY <1>8, <1>0, HookFacts DEF Results, Lowers
<1>9. ASSUME NEW h \in Hooks, HookStepOf(h) PROVE HookInv'
  <2>1. \A g \in Hooks : g # h => hook'[g] = hook[g]
    BY <1>9, HookGoes
  <2>2. CASE Return(h)
    BY <2>1, <2>2, Over DEF HookInv
  <2>3. ASSUME NEW step \in {"write", "lower", "put", "drop"},
               hook'[h].step = step, hook'[h].kind = hook[h].kind, hook[h] # NotRun,
               step \in {"lower", "drop"} => hook[h].step \in {"look", "lower"},
               step \in {"write", "put"} => hook[h].step \in {"stamp", "write"}
        PROVE  HookInv'
    BY <2>1, <2>3 DEF HookInv
  <2>4. CASE Stamp(h)
    <3>1. hook[h].step = "stamp" /\ hook[h] # NotRun
      BY <2>4 DEF Stamp, NotRun
    <3> QED BY <2>3, <2>4, <3>1, Stamped
  <2>5. CASE WriteAttention(h)
    <3>1. hook[h].step = "write" /\ hook[h] # NotRun /\ Step(h, "put")
      BY <2>5 DEF WriteAttention, NotRun
    <3> QED BY <2>3, <3>1, GoesOn
  <2>6. CASE (ClearAttention(h) \/ NoteToolCall(h)) /\ ~Return(h)
    <3>1. hook[h].step = "lower" /\ hook[h] # NotRun /\ Step(h, "drop")
      BY <2>6 DEF ClearAttention, NoteToolCall, NotRun, LowerHand, KeepsOthers
    <3> QED BY <2>3, <3>1, GoesOn
  <2>7. CASE Look(h) /\ ~Return(h)
    <3>1. hook[h].step = "look" /\ hook[h] # NotRun /\ Step(h, "lower")
      BY <2>7 DEF Look, NotRun
    <3> QED BY <2>3, <3>1, GoesOn
  <2>8. CASE WriteStored(h) \/ Unlink(h) \/ GiveUp(h) \/ CutShort(h)
    BY <2>2, <2>8 DEF WriteStored, Unlink, GiveUp, CutShort
  <2> QED BY <1>9, <2>2, <2>4, <2>5, <2>6, <2>7, <2>8 DEF HookStepOf, FileStep
<1>10. CASE UNCHANGED vars
  BY <1>10 DEF vars, HookInv
<1> QED BY <1>1, <1>2, <1>3, <1>4, <1>5, <1>6, <1>7, <1>8, <1>9, <1>10 DEF Next, HookStepOf, FileStep

\* The agent waits for the hooks of a call, and of the turn.
LEMMA AgentStep == TypeOK /\ AgentInv /\ [Next]_vars => AgentInv'
<1> SUFFICES ASSUME TypeOK, AgentInv, [Next]_vars PROVE AgentInv'
  OBVIOUS
<1> USE HookFacts DEF AgentInv, Running
<1>a. hook \in [Hooks -> HookStates] /\ call \in [Calls -> CallStates]
  BY Types
<1>1. CASE Tick
  BY <1>1 DEF Tick, agent
<1>2. CASE Stops
  BY <1>2, <1>a DEF Stops, Begin
<1>3. CASE NewPrompt
  BY <1>3, <1>a DEF NewPrompt, Begin
<1>4. CASE Notifies
  BY <1>4, <1>a DEF Notifies, Begin
<1>5. ASSUME NEW c \in Calls, Starts(c) PROVE AgentInv'
  BY <1>5, <1>a DEF Starts, Begin
<1>6. ASSUME NEW c \in Calls, Prompts(c) PROVE AgentInv'
  BY <1>6, <1>a DEF Prompts, Begin
<1>7. ASSUME NEW c \in Calls, Runs(c) \/ Denied(c) PROVE AgentInv'
  BY <1>7, <1>a DEF Runs, Denied, Waiting, Open
<1>8. ASSUME NEW c \in Calls, Results(c) PROVE AgentInv'
  BY <1>8, <1>a DEF Results, Begin
<1>9. ASSUME NEW h \in Hooks, HookStepOf(h) PROVE AgentInv'
  <2>1. \A g \in Hooks : Running(g)' => Running(g)
    BY <1>9, HookGoes
  <2>2. call' = call /\ turn' = turn
    BY <1>9, HookGoes DEF agent
  <2> QED BY <2>1, <2>2
<1>10. CASE UNCHANGED vars
  BY <1>10 DEF vars, agent
<1> QED BY <1>1, <1>2, <1>3, <1>4, <1>5, <1>6, <1>7, <1>8, <1>9, <1>10 DEF Next, HookStepOf, FileStep

-----------------------------------------------------------------------------

\* A step that changes neither the files nor the lock.
Quiet ==
  /\ UNCHANGED files /\ UNCHANGED keyOf
  /\ \A g \in Hooks : (At(g, "put")' <=> At(g, "put")) /\ (At(g, "drop")' <=> At(g, "drop"))
  /\ \A g \in Hooks : Held(g) => hook'[g] = hook[g]

\* The agent, the clock and the hooks that do not have the lock take such steps.
LEMMA QuietStep ==
  ASSUME TypeOK, AgentInv, [Next]_vars
  PROVE  Quiet \/ \E h \in Hooks : FileStep(h)
<1> SUFFICES ASSUME ~ \E h \in Hooks : FileStep(h) PROVE Quiet
  OBVIOUS
<1> USE DEF files, agent
<1>a. hook \in [Hooks -> HookStates]
  BY Types
<1>0. ASSUME NEW h \in Hooks, NEW step, step \notin {"put", "drop"}, hook[h].step \notin {"put", "drop"},
             hook'[h].step = step, \A g \in Hooks : g # h => hook'[g] = hook[g], UNCHANGED files, UNCHANGED keyOf
      PROVE  Quiet
  BY <1>0 DEF Quiet, Held
<1>1. ASSUME NEW h \in Hooks, NEW step \in {"look", "stamp"}, NEW kind, Begin(h, step, kind), ~Running(h),
             UNCHANGED files, UNCHANGED keyOf
      PROVE  Quiet
  <2>1. hook[h].step = "none"
    BY <1>1 DEF Running, NotRun
  <2>2. hook'[h].step = step /\ \A g \in Hooks : g # h => hook'[g] = hook[g]
    BY <1>1, <1>a DEF Begin
  <2> QED BY <1>0, <1>1, <2>1, <2>2
<1>2. CASE Tick
  BY <1>2 DEF Tick, Quiet
<1>3. CASE Stops
  BY <1>1, <1>3, HookFacts DEF Stops, AgentInv
<1>4. CASE NewPrompt
  BY <1>1, <1>4, HookFacts DEF NewPrompt, AgentInv
<1>5. CASE Notifies
  BY <1>1, <1>5, HookFacts DEF Notifies
<1>6. ASSUME NEW c \in Calls, Starts(c) PROVE Quiet
  BY <1>1, <1>6, HookFacts DEF Starts, AgentInv
<1>7. ASSUME NEW c \in Calls, Prompts(c) PROVE Quiet
  BY <1>1, <1>7, HookFacts DEF Prompts, AgentInv
<1>8. ASSUME NEW c \in Calls, Runs(c) \/ Denied(c) PROVE Quiet
  BY <1>8 DEF Runs, Denied, Quiet
<1>9. ASSUME NEW c \in Calls, Results(c) PROVE Quiet
  BY <1>1, <1>9, HookFacts DEF Results, AgentInv
<1>10. ASSUME NEW h \in Hooks, Stamp(h) PROVE Quiet
  BY <1>0, <1>10, Stamped DEF Stamp
<1>11. ASSUME NEW h \in Hooks, Look(h) PROVE Quiet
  <2>1. hook'[h].step \in {"none", "lower"}
    BY <1>11, Over, GoesOn DEF Look, NotRun
  <2>2. hook[h].step = "look" /\ UNCHANGED files /\ UNCHANGED keyOf
    BY <1>11 DEF Look
  <2>3. \A g \in Hooks : g # h => hook'[g] = hook[g]
    BY <1>11, HookGoes DEF HookStepOf
  <2> QED BY <1>0, <2>1, <2>2, <2>3
<1>12. ASSUME NEW h \in Hooks, GiveUp(h) PROVE Quiet
  <2>1. hook'[h].step = "none" /\ hook[h].step \in {"write", "lower"} /\ UNCHANGED files /\ UNCHANGED keyOf
    BY <1>12, Over DEF GiveUp, NotRun
  <2>2. \A g \in Hooks : g # h => hook'[g] = hook[g]
    BY <1>12, HookGoes DEF HookStepOf
  <2> QED BY <1>0, <2>1, <2>2
<1>13. CASE UNCHANGED vars
  BY <1>13 DEF vars, Quiet
<1> QED
  BY <1>2, <1>3, <1>4, <1>5, <1>6, <1>7, <1>8, <1>9, <1>10, <1>11, <1>12, <1>13 DEF Next, FileStep

\* What the steps on the files do to the lock: it is taken when nobody has it, and given back by who has it.
LEMMA LockKinds ==
  ASSUME TypeOK, HookInv, LockInv, NEW h \in Hooks, FileStep(h)
  PROVE  /\ UNCHANGED keyOf
         /\ \A g \in Hooks : g # h => ~Held(g) /\ ~Held(g)'
         /\ WriteAttention(h) => Unlocked /\ At(h, "put")' /\ Held(h)' /\ hand' = hand
         /\ LowerHand(h) => At(h, "drop")' /\ Held(h)' /\ hand' = hand
         /\ ClearAttention(h) \/ NoteToolCall(h) => Unlocked /\ (LowerHand(h) \/ Unlocked')
         /\ WriteStored(h) \/ Unlink(h) \/ CutShort(h) => Held(h) /\ Unlocked'
         /\ Held(h) => ~Unlocked
         /\ Held(h)' => ~Unlocked'
<1>1. /\ hook' \in [Hooks -> HookStates] /\ UNCHANGED keyOf
      /\ \A g \in Hooks : g # h => hook'[g] = hook[g]
  BY HookGoes DEF HookStepOf, agent
<1>2. WriteAttention(h) => Unlocked /\ hook'[h].step = "put" /\ hand' = hand
  BY GoesOn DEF WriteAttention
<1>3. LowerHand(h) => hook'[h].step = "drop" /\ hand' = hand
  BY GoesOn DEF LowerHand
<1>4. Return(h) => hook'[h].step = "none"
  BY Types DEF NotRun
<1>5. ClearAttention(h) \/ NoteToolCall(h) => Unlocked /\ (LowerHand(h) \/ Return(h))
  BY DEF ClearAttention, NoteToolCall, KeepsOthers
<1>6. WriteStored(h) \/ Unlink(h) \/ CutShort(h) => Held(h) /\ Return(h)
  BY DEF WriteStored, Unlink, CutShort, Held
<1>7. Unlocked \/ Held(h)
  BY <1>2, <1>5, <1>6 DEF FileStep
<1>8. \A g \in Hooks : g # h => ~Held(g)
  BY <1>7 DEF LockInv, Unlocked, Held
<1>9. \A g \in Hooks : g # h => ~Held(g)'
  BY <1>1, <1>8 DEF Held
<1>10. hook'[h].step = "none" => Unlocked'
  BY <1>9 DEF Unlocked, Held
<1>11. (Held(h) => ~Unlocked) /\ (Held(h)' => ~Unlocked')
  BY DEF Held, Unlocked
<1> QED BY <1>1, <1>2, <1>3, <1>4, <1>5, <1>6, <1>8, <1>9, <1>10, <1>11 DEF Held

\* One hook at a time has the lock, and a result that lowers the hand lowers that of its own name.
LEMMA LockStep == TypeOK /\ HookInv /\ AgentInv /\ HandInv /\ LockInv /\ [Next]_vars => LockInv'
<1> SUFFICES ASSUME TypeOK, HookInv, AgentInv, HandInv, LockInv, [Next]_vars PROVE LockInv'
  OBVIOUS
<1>1. CASE Quiet
  <2>1. \A h \in Hooks : Key(h[2])' = Key(h[2])
    BY <1>1 DEF Quiet, Key
  <2> QED BY <1>1, <2>1 DEF Quiet, LockInv, Held, files
<1>2. ASSUME NEW h \in Hooks, FileStep(h) PROVE LockInv'
  <2>1. \A g \in Hooks : g # h => ~Held(g)'
    BY <1>2, LockKinds
  <2>2. ASSUME At(h, "drop")', h[1] = "Post" PROVE hand'.calls \subseteq {Key(h[2])'}
    <3>1. ~WriteAttention(h)
      BY <2>2, ReportsAs DEF WriteAttention
    <3>2. LowerHand(h) /\ NoteToolCall(h)
      BY <1>2, <2>2, <3>1, LockKinds DEF FileStep, Unlocked, ClearAttention
    <3>3. hand' = hand /\ Key(h[2])' = Key(h[2])
      BY <1>2, <3>2, LockKinds DEF Key
    <3>4. ~Return(h)
      BY <2>2, Over DEF NotRun
    <3>5. hand.kind # "permission" \/ hand.calls = {Key(h[2])}
      BY <3>2, <3>4 DEF NoteToolCall, KeepsOthers
    <3> QED BY <3>3, <3>5 DEF HandInv
  <2>3. At(h, "drop")' => Held(h)'
    BY DEF Held
  <2> QED BY <2>1, <2>2 DEF LockInv, Held
<1> QED BY <1>1, <1>2, QuietStep

\* Only a permission names calls.
LEMMA HandStep == TypeOK /\ HandInv /\ AgentInv /\ [Next]_vars => HandInv'
<1> SUFFICES ASSUME TypeOK, HandInv, AgentInv, [Next]_vars PROVE HandInv'
  OBVIOUS
<1>1. CASE Quiet
  BY <1>1 DEF HandInv, Quiet, files
<1>2. ASSUME NEW h \in Hooks, WriteStored(h) PROVE HandInv'
  BY <1>2 DEF HandInv, WriteStored, Raised
<1>3. ASSUME NEW h \in Hooks, Unlink(h) PROVE HandInv'
  BY <1>3 DEF HandInv, Unlink, NoHand
<1>4. ASSUME NEW h \in Hooks, KeepsOthers(h) PROVE HandInv'
  BY <1>4, Types DEF HandInv, KeepsOthers, Hands, NoHand
<1>5. ASSUME NEW h \in Hooks, FileStep(h), ~WriteStored(h), ~Unlink(h), ~KeepsOthers(h) PROVE hand' = hand
  BY <1>5 DEF FileStep, WriteAttention, ClearAttention, NoteToolCall, CutShort, LowerHand, files
<1> QED BY <1>1, <1>2, <1>3, <1>4, <1>5, QuietStep DEF HandInv

-----------------------------------------------------------------------------

\* A wait that ends is closed by its own line.
LEMMA Closes ==
  ASSUME NEW l \in Seq(Lines), NEW h, NEW g, Balanced(l, h), Standing(h), ~Standing(g)
  PROVE  Balanced(Append(l, Lowered(h)), g)
<1> DEFINE n == Len(l)
           m == Append(l, Lowered(h))
<1>1. /\ n \in Nat /\ DOMAIN l = 1 .. n /\ DOMAIN m = 1 .. n + 1 /\ Len(m) = n + 1
      /\ m[n + 1] = Lowered(h) /\ \A i \in 1 .. n : m[i] = l[i]
  OBVIOUS
<1>2. n % 2 = 1 /\ (n + 1) % 2 = 0 /\ n \in 1 .. n
  <2>1. n % 2 = 1
    BY DEF Balanced
  <2> QED BY <1>1, <2>1
<1>3. m[n + 1] = [m[n] EXCEPT !.ev = "down"] /\ m[n + 1].ev = "down"
  BY <1>1, <1>2 DEF Balanced, Up, Lowered
<1>4. \A i \in 1 .. n + 1 : m[i].ev = IF i % 2 = 1 THEN "up" ELSE "down"
  BY <1>1, <1>2, <1>3 DEF Balanced
<1>5. ASSUME NEW i \in 1 .. n + 1, i % 2 = 0 PROVE m[i] = [m[i - 1] EXCEPT !.ev = "down"]
  <2>1. CASE i = n + 1
    <3>1. i - 1 = n
      BY <1>1, <2>1
    <3> QED BY <1>3, <2>1, <3>1
  <2>2. CASE i # n + 1
    <3>1. i \in 1 .. n /\ i - 1 \in 1 .. n
      BY <1>1, <1>5, <2>2
    <3>2. l[i] = [l[i - 1] EXCEPT !.ev = "down"]
      BY <1>1, <1>5, <3>1 DEF Balanced
    <3> QED BY <1>1, <3>1, <3>2
  <2> QED BY <2>1, <2>2
<1>6. ~(Len(m) % 2 = 1)
  BY <1>1, <1>2
<1> QED BY <1>1, <1>4, <1>5, <1>6 DEF Balanced

\* A wait that begins is opened by its own line, after the last one was closed.
LEMMA Opens ==
  ASSUME NEW l \in Seq(Lines), NEW h, NEW g, Balanced(l, h), ~Standing(h), Standing(g)
  PROVE  Balanced(Append(l, Up(g.kind, g.ts)), g)
<1> DEFINE n == Len(l)
           m == Append(l, Up(g.kind, g.ts))
<1>1. /\ n \in Nat /\ DOMAIN l = 1 .. n /\ DOMAIN m = 1 .. n + 1 /\ Len(m) = n + 1
      /\ m[n + 1] = Up(g.kind, g.ts) /\ \A i \in 1 .. n : m[i] = l[i]
  OBVIOUS
<1>2. n % 2 = 0 /\ (n + 1) % 2 = 1
  <2>1. n % 2 # 1
    BY DEF Balanced
  <2> QED BY <1>1, <2>1
<1>3. ASSUME NEW i \in 1 .. n + 1 PROVE m[i].ev = IF i % 2 = 1 THEN "up" ELSE "down"
  <2>1. CASE i = n + 1
    <3>1. m[i].ev = "up"
      BY <1>1, <2>1 DEF Up
    <3> QED BY <1>2, <2>1, <3>1
  <2>2. CASE i # n + 1
    <3>1. i \in 1 .. n
      BY <1>1, <2>2
    <3> QED BY <1>1, <3>1 DEF Balanced
  <2> QED BY <2>1, <2>2
<1>4. ASSUME NEW i \in 1 .. n + 1, i % 2 = 0 PROVE m[i] = [m[i - 1] EXCEPT !.ev = "down"]
  <2>1. i \in 1 .. n /\ i - 1 \in 1 .. n
    BY <1>1, <1>2, <1>4
  <2>2. l[i] = [l[i - 1] EXCEPT !.ev = "down"]
    BY <1>1, <1>4, <2>1 DEF Balanced
  <2> QED BY <1>1, <2>1, <2>2
<1> QED BY <1>1, <1>2, <1>3, <1>4 DEF Balanced

\* The ledger depends on a hand's kind and time only.
LEMMA SameBalance ==
  ASSUME NEW l, NEW h, NEW g, Balanced(l, h), Standing(h) <=> Standing(g), Standing(h) => g.kind = h.kind /\ g.ts = h.ts
  PROVE  Balanced(l, g)
  BY DEF Balanced

\* The hand a report leaves: of the wait that stands, or of a new one.
LEMMA RaisedHand ==
  ASSUME TypeOK, NEW h \in Hooks
  PROVE  LET r == Raised(hand, hook[h].kind, hook[h].ts, Key(h[2]))
         IN  /\ r.kind = hook[h].kind /\ (Standing(r) <=> hook[h].kind \in Waits)
             /\ r.ts = IF Restates(h) THEN hand.ts ELSE hook[h].ts
             /\ Restates(h) => Standing(hand) /\ hand.kind = hook[h].kind
  BY DEF Raised, Standing, Restates, SamePrompt

\* What a report appends turns the ledger of the hand before it into that of the hand it leaves.
LEMMA RaisesBalanced ==
  ASSUME TypeOK, NEW h \in Hooks, Balanced(ledger, hand)
  PROVE  Balanced(ledger \o RaisesDown(h) \o RaisesUp(h), Raised(hand, hook[h].kind, hook[h].ts, Key(h[2])))
<1> DEFINE r    == Raised(hand, hook[h].kind, hook[h].ts, Key(h[2]))
           down == Append(ledger, Lowered(hand))
           up   == Up(hook[h].kind, hook[h].ts)
<1>1. /\ r.kind = hook[h].kind /\ (Standing(r) <=> hook[h].kind \in Waits)
      /\ r.ts = IF Restates(h) THEN hand.ts ELSE hook[h].ts
      /\ Restates(h) => Standing(hand) /\ hand.kind = hook[h].kind
  BY RaisedHand
<1> HIDE DEF r
<1>2. ledger \in Seq(Lines) /\ (Standing(hand) => Lowered(hand) \in Lines) /\ (hook[h].kind \in Waits => up \in Lines)
  BY Types, LinesOf
<1>3. CASE Restates(h)
  <2>1. ledger \o RaisesDown(h) \o RaisesUp(h) = ledger
    BY <1>2, <1>3 DEF RaisesDown, RaisesUp
  <2>2. Standing(hand) <=> Standing(r)
    BY <1>1, <1>3 DEF Standing
  <2> QED BY <1>1, <1>3, <2>1, <2>2, SameBalance DEF r
<1>4. CASE ~Restates(h) /\ Standing(hand) /\ hook[h].kind \in Waits
  <2>1. down \in Seq(Lines) /\ ~Standing(NoHand)
    BY <1>2, <1>4 DEF Standing, NoHand, Waits
  <2>2. Balanced(down, NoHand)
    BY <1>2, <1>4, <2>1, Closes
  <2> HIDE DEF down
  <2>3. Balanced(Append(down, Up(r.kind, r.ts)), r)
    BY <1>1, <1>4, <2>1, <2>2, Opens
  <2>4. RaisesDown(h) = <<Lowered(hand)>> /\ RaisesUp(h) = <<up>> /\ up = Up(r.kind, r.ts)
    BY <1>1, <1>4 DEF RaisesDown, RaisesUp, Closing
  <2>5. ledger \o RaisesDown(h) = down
    BY <1>2, <1>4, <2>4 DEF down
  <2>6. ledger \o RaisesDown(h) \o RaisesUp(h) = Append(down, up)
    <3> HIDE DEF up
    <3> QED BY <1>2, <1>4, <2>1, <2>4, <2>5
  <2> QED BY <2>3, <2>4, <2>6 DEF r
<1>5. CASE ~Restates(h) /\ Standing(hand) /\ hook[h].kind \notin Waits
  <2>1. Balanced(down, r)
    BY <1>1, <1>2, <1>5, Closes
  <2>2. ledger \o RaisesDown(h) \o RaisesUp(h) = down
    BY <1>2, <1>5 DEF RaisesDown, RaisesUp, Closing
  <2> QED BY <2>1, <2>2 DEF r
<1>6. CASE ~Restates(h) /\ ~Standing(hand) /\ hook[h].kind \in Waits
  <2>1. Balanced(Append(ledger, Up(r.kind, r.ts)), r)
    BY <1>1, <1>2, <1>6, Opens
  <2>2. ledger \o RaisesDown(h) \o RaisesUp(h) = Append(ledger, up)
    BY <1>2, <1>6 DEF RaisesDown, RaisesUp, Closing
  <2> QED BY <1>1, <1>6, <2>1, <2>2 DEF r
<1>7. CASE ~Restates(h) /\ ~Standing(hand) /\ hook[h].kind \notin Waits
  <2>1. ledger \o RaisesDown(h) \o RaisesUp(h) = ledger
    BY <1>2, <1>7 DEF RaisesDown, RaisesUp, Closing
  <2>2. Balanced(ledger, r)
    BY <1>1, <1>7, SameBalance
  <2> QED BY <2>1, <2>2 DEF r
<1> QED BY <1>3, <1>4, <1>5, <1>6, <1>7

\* What a hook that lowers the hand appends closes its wait.
LEMMA LowersBalanced ==
  ASSUME TypeOK, Balanced(ledger, hand)
  PROVE  Balanced(ledger \o Closing(hand) \o <<>>, NoHand)
<1>1. ledger \in Seq(Lines) /\ (Standing(hand) => Lowered(hand) \in Lines) /\ ~Standing(NoHand)
  BY Types DEF Standing, NoHand, Waits, Lowered, Lines
<1>2. CASE Standing(hand)
  <2>1. ledger \o Closing(hand) \o <<>> = Append(ledger, Lowered(hand))
    BY <1>1, <1>2 DEF Closing
  <2> QED BY <1>1, <1>2, <2>1, Closes
<1>3. CASE ~Standing(hand)
  <2>1. ledger \o Closing(hand) \o <<>> = ledger
    BY <1>1, <1>3 DEF Closing
  <2> QED BY <1>1, <1>3, <2>1, SameBalance
<1> QED BY <1>2, <1>3

\* What Due and Begins say of a hook depends on the hand and the hook.
LEMMA DueSame ==
  ASSUME Quiet, NEW h \in Hooks, Held(h)
  PROVE  Due(h)' = Due(h) /\ Begins(h)' = Begins(h)
<1>1. hand' = hand /\ hook'[h] = hook[h] /\ Key(h[2])' = Key(h[2])
  BY DEF Quiet, files, Key
<1> QED BY <1>1 DEF Due, Begins, Restates

\* Without a fault the ledger fits the hand.
LEMMA LedgerStep == TypeOK /\ HookInv /\ AgentInv /\ LockInv /\ LedgerInv /\ [Next]_vars => LedgerInv'
<1> SUFFICES ASSUME TypeOK, HookInv, AgentInv, LockInv, LedgerInv, [Next]_vars, faults' = 0
             PROVE  /\ Unlocked' => Balanced(ledger, hand)'
                    /\ \A h \in Hooks : Held(h)' => Balanced(ledger', Due(h)')
  BY DEF LedgerInv
<1> DEFINE Goal == /\ Unlocked' => Balanced(ledger', hand')
                   /\ \A h \in Hooks : Held(h)' => Balanced(ledger', Due(h)')
<1>s. Goal => /\ Unlocked' => Balanced(ledger, hand)'
              /\ \A h \in Hooks : Held(h)' => Balanced(ledger', Due(h)')
  BY DEF Balanced, Standing, Up
<1>1. CASE Quiet
  <2>1. faults = 0 /\ ledger' = ledger /\ hand' = hand
    BY <1>1 DEF Quiet, files
  <2>2. (Unlocked' => Unlocked) /\ \A h \in Hooks : Held(h)' => Held(h)
    BY <1>1 DEF Quiet, Unlocked, Held
  <2>3. Goal
    BY <1>1, <2>1, <2>2, DueSame DEF LedgerInv
  <2> QED BY <1>s, <2>3
<1>2. ASSUME NEW h \in Hooks, FileStep(h) PROVE Goal
  <2>1. faults = 0 /\ faults' = faults
    <3>1. faults \in Nat
      BY Types
    <3>2. WriteAttention(h) \/ LowerHand(h) => faults' \in Nat /\ faults <= faults'
      BY AppendFacts, LinesOf DEF WriteAttention, LowerHand, RaisesDown, RaisesUp
    <3>3. WriteStored(h) \/ Unlink(h) \/ (~LowerHand(h) /\ (ClearAttention(h) \/ NoteToolCall(h))) => faults' = faults
      BY DEF WriteStored, Unlink, ClearAttention, NoteToolCall, KeepsOthers, files
    <3>4. CutShort(h) => faults' = faults + 1
      BY DEF CutShort
    <3> QED BY <1>2, <3>1, <3>2, <3>3, <3>4 DEF FileStep
  <2>2. \A g \in Hooks : Held(g)' => g = h
    BY <1>2, LockKinds
  <2>3. CASE WriteAttention(h)
    <3>1. ledger' = ledger \o RaisesDown(h) \o RaisesUp(h)
      BY <2>1, <2>3, AppendFacts, LinesOf DEF WriteAttention, RaisesDown, RaisesUp
    <3>2. Unlocked /\ At(h, "put")' /\ Held(h)' /\ hand' = hand /\ UNCHANGED keyOf
      BY <1>2, <2>3, LockKinds
    <3>3. Due(h)' = Raised(hand, hook[h].kind, hook[h].ts, Key(h[2]))
      <4>1. hook'[h].kind = hook[h].kind /\ hook'[h].ts = hook[h].ts
        BY <2>3, GoesOn DEF WriteAttention
      <4>2. Key(h[2])' = Key(h[2])
        BY <3>2 DEF Key
      <4> QED BY <3>2, <4>1, <4>2 DEF Due
    <3>4. Balanced(ledger', Due(h)')
      BY <2>1, <3>1, <3>2, <3>3, RaisesBalanced DEF LedgerInv
    <3>5. ~Unlocked'
      BY <1>2, <3>2, LockKinds
    <3> QED BY <2>2, <3>4, <3>5
  <2>4. CASE LowerHand(h) /\ (ClearAttention(h) \/ NoteToolCall(h))
    <3>1. ledger' = ledger \o Closing(hand) \o <<>>
      BY <2>1, <2>4, AppendFacts, LinesOf DEF LowerHand
    <3>2. Unlocked /\ At(h, "drop")' /\ Held(h)'
      BY <1>2, <2>4, LockKinds
    <3>3. Due(h)' = NoHand
      BY <3>2 DEF Due
    <3>4. Balanced(ledger', Due(h)')
      BY <2>1, <3>1, <3>2, <3>3, LowersBalanced DEF LedgerInv
    <3>5. ~Unlocked'
      BY <1>2, <3>2, LockKinds
    <3> QED BY <2>2, <3>4, <3>5
  <2>5. CASE ~LowerHand(h) /\ (ClearAttention(h) \/ NoteToolCall(h))
    <3>1. Unlocked /\ Unlocked'
      BY <1>2, <2>5, LockKinds
    <3>2. ledger' = ledger /\ hand'.kind = hand.kind /\ hand'.ts = hand.ts
      BY <2>5, Types DEF ClearAttention, NoteToolCall, KeepsOthers, files, Hands, NoHand
    <3>3. Balanced(ledger', hand')
      BY <2>1, <3>1, <3>2, SameBalance DEF LedgerInv, Standing
    <3>4. \A g \in Hooks : ~Held(g)'
      BY <3>1 DEF Unlocked, Held
    <3> QED BY <3>3, <3>4
  <2>6. CASE WriteStored(h) \/ Unlink(h)
    <3>1. Held(h) /\ Unlocked' /\ ledger' = ledger
      BY <1>2, <2>6, LockKinds DEF WriteStored, Unlink
    <3>2. hand' = Due(h)
      BY <2>6 DEF WriteStored, Unlink, Due
    <3>3. \A g \in Hooks : ~Held(g)'
      BY <3>1 DEF Unlocked, Held
    <3> QED BY <2>1, <3>1, <3>2, <3>3 DEF LedgerInv
  <2>7. CASE CutShort(h)
    BY <2>1, <2>7 DEF CutShort
  <2> QED BY <1>2, <2>3, <2>4, <2>5, <2>6, <2>7 DEF FileStep
<1> QED BY <1>1, <1>2, <1>s, QuietStep

-----------------------------------------------------------------------------

\* Numbers that are at most k apart.
LEMMA WithinFacts ==
  ASSUME NEW k \in Nat, NEW n \in Int
  PROVE  /\ Within(n, k) <=> -k <= n /\ n <= k
         /\ \A m \in Int, j \in Nat : k <= j /\ m - n \in (k - j) .. (j - k) /\ Within(n, k) => Within(m, j)
<1>1. Within(n, k) <=> -k <= n /\ n <= k
  BY DEF Within
<1>2. ASSUME NEW m \in Int, NEW j \in Nat, k <= j, m - n \in (k - j) .. (j - k), Within(n, k) PROVE Within(m, j)
  <2>1. k - j <= m - n /\ m - n <= j - k /\ -k <= n /\ n <= k
    BY <1>1, <1>2
  <2>2. -j <= m /\ m <= j
    BY <2>1
  <2> QED BY <2>2 DEF Within
<1> QED BY <1>1, <1>2

\* What the waits counted differ by, as a hook takes the lock or gives it back.
CountOf(h) == Downs(ledger) + Stands(Due(h)) - begun - Begins(h)

\* Each fault miscounts one wait at most.
LEMMA CountStep == TypeOK /\ HookInv /\ AgentInv /\ LockInv /\ CountInv /\ [Next]_vars => CountInv'
<1> SUFFICES ASSUME TypeOK, HookInv, AgentInv, LockInv, CountInv, [Next]_vars PROVE CountInv'
  OBVIOUS
<1> DEFINE Free  == Unlocked' => Within(Downs(ledger') + Stands(hand') - begun', faults')
           Taken == \A h \in Hooks :
                      Held(h)' => Within(Downs(ledger') + Stands(Due(h)') - begun' - Begins(h)', faults')
<1>s. Free /\ Taken => CountInv'
  BY DEF CountInv, Stands, Standing, Within, Downs
<1>a. /\ Downs(ledger) \in Nat /\ begun \in Nat /\ faults \in Nat
      /\ \A x : Stands(x) \in {0, 1} /\ (Stands(x) = 1 <=> Standing(x))
  BY Types, DownsOf DEF Stands
<1>1. CASE Quiet
  <2>1. faults' = faults /\ ledger' = ledger /\ hand' = hand /\ begun' = begun
    BY <1>1 DEF Quiet, files
  <2>2. (Unlocked' => Unlocked) /\ \A h \in Hooks : Held(h)' => Held(h)
    BY <1>1 DEF Quiet, Unlocked, Held
  <2>3. Free
    BY <2>1, <2>2 DEF CountInv
  <2>4. Taken
    BY <1>1, <2>1, <2>2, DueSame DEF CountInv
  <2> QED BY <1>s, <2>3, <2>4
<1>2. ASSUME NEW h \in Hooks, FileStep(h) PROVE Free /\ Taken
  <2>0. \A g \in Hooks : Held(g)' => g = h
    BY <1>2, LockKinds
  <2>1. CASE WriteAttention(h)
    <3> DEFINE r == Raised(hand, hook[h].kind, hook[h].ts, Key(h[2]))
               d == IF RaisesDown(h) = <<>> THEN 0 ELSE 1
               f == faults' - faults
    <3>1. /\ Downs(ledger') \in Nat /\ faults' \in Nat /\ faults <= faults'
          /\ Downs(ledger') <= Downs(ledger) + d /\ Downs(ledger) + d <= Downs(ledger') + f
      BY <2>1, AppendFacts, LinesOf DEF WriteAttention, RaisesDown, RaisesUp
    <3>2. Unlocked /\ At(h, "put")' /\ ~Unlocked' /\ hand' = hand /\ begun' = begun /\ UNCHANGED keyOf
      BY <1>2, <2>1, LockKinds DEF WriteAttention
    <3>3. Due(h)' = r /\ Restates(h)' = Restates(h) /\ hook'[h].kind = hook[h].kind
      <4>1. hook'[h].kind = hook[h].kind /\ hook'[h].ts = hook[h].ts
        BY <2>1, GoesOn DEF WriteAttention
      <4>2. Key(h[2])' = Key(h[2])
        BY <3>2 DEF Key
      <4> QED BY <3>2, <4>1, <4>2 DEF Due, Restates
    <3>4. Begins(h)' = IF ~Restates(h) /\ hook[h].kind \in Waits THEN 1 ELSE 0
      BY <3>2, <3>3 DEF Begins
    <3>5. Stands(r) - Begins(h)' = Stands(hand) - d /\ Begins(h)' \in {0, 1} /\ d \in {0, 1}
      <4>1. /\ Standing(r) <=> hook[h].kind \in Waits
            /\ Restates(h) => Standing(hand) /\ hand.kind = hook[h].kind
        BY RaisedHand
      <4>2. d = IF Restates(h) \/ ~Standing(hand) THEN 0 ELSE 1
        BY DEF RaisesDown, Closing
      <4> HIDE DEF r, d
      <4> QED BY <1>a, <3>4, <4>1, <4>2 DEF Standing
    <3> HIDE DEF r, d
    <3>6. Within(Downs(ledger) + Stands(hand) - begun, faults)
      BY <3>2 DEF CountInv
    <3> DEFINE n == Downs(ledger) + Stands(hand) - begun
               m == Downs(ledger') + Stands(r) - begun' - Begins(h)'
    <3>7. m - n \in (faults - faults') .. (faults' - faults) /\ n \in Int /\ m \in Int
      <4>1. Stands(r) \in Nat /\ Stands(hand) \in Nat /\ Begins(h)' \in Nat /\ d \in Nat
        BY <1>a, <3>5
      <4>2. m - n = Downs(ledger') - Downs(ledger) - d
        BY <1>a, <3>1, <3>2, <3>5, <4>1
      <4> QED BY <1>a, <3>1, <3>2, <4>1, <4>2
    <3>8. Within(n, faults)
      BY <3>6
    <3> HIDE DEF m, n
    <3>9. Within(m, faults')
      BY <1>a, <3>1, <3>7, <3>8, WithinFacts
    <3> QED BY <2>0, <3>2, <3>3, <3>9 DEF m
  <2>2. CASE LowerHand(h) /\ (ClearAttention(h) \/ NoteToolCall(h))
    <3> DEFINE d == IF Closing(hand) = <<>> THEN 0 ELSE 1
               f == faults' - faults
    <3>1. /\ Downs(ledger') \in Nat /\ faults' \in Nat /\ faults <= faults'
          /\ Downs(ledger') <= Downs(ledger) + d /\ Downs(ledger) + d <= Downs(ledger') + f
      BY <2>2, AppendFacts, LinesOf DEF LowerHand
    <3>2. Unlocked /\ At(h, "drop")' /\ ~Unlocked' /\ hand' = hand /\ begun' = begun
      BY <1>2, <2>2, LockKinds DEF LowerHand
    <3>3. Due(h)' = NoHand /\ Begins(h)' = 0
      BY <3>2 DEF Due, Begins, At
    <3>4. Stands(NoHand) = 0 /\ Stands(hand) = d /\ d \in {0, 1}
      BY <1>a, LinesOf DEF Closing, Standing, NoHand, Waits
    <3> HIDE DEF d
    <3>6. Within(Downs(ledger) + Stands(hand) - begun, faults)
      BY <3>2 DEF CountInv
    <3> DEFINE n == Downs(ledger) + Stands(hand) - begun
               m == Downs(ledger') + Stands(NoHand) - begun' - Begins(h)'
    <3>7. m - n \in (faults - faults') .. (faults' - faults) /\ n \in Int /\ m \in Int
      BY <1>a, <3>1, <3>2, <3>3, <3>4
    <3>8. Within(n, faults)
      BY <3>6
    <3> HIDE DEF m, n
    <3>9. Within(m, faults')
      BY <1>a, <3>1, <3>7, <3>8, WithinFacts
    <3> QED BY <2>0, <3>2, <3>3, <3>9 DEF m
  <2>3. CASE ~LowerHand(h) /\ (ClearAttention(h) \/ NoteToolCall(h))
    <3>1. Unlocked /\ Unlocked'
      BY <1>2, <2>3, LockKinds
    <3>2. ledger' = ledger /\ hand'.kind = hand.kind /\ begun' = begun /\ faults' = faults
      BY <2>3, Types DEF ClearAttention, NoteToolCall, KeepsOthers, files, Hands, NoHand
    <3>3. Free
      BY <3>1, <3>2 DEF CountInv, Stands, Standing
    <3>4. \A g \in Hooks : ~Held(g)'
      BY <3>1 DEF Unlocked, Held
    <3> QED BY <3>3, <3>4
  <2>4. CASE WriteStored(h) \/ Unlink(h)
    <3>1. Held(h) /\ Unlocked' /\ ledger' = ledger /\ faults' = faults
      BY <1>2, <2>4, LockKinds DEF WriteStored, Unlink
    <3>2. hand' = Due(h) /\ begun' = begun + Begins(h) /\ Begins(h) \in {0, 1}
      BY <1>a, <2>4 DEF WriteStored, Unlink, Due, Begins, At
    <3>3. \A g \in Hooks : ~Held(g)'
      BY <3>1 DEF Unlocked, Held
    <3>4. Within(Downs(ledger) + Stands(Due(h)) - begun - Begins(h), faults)
      BY <3>1 DEF CountInv
    <3>5. Downs(ledger) + Stands(hand') - begun' = Downs(ledger) + Stands(Due(h)) - begun - Begins(h)
      BY <1>a, <3>2
    <3> QED BY <3>1, <3>3, <3>4, <3>5
  <2>5. CASE CutShort(h)
    <3>1. Held(h) /\ Unlocked' /\ ledger' = ledger /\ faults' = faults + 1 /\ hand' = hand /\ begun' = begun
      BY <1>2, <2>5, LockKinds DEF CutShort
    <3>2. \A g \in Hooks : ~Held(g)'
      BY <3>1 DEF Unlocked, Held
    <3> DEFINE n == Downs(ledger) + Stands(Due(h)) - begun - Begins(h)
               m == Downs(ledger) + Stands(hand) - begun
    <3>3. Within(n, faults)
      BY <3>1 DEF CountInv
    <3>4. Stands(hand) - Stands(Due(h)) + Begins(h) \in {0, 1} /\ Begins(h) \in {0, 1}
      <4>1. CASE At(h, "put")
        <5>1. /\ Standing(Due(h)) <=> hook[h].kind \in Waits
              /\ Restates(h) => Standing(hand) /\ hand.kind = hook[h].kind
          BY <4>1, RaisedHand DEF Due
        <5>2. Begins(h) = IF ~Restates(h) /\ hook[h].kind \in Waits THEN 1 ELSE 0
          BY <4>1 DEF Begins
        <5>3. Stands(Due(h)) \in {0, 1} /\ Stands(hand) \in {0, 1}
          BY <1>a
        <5> QED BY <1>a, <5>1, <5>2, <5>3 DEF Standing
      <4>2. CASE ~At(h, "put")
        <5>1. Due(h) = NoHand /\ Begins(h) = 0
          BY <4>2 DEF Due, Begins
        <5>2. Stands(NoHand) = 0
          BY DEF Stands, Standing, NoHand, Waits
        <5> QED BY <1>a, <5>1, <5>2
      <4> QED BY <4>1, <4>2
    <3>5. m - n \in (faults - faults') .. (faults' - faults) /\ n \in Int /\ m \in Int /\ faults' \in Nat /\ faults <= faults'
      <4>1. Stands(hand) \in Nat /\ Stands(Due(h)) \in Nat
        BY <1>a
      <4>2. m - n = Stands(hand) - Stands(Due(h)) + Begins(h)
        BY <1>a, <3>4, <4>1
      <4> QED BY <1>a, <3>1, <3>4, <4>1, <4>2
    <3> HIDE DEF m, n
    <3>6. Within(m, faults')
      BY <1>a, <3>3, <3>5, WithinFacts
    <3> QED BY <3>1, <3>2, <3>6 DEF m
  <2> QED BY <1>2, <2>1, <2>2, <2>3, <2>4, <2>5 DEF FileStep
<1> QED BY <1>1, <1>2, <1>s, QuietStep

-----------------------------------------------------------------------------

\* What a step does to the names in the hand.
LEMMA NamesStep ==
  ASSUME TypeOK, HookInv, HandInv, LockInv, NEW h \in Hooks, FileStep(h)
  PROVE  /\ h[1] = "Ask" /\ WriteStored(h) => hand'.calls \in {{Key(h[2])}, hand.calls \cup {Key(h[2])}}
         /\ WriteStored(h) /\ hook[h].kind = "permission" => hand.calls \subseteq hand'.calls
         /\ ~(h[1] = "Ask" /\ WriteStored(h)) => hand'.calls \subseteq hand.calls
         /\ h[1] = "Post" => hand.calls \subseteq hand'.calls \cup {Key(h[2])}
         /\ h[1] = "Post" /\ hook'[h] = NotRun /\ ~CutShort(h) => Key(h[2]) \notin hand'.calls
         /\ h[1] = "Ask" => hand.calls \subseteq hand'.calls
         /\ h[1] = "Ask" /\ hook'[h] = NotRun /\ ~CutShort(h) => Key(h[2]) \in hand'.calls
         /\ h[1] = "Note" /\ hook[h].kind = "permission" => hand.calls \subseteq hand'.calls
<1>1. hand.calls # {} => Standing(hand) /\ hand.kind = "permission"
  BY DEF HandInv, Standing, Waits
<1>2. CASE WriteStored(h)
  <2>1. hand' = Raised(hand, hook[h].kind, hook[h].ts, Key(h[2]))
    BY <1>2 DEF WriteStored
  <2>2. /\ h[1] = "Ask" => hook[h].kind = "permission" /\ Key(h[2]) # NoCall
        /\ h[1] # "Ask" => Key(h[2]) = NoCall
        /\ h[1] # "Post"
    <3>1. h[1] = "Ask" \/ h[1] = "Stop" \/ h[1] = "Note"
      BY <1>2, ReportsAs DEF WriteStored
    <3>2. h[1] = "Ask" => hook[h].kind = "permission"
      BY <1>2, ReportsAs DEF WriteStored
    <3>3. h[1] = "Ask" => Key(h[2]) # NoCall
      BY HookFacts, Types
    <3>4. h[1] = "Stop" \/ h[1] = "Note" => Key(h[2]) = NoCall
      BY HookFacts, Types
    <3> QED BY <3>1, <3>2, <3>3, <3>4
  <2>3. hand'.calls = IF hook[h].kind = "permission"
                      THEN (IF Standing(hand) THEN hand.calls ELSE {}) \cup ({Key(h[2])} \ {NoCall}) ELSE {}
    BY <2>1 DEF Raised
  <2>4. h[1] = "Ask" => hand'.calls = (IF Standing(hand) THEN hand.calls ELSE {}) \cup {Key(h[2])}
    BY <2>2, <2>3
  <2>5. h[1] # "Ask" => hand'.calls \subseteq hand.calls
    BY <2>2, <2>3
  <2>6. hook[h].kind = "permission" => hand.calls \subseteq hand'.calls
    BY <1>1, <2>3
  <2>7. CASE h[1] = "Ask"
    BY <1>2, <2>2, <2>4, <2>6, <2>7
  <2>8. CASE h[1] # "Ask"
    BY <1>2, <2>2, <2>5, <2>6, <2>8
  <2> QED BY <2>7, <2>8
<1>3. CASE Unlink(h)
  <2>1. hand'.calls = {} /\ At(h, "drop")
    BY <1>3 DEF Unlink, NoHand
  <2>2. h[1] \in Lowers
    BY <2>1, ReportsAs
  <2>3. ~WriteStored(h)
    BY <2>1 DEF WriteStored
  <2>4. h[1] = "Post" => hand.calls \subseteq {Key(h[2])}
    BY <2>1 DEF LockInv
  <2> QED BY <2>1, <2>2, <2>3, <2>4 DEF Lowers
<1>4. CASE WriteAttention(h) \/ CutShort(h)
  <2>1. hand' = hand /\ ~WriteStored(h)
    <3>1. faults \in Nat
      BY Types
    <3> QED BY <1>4, <3>1 DEF WriteAttention, CutShort, WriteStored
  <2>2. WriteAttention(h) => hook'[h] # NotRun
    BY GoesOn DEF WriteAttention
  <2> QED BY <1>4, <2>1, <2>2
<1>5. CASE ClearAttention(h) \/ NoteToolCall(h)
  <2>1. At(h, "lower") /\ ~WriteStored(h) /\ h[1] \in Lowers
    BY <1>5, ReportsAs DEF ClearAttention, NoteToolCall, WriteStored
  <2>2. CASE LowerHand(h)
    <3>1. hand' = hand /\ hook'[h] # NotRun
      BY <2>2, GoesOn DEF LowerHand
    <3> QED BY <2>1, <3>1 DEF Lowers
  <2>3. CASE ClearAttention(h) /\ ~LowerHand(h)
    <3>1. hand' = hand /\ h[1] # "Post"
      BY <2>3 DEF ClearAttention, files
    <3> QED BY <2>1, <3>1 DEF Lowers
  <2>4. CASE NoteToolCall(h) /\ ~Answered(hand, Key(h[2]), hook[h].start)
    <3>1. hand' = hand /\ h[1] = "Post"
      BY <2>4 DEF NoteToolCall, files
    <3>2. Key(h[2]) \notin hand.calls
      BY <1>1, <2>4 DEF Answered
    <3> QED BY <2>1, <3>1, <3>2
  <2>5. CASE NoteToolCall(h) /\ KeepsOthers(h)
    <3>1. hand'.calls = hand.calls \ {Key(h[2])} /\ h[1] = "Post"
      BY <2>5, Types DEF NoteToolCall, KeepsOthers, Hands, NoHand
    <3> QED BY <2>1, <3>1
  <2> QED BY <1>5, <2>2, <2>3, <2>4, <2>5 DEF NoteToolCall
<1> QED BY <1>2, <1>3, <1>4, <1>5 DEF FileStep

\* A hook that sweeps is begun by what marks the open prompts, and a prompt that opens under one is marked.
LEMMA SweepStep ==
  ASSUME TypeOK, HookInv, AgentInv, [Next]_vars,
         \A c \in Calls : Open(c) /\ c \notin overlapped => \A h \in Hooks : ~Sweeping(h)
  PROVE  \A c \in Calls : Open(c)' /\ c \notin overlapped' => \A h \in Hooks : ~Sweeping(h)'
<1> USE HookFacts DEF Open, Sweeping, Running
<1>a. hook \in [Hooks -> HookStates] /\ call \in [Calls -> CallStates]
  BY Types
<1>1. CASE Tick
  BY <1>1 DEF Tick, agent, ghosts
<1>2. CASE Stops
  BY <1>2, <1>a DEF Stops, Begin, ghosts
<1>3. CASE NewPrompt
  BY <1>3, <1>a DEF NewPrompt, AgentInv
<1>4. CASE Notifies
  <2>1. CASE turn = "off"
    BY <1>4, <2>1 DEF Notifies, AgentInv, ghosts
  <2>2. CASE turn # "off"
    BY <1>4, <1>a, <2>2 DEF Notifies, Begin, ghosts
  <2> QED BY <2>1, <2>2
<1>5. ASSUME NEW c \in Calls, Starts(c)
      PROVE  \A d \in Calls : Open(d)' /\ d \notin overlapped' => \A h \in Hooks : ~Sweeping(h)'
  BY <1>5, <1>a DEF Starts
<1>6. ASSUME NEW c \in Calls, Prompts(c)
      PROVE  \A d \in Calls : Open(d)' /\ d \notin overlapped' => \A h \in Hooks : ~Sweeping(h)'
  BY <1>6, <1>a DEF Prompts, Begin
<1>7. ASSUME NEW c \in Calls, Runs(c) \/ Denied(c)
      PROVE  \A d \in Calls : Open(d)' /\ d \notin overlapped' => \A h \in Hooks : ~Sweeping(h)'
  <2>1. \A d \in Calls : Open(d)' => d # c /\ Open(d)
    BY <1>7, <1>a DEF Runs, Denied
  <2>2. hook' = hook /\ overlapped' = overlapped \ {c}
    BY <1>7 DEF Runs, Denied, Settled
  <2> QED BY <2>1, <2>2
<1>8. ASSUME NEW c \in Calls, Results(c)
      PROVE  \A d \in Calls : Open(d)' /\ d \notin overlapped' => \A h \in Hooks : ~Sweeping(h)'
  BY <1>8, <1>a DEF Results, Begin, ghosts
<1>9. ASSUME NEW h \in Hooks, HookStepOf(h)
      PROVE  \A d \in Calls : Open(d)' /\ d \notin overlapped' => \A g \in Hooks : ~Sweeping(g)'
  <2>1. \A g \in Hooks : Sweeping(g)' => Sweeping(g)
    BY <1>9, HookGoes
  <2>2. UNCHANGED <<call, overlapped>>
    BY <1>9, HookGoes DEF agent
  <2> QED BY <2>1, <2>2
<1>10. CASE UNCHANGED vars
  BY <1>10 DEF vars, agent, ghosts
<1> QED BY <1>1, <1>2, <1>3, <1>4, <1>5, <1>6, <1>7, <1>8, <1>9, <1>10 DEF Next, HookStepOf, FileStep

\* The faults and the hooks that give up are counted, never forgotten.
LEMMA DropsGrow ==
  ASSUME TypeOK, HookInv, AgentInv, [Next]_vars, giveUps' = 0, faults' = 0
  PROVE  giveUps = 0 /\ faults = 0 /\ \A h \in Hooks : ~CutShort(h) /\ ~GiveUp(h)
<1>1. giveUps \in Nat /\ faults \in Nat
  BY Types
<1>2. \A h \in Hooks : ~CutShort(h) /\ ~GiveUp(h)
  BY <1>1 DEF CutShort, GiveUp
<1>3. faults = 0
  <2>1. Quiet => faults' = faults
    BY DEF Quiet, files
  <2>2. ASSUME NEW h \in Hooks, FileStep(h) PROVE faults <= faults'
    <3>1. WriteAttention(h) \/ LowerHand(h) => faults' \in Nat /\ faults <= faults'
      BY AppendFacts, LinesOf DEF WriteAttention, LowerHand, RaisesDown, RaisesUp
    <3>2. WriteStored(h) \/ Unlink(h) \/ (~LowerHand(h) /\ (ClearAttention(h) \/ NoteToolCall(h))) => faults' = faults
      BY DEF WriteStored, Unlink, ClearAttention, NoteToolCall, KeepsOthers, files
    <3> QED BY <1>1, <1>2, <2>2, <3>1, <3>2 DEF FileStep
  <2> QED BY <1>1, <2>1, <2>2, QuietStep
<1>4. giveUps' \in {giveUps, giveUps + 1}
  BY DEF Next, Tick, Stops, NewPrompt, Notifies, Starts, Prompts, Runs, Denied, Results, Stamp, WriteAttention,
     WriteStored, Look, ClearAttention, NoteToolCall, Unlink, GiveUp, CutShort, vars
<1> QED BY <1>1, <1>2, <1>3, <1>4

\* How a step changes where a call is, and the hooks of it.
LEMMA CallStep ==
  ASSUME TypeOK, AgentInv, [Next]_vars, NEW c \in Calls
  PROVE  /\ Waiting(c)' => Waiting(c) \/ HookStepOf(<<"Ask", c>>)
         /\ call[c] \notin {"none", "started"} => call'[c] \notin {"none", "started"}
         /\ call'[c] = "done" /\ call[c] # "done" => Running(<<"Post", c>>)'
         /\ call[c] = "done" /\ Running(<<"Post", c>>) => Running(<<"Post", c>>)' \/ HookStepOf(<<"Post", c>>)
         /\ call[c] = "done" => call'[c] = "done"
<1> USE HookFacts DEF Waiting, Open, Running
<1>a. hook \in [Hooks -> HookStates] /\ call \in [Calls -> CallStates]
  BY Types
<1>1. CASE Tick
  BY <1>1 DEF Tick, agent
<1>2. CASE Stops
  BY <1>2, <1>a DEF Stops, Begin
<1>3. CASE NewPrompt
  BY <1>3, <1>a DEF NewPrompt, Begin
<1>4. CASE Notifies
  BY <1>4, <1>a DEF Notifies, Begin
<1>5. ASSUME NEW d \in Calls, Starts(d)
      PROVE  /\ call'[c] = call[c] \/ (call[c] = "none" /\ call'[c] = "started")
             /\ hook'[<<"Ask", c>>] = hook[<<"Ask", c>>] /\ hook'[<<"Post", c>>] = hook[<<"Post", c>>]
  BY <1>5, <1>a DEF Starts, Begin
<1>6. ASSUME NEW d \in Calls, Prompts(d)
      PROVE  /\ IF c = d THEN call[c] = "started" /\ call'[c] = "asking" /\ hook'[<<"Ask", c>>] # NotRun
                         ELSE call'[c] = call[c] /\ hook'[<<"Ask", c>>] = hook[<<"Ask", c>>]
             /\ hook'[<<"Post", c>>] = hook[<<"Post", c>>]
  BY <1>6, <1>a DEF Prompts, Begin, NotRun
<1>7. ASSUME NEW d \in Calls, Runs(d) \/ Denied(d)
      PROVE  /\ hook' = hook
             /\ IF c = d THEN call[c] \in {"started", "asking"} /\ call'[c] \in {"running", "denied"}
                         ELSE call'[c] = call[c]
  BY <1>7, <1>a DEF Runs, Denied
<1>8. ASSUME NEW d \in Calls, Results(d)
      PROVE  /\ hook'[<<"Ask", c>>] = hook[<<"Ask", c>>]
             /\ IF c = d THEN call[c] = "running" /\ call'[c] = "done" /\ hook'[<<"Post", c>>] # NotRun
                         ELSE call'[c] = call[c] /\ hook'[<<"Post", c>>] = hook[<<"Post", c>>]
  BY <1>8, <1>a DEF Results, Begin, NotRun
<1>9. ASSUME NEW h \in Hooks, HookStepOf(h)
      PROVE  call' = call /\ \A g \in Hooks : g # h => hook'[g] = hook[g]
  BY <1>9, HookGoes DEF agent
<1>10. CASE UNCHANGED vars
  BY <1>10 DEF vars, agent
<1>11. CASE \E d \in Calls : Starts(d)
  BY <1>5, <1>11
<1>12. CASE \E d \in Calls : Prompts(d)
  BY <1>6, <1>12
<1>13. CASE \E d \in Calls : Runs(d) \/ Denied(d)
  BY <1>7, <1>13
<1>14. CASE \E d \in Calls : Results(d)
  BY <1>8, <1>14
<1>15. CASE \E h \in Hooks : HookStepOf(h)
  BY <1>9, <1>15
<1> QED BY <1>1, <1>2, <1>3, <1>4, <1>10, <1>11, <1>12, <1>13, <1>14, <1>15 DEF Next, HookStepOf, FileStep

-----------------------------------------------------------------------------

\* No step takes the name of a waiting call out of the hand.
LEMMA ShownStep == TypeOK /\ HookInv /\ AgentInv /\ HandInv /\ LockInv /\ ShownInv /\ [Next]_vars => ShownInv'
<1> SUFFICES ASSUME TypeOK, HookInv, AgentInv, HandInv, LockInv, ShownInv, [Next]_vars PROVE ShownInv'
  OBVIOUS
<1>0. \A c \in Calls : Open(c)' /\ c \notin overlapped' => \A h \in Hooks : ~Sweeping(h)'
  BY SweepStep DEF ShownInv
<1> SUFFICES ASSUME NEW c \in Calls, Waiting(c)', c \notin overlapped', giveUps' = 0, faults' = 0, Alone(c)'
             PROVE  keyOf'[c] \in hand'.calls
  BY <1>0 DEF ShownInv
<1>a. giveUps = 0 /\ faults = 0 /\ \A h \in Hooks : ~CutShort(h) /\ ~GiveUp(h)
  BY DropsGrow
<1>b. keyOf' = keyOf
  <2>1. \A h \in Hooks : FileStep(h) => keyOf' = keyOf
    BY LockKinds
  <2> QED BY <2>1, QuietStep DEF Quiet
<1>c. Alone(c) /\ Key(c) = keyOf[c]
  BY <1>b, Types DEF Alone
<1>1. ASSUME Waiting(c), c \notin overlapped PROVE keyOf[c] \in hand.calls /\ \A h \in Hooks : ~Sweeping(h)
  BY <1>1, <1>a, <1>c DEF ShownInv, Waiting
<1>2. Waiting(c) => c \notin overlapped
  \* A prompt that stays open is not taken off the list of the overlapped ones.
  <2> SUFFICES ASSUME Waiting(c) PROVE c \in overlapped => c \in overlapped'
    OBVIOUS
  <2>1. ASSUME NEW d \in Calls, Runs(d) \/ Denied(d) PROVE overlapped' = overlapped \ {d} /\ c # d
    <3>1. call'[d] # "asking"
      BY <2>1, Types DEF Runs, Denied
    <3> QED BY <2>1, <3>1 DEF Runs, Denied, Settled, Waiting, Open
  <2>2. ASSUME NEW d \in Calls, Starts(d) \/ Prompts(d) \/ Results(d) PROVE overlapped \subseteq overlapped'
    BY <2>2 DEF Starts, Prompts, Results, ghosts
  <2>3. ASSUME NEW h \in Hooks, HookStepOf(h) PROVE overlapped' = overlapped
    BY <2>3, HookGoes
  <2>4. Tick \/ Stops \/ NewPrompt \/ Notifies \/ UNCHANGED vars => overlapped' = overlapped
    BY DEF Tick, Stops, NewPrompt, Notifies, vars, ghosts
  <2> QED BY <2>1, <2>2, <2>3, <2>4 DEF Next, HookStepOf, FileStep
<1>3. CASE Quiet
  <2>1. CASE Waiting(c)
    BY <1>1, <1>2, <1>3, <1>b, <2>1 DEF Quiet, files
  <2>2. CASE ~Waiting(c)
    <3>1. HookStepOf(<<"Ask", c>>)
      BY <2>2, CallStep
    <3>2. ~Running(<<"Ask", c>>)'
      BY DEF Waiting
    <3> DEFINE h == <<"Ask", c>>
    <3>3. h \in Hooks /\ hook'[h] = NotRun /\ h[1] = "Ask" /\ h[2] = c
      BY <3>2, HookFacts DEF Running
    <3> HIDE DEF h
    <3>4. ~Stamp(h) /\ ~Look(h)
      BY <3>3, Stamped, ReportsAs DEF Look, Lowers
    <3>5. FileStep(h)
      BY <1>a, <3>1, <3>3, <3>4 DEF HookStepOf, h
    <3>6. Key(h[2]) \in hand'.calls
      BY <1>a, <3>3, <3>5, NamesStep
    <3> QED BY <1>b, <1>c, <3>3, <3>6
  <2> QED BY <2>1, <2>2
<1>4. ASSUME NEW h \in Hooks, FileStep(h) PROVE keyOf'[c] \in hand'.calls
  <2>0. HookStepOf(h)
    BY <1>4 DEF HookStepOf
  <2>1. /\ Running(h) /\ UNCHANGED agent /\ \A g \in Hooks : g # h => hook'[g] = hook[g]
        /\ Open(c) /\ c \notin overlapped
    BY <2>0, HookGoes DEF Waiting, Open, agent
  <2>2. CASE h = <<"Ask", c>>
    <3>1. hook'[h] = NotRun /\ h[1] = "Ask" /\ h[2] = c
      BY <2>2 DEF Waiting, Running
    <3>2. Key(h[2]) \in hand'.calls
      BY <1>4, <1>a, <3>1, NamesStep
    <3> QED BY <1>b, <1>c, <3>1, <3>2
  <2>3. CASE h # <<"Ask", c>>
    <3>1. Waiting(c)
      BY <2>1, <2>3, HookFacts DEF Waiting, Open, Running
    <3>2. keyOf[c] \in hand.calls /\ ~Sweeping(h)
      BY <1>1, <2>1, <3>1
    <3>3. h[1] # "Pre" /\ h[1] # "Prompt" /\ hook[h].kind # "input"
      BY <2>1, <3>2 DEF Sweeping
    <3>4. h[1] # "Stop"
      <4>1. Running(h) /\ call[c] = "asking" /\ AgentInv
        BY <2>1 DEF Open
      <4>2. turn # "off"
        BY <4>1 DEF AgentInv
      <4>3. h[1] = "Stop" => h = <<"Stop", NoCall>>
        BY HookFacts
      <4> QED BY <4>1, <4>2, <4>3 DEF AgentInv
    <3>5. CASE h[1] = "Ask"
      BY <1>4, <1>b, <3>2, <3>5, NamesStep
    <3>6. CASE h[1] = "Note"
      <4>1. hook[h].kind = "permission"
        BY <2>1, <3>3, <3>6, HookFacts DEF HookInv, Running, Waits, Lowers
      <4> QED BY <1>4, <1>b, <3>2, <3>6, <4>1, NamesStep
    <3>7. CASE h[1] = "Post"
      <4>1. h[2] \in Calls /\ h = <<"Post", h[2]>>
        BY <3>7, HookFacts
      <4>2. call[h[2]] = "done"
        BY <2>1, <4>1 DEF AgentInv
      <4>3. h[2] # c
        BY <2>1, <4>2 DEF Open
      <4>4. Key(h[2]) # keyOf[c]
        BY <1>c, <4>1, <4>3, Types DEF Alone
      <4> QED BY <1>4, <1>b, <3>2, <3>7, <4>4, NamesStep
    <3> QED BY <3>3, <3>4, <3>5, <3>6, <3>7, HookFacts DEF Lowers, Raises
  <2> QED BY <2>2, <2>3
<1> QED BY <1>3, <1>4, QuietStep

\* A call of a name that keeps it in the hand: it was asked about, and its result has not been handled.
Pending(c) == call[c] \notin {"none", "started"} /\ (call[c] = "done" => Running(<<"Post", c>>))

\* A name stays in the hand only until the result of its call is handled.
LEMMA AnsweredStep ==
  TypeOK /\ HookInv /\ AgentInv /\ HandInv /\ LockInv /\ AnsweredIsLowered /\ [Next]_vars => AnsweredIsLowered'
<1> SUFFICES ASSUME TypeOK, HookInv, AgentInv, HandInv, LockInv, AnsweredIsLowered, [Next]_vars,
                    giveUps' = 0, faults' = 0, NEW key \in hand'.calls
             PROVE  \E c \in Calls : keyOf'[c] = key /\ Pending(c)'
  BY DEF AnsweredIsLowered, Pending, Running
<1>a. giveUps = 0 /\ faults = 0 /\ \A h \in Hooks : ~CutShort(h) /\ ~GiveUp(h)
  BY DropsGrow
<1>b. keyOf' = keyOf
  <2>1. \A h \in Hooks : FileStep(h) => keyOf' = keyOf
    BY LockKinds
  <2> QED BY <2>1, QuietStep DEF Quiet
<1>1. CASE key \notin hand.calls
  <2>1. PICK h \in Hooks : FileStep(h)
    BY <1>1, QuietStep DEF Quiet, files
  <2>2. h[1] = "Ask" /\ WriteStored(h)
    BY <1>1, <2>1, NamesStep
  <2>3. key = Key(h[2]) /\ h[2] \in Calls
    BY <1>1, <2>1, <2>2, NamesStep, HookFacts
  <2>4. call[h[2]] = "asking" /\ call' = call
    <3>1. Running(h) /\ UNCHANGED agent
      BY <2>1, HookGoes DEF HookStepOf
    <3>2. h = <<"Ask", h[2]>>
      BY <2>2, HookFacts
    <3> QED BY <2>3, <3>1, <3>2 DEF AgentInv, agent
  <2> QED BY <1>b, <2>3, <2>4, Types DEF Pending
<1>2. CASE key \in hand.calls
  <2>1. PICK c \in Calls : keyOf[c] = key /\ Pending(c)
    BY <1>2, <1>a DEF AnsweredIsLowered, Pending
  <2> DEFINE h == <<"Post", c>>
  <2>0. h \in Hooks /\ h[1] = "Post" /\ h[2] = c
    BY HookFacts
  <2>2. CASE Running(h)' \/ call'[c] # "done"
    <3>1. call'[c] \notin {"none", "started"}
      BY <2>1, CallStep DEF Pending
    <3> QED BY <1>b, <2>1, <2>2, <3>1 DEF Pending, Running
  <2>3. CASE ~Running(h)' /\ call'[c] = "done"
    <3>1. call[c] = "done" /\ Running(h)
      BY <2>1, <2>3, CallStep DEF Pending
    <3>2. HookStepOf(h) /\ hook'[h] = NotRun
      BY <2>3, <3>1, CallStep DEF Running
    <3> HIDE DEF h
    <3>3. ~Stamp(h)
      BY <2>0, <3>2, Stamped
    <3>4. ~Look(h)
      <4> SUFFICES ASSUME Look(h) PROVE FALSE
        OBVIOUS
      <4>1. ~Step(h, "lower")
        BY <2>0, <3>2, GoesOn
      <4>2. ~Answered(hand, Key(h[2]), hook[h].start)
        BY <2>0, <4>1 DEF Look
      <4>3. Key(h[2]) = key
        BY <2>0, <2>1, Types
      <4> QED BY <1>2, <4>2, <4>3 DEF Answered, HandInv
    <3>5. FileStep(h)
      BY <1>a, <2>0, <3>2, <3>3, <3>4 DEF HookStepOf
    <3>6. Key(h[2]) \notin hand'.calls
      BY <1>a, <2>0, <3>2, <3>5, NamesStep
    <3> QED BY <2>0, <2>1, <3>6, Types
  <2> QED BY <2>2, <2>3
<1> QED BY <1>1, <1>2

\* The inductive invariant holds of every reachable state.
LEMMA Invariance == Spec => []IInv
<1>1. IInv /\ [Next]_vars => IInv'
  BY TypeStep, HookStep, AgentStep, HandStep, LockStep, LedgerStep, CountStep, ShownStep, AnsweredStep DEF IInv
<1> QED BY <1>1, InitIInv, PTL DEF Spec

-----------------------------------------------------------------------------

\* Types, for any calls, names and bounds.
THEOREM Typed == Spec => []TypeOK
<1>1. IInv => TypeOK
  BY DEF IInv
<1> QED BY <1>1, Invariance, PTL

\* Whatever lines are lost and wherever hooks die or fail, each such fault makes waitedMs count one wait too
\* many or too few at most; without one the ledger pairs every wait's end with its beginning, whichever hooks
\* gave up or wrote late (writeAttention, clearAttention, noteToolCall).
THEOREM WaitsPaired == Spec => []LedgerBalanced
<1>1. IInv => LedgerBalanced
  <2> SUFFICES ASSUME IInv, Unlocked PROVE LedgerBalanced
    BY DEF LedgerBalanced
  <2>1. Downs(ledger) + Stands(hand) - begun \in (-faults) .. faults
    BY DEF IInv, CountInv, Within
  <2>2. Counted = Downs(ledger) + Stands(hand)
    BY DEF Counted, Downs, Stands
  <2>3. Downs(ledger) \in Nat /\ Stands(hand) \in Nat /\ begun \in Nat
    BY Types, DownsOf DEF IInv, Stands
  <2>4. Counted - begun \in (-faults) .. faults
    <3>1. Counted - begun = Downs(ledger) + Stands(hand) - begun
      BY <2>2, <2>3
    <3> QED BY <2>1, <3>1
  <2> QED BY <2>4 DEF IInv, LedgerInv, LedgerBalanced, Balanced
<1> QED BY <1>1, Invariance, PTL

\* A prompt that is open has a hand up, whatever the results of calls of other names do meanwhile (noteToolCall).
THEOREM PromptsShow == Spec => []PromptShown
<1>1. IInv => PromptShown
  <2> SUFFICES ASSUME IInv, giveUps = 0, faults = 0, NEW c \in Calls, Waiting(c), c \notin overlapped, Alone(c)
               PROVE  Standing(hand)
    BY DEF PromptShown
  <2>1. keyOf[c] \in hand.calls
    BY DEF IInv, ShownInv, Waiting
  <2> QED BY <2>1 DEF IInv, HandInv, Standing, Waits
<1> QED BY <1>1, Invariance, PTL

\* Every name in the hand is that of a call whose result has not been handled (noteToolCall).
THEOREM AnswersLower == Spec => []AnsweredIsLowered
<1>1. IInv => AnsweredIsLowered
  BY DEF IInv
<1> QED BY <1>1, Invariance, PTL

\* A hand that stands for the same prompts keeps its time, so that it is announced once (writeAttention).
THEOREM PromptKeepsTime == Spec => SamePromptSameTime
<1>1. IInv /\ [Next]_vars => (hand.calls # {} /\ hand'.calls = hand.calls => hand'.ts = hand.ts)
  <2> SUFFICES ASSUME IInv, [Next]_vars, hand.calls # {}, hand'.calls = hand.calls PROVE hand'.ts = hand.ts
    OBVIOUS
  <2>1. TypeOK /\ AgentInv /\ hand.kind = "permission" /\ Standing(hand)
    BY DEF IInv, HandInv, Standing, Waits
  <2>2. CASE Quiet
    BY <2>2 DEF Quiet, files
  <2>3. ASSUME NEW h \in Hooks, WriteStored(h) PROVE hand'.ts = hand.ts
    <3>1. hand' = Raised(hand, hook[h].kind, hook[h].ts, Key(h[2]))
      BY <2>3 DEF WriteStored
    <3>2. hook[h].kind = "permission"
      BY <3>1 DEF Raised
    <3>3. Key(h[2]) = NoCall \/ Key(h[2]) \in hand.calls
      BY <2>1, <3>1, <3>2 DEF Raised
    <3> QED BY <2>1, <3>1, <3>2, <3>3 DEF Raised, SamePrompt
  <2>4. \A h \in Hooks : ~Unlink(h)
    BY DEF Unlink, NoHand
  <2>5. ASSUME NEW h \in Hooks, KeepsOthers(h) PROVE hand'.ts = hand.ts
    BY <2>1, <2>5, Types DEF KeepsOthers, Hands, NoHand
  <2>6. ASSUME NEW h \in Hooks, FileStep(h), ~WriteStored(h), ~Unlink(h), ~KeepsOthers(h) PROVE hand' = hand
    BY <2>6 DEF FileStep, WriteAttention, ClearAttention, NoteToolCall, CutShort, LowerHand, files
  <2> QED BY <2>1, <2>2, <2>3, <2>4, <2>5, <2>6, QuietStep
<1>2. UNCHANGED hand => (hand.calls # {} /\ hand'.calls = hand.calls => hand'.ts = hand.ts)
  OBVIOUS
<1> QED BY <1>1, <1>2, Invariance, PTL DEF Spec, SamePromptSameTime

=============================================================================
