----------------------------- MODULE Attention -----------------------------
(***************************************************************************)
(* The raised hand of one session (packages/core/src/capture.ts and its    *)
(* Codex twin): attention.json says what the agent waits for, and an       *)
(* append-only ledger beside it says since when.  Every event of the agent *)
(* runs a hook process of its own; the processes of parallel tool calls    *)
(* overlap, a notification's is not waited for at all.  A hook changes the *)
(* two files under a lock (LockFile), the ledger first: between the two    *)
(* writes others may look without the lock, and the hook may die.          *)
(***************************************************************************)
EXTENDS Integers, Sequences, FiniteSets

CONSTANTS
  Calls,      \* the tool calls the agent makes
  NoCall,     \* the call of an event that names none
  Keys,       \* the names a prompt and a result have for their call (toolCallKey)
  MaxTime,    \* bound: the clock
  MaxNotes,   \* bound: notifications
  MaxDrops    \* bound: hooks that give up or are cut short, and ledger lines that are lost

ASSUME AttentionAssumption ==
  /\ NoCall \notin Calls \cup Keys
  /\ MaxTime \in Nat \ {0}
  /\ MaxNotes \in Nat
  /\ MaxDrops \in Nat

VARIABLES
  clock,
  hand,       \* attention.json, or NoHand
  ledger,     \* attention-log.jsonl
  hook,       \* the hook processes: how far each is and what it knows
  call,       \* the agent: where each call is
  turn,       \* the agent: whether a turn runs
  notes,      \* notifications so far
  keyOf,      \* toolCallKey of each call: a hash of its turn, tool and input, which calls may share
  giveUps,    \* the hooks that had no lock in time, or died or failed before their first write
  faults,     \* the ledger lines that were lost, and the hooks cut short between their two writes
  begun,      \* the waits that began so far (not in the program)
  newer,      \* the prompts that are newer than any hook that lowers older hands (not in the program)
  overlapped  \* the prompts that were open while such a hook ran (not in the program)

files == <<hand, ledger, begun, faults>>
agent == <<call, turn, notes, keyOf>>
ghosts == <<newer, overlapped>>
vars == <<clock, files, hook, agent, giveUps, ghosts>>

-----------------------------------------------------------------------------

Times == 0 .. MaxTime
Waits == {"permission", "input"}
NoHand == [kind |-> "none", ts |-> 0, calls |-> {}]
Hands == {NoHand} \cup [kind : Waits \cup {"idle-done"}, ts : Times, calls : SUBSET Keys]

\* A hook process: of a call's start, prompt or result; of a new prompt of the person (a session's start or
\* end does the same), the turn's end, or a notification.
Hooks == ({"Pre", "Ask", "Post"} \X Calls) \cup ({"Prompt", "Stop", "Note"} \X {NoCall})
NotRun == [step |-> "none", start |-> 0, ts |-> 0, kind |-> "none"]

Up(kind, ts) == [ev |-> "up", kind |-> kind, at |-> ts]
Lowered(h) == [ev |-> "down", kind |-> h.kind, at |-> h.ts]

Init ==
  /\ clock = 1
  /\ hand = NoHand
  /\ ledger = <<>>
  /\ hook = [h \in Hooks |-> NotRun]
  /\ call = [c \in Calls |-> "none"]
  /\ turn = "on"
  /\ notes = 0
  /\ keyOf \in [Calls -> Keys]
  /\ giveUps = 0 /\ faults = 0 /\ begun = 0
  /\ newer = {}
  /\ overlapped = {}

At(h, step) == hook[h].step = step
Running(h) == hook[h] # NotRun
Return(h) == hook' = [hook EXCEPT ![h] = NotRun]

\* No hook is between its two writes: the lock can be had.
Unlocked == \A h \in Hooks : ~At(h, "put") /\ ~At(h, "drop")

\* A call waits for the person's answer; its prompt's hook has returned.
Open(c) == call[c] = "asking"
Waiting(c) == Open(c) /\ ~Running(<<"Ask", c>>)

\* Hooks that may lower any older hand, or put another kind in its place.
Sweeping(h) == Running(h) /\ (h[1] \in {"Pre", "Prompt"} \/ hook[h].kind = "input")

-----------------------------------------------------------------------------
(* The agent.  It waits for the hooks of a call before it goes on with     *)
(* that call, and for those of the turn; it does not wait for one call's   *)
(* hooks with another call, nor for a notification's.                      *)

\* Only what a hook may lower depends on when it started.
Begin(h, step, kind) ==
  hook' = [hook EXCEPT ![h] = [step |-> step, start |-> IF step = "look" THEN clock ELSE 0, ts |-> 0, kind |-> kind]]

Tick ==
  /\ clock < MaxTime
  /\ clock' = clock + 1
  /\ UNCHANGED <<files, hook, agent, giveUps, ghosts>>

Starts(c) ==
  /\ turn = "on" /\ ~Running(<<"Prompt", NoCall>>)
  /\ call[c] = "none"
  /\ call' = [call EXCEPT ![c] = "started"]
  /\ Begin(<<"Pre", c>>, "look", "none")
  /\ newer' = {}
  /\ overlapped' = overlapped \cup {d \in Calls : Open(d)}
  /\ UNCHANGED <<clock, files, turn, notes, keyOf, giveUps>>

Prompts(c) ==
  /\ call[c] = "started" /\ ~Running(<<"Pre", c>>)
  /\ call' = [call EXCEPT ![c] = "asking"]
  /\ Begin(<<"Ask", c>>, "stamp", "permission")
  /\ overlapped' = IF \E h \in Hooks : Sweeping(h) THEN overlapped \cup {c} ELSE overlapped
  /\ UNCHANGED <<clock, files, turn, notes, keyOf, giveUps, newer>>

\* What is recorded of a prompt that is no longer open is forgotten.
Settled(c) == newer' = newer \ {c} /\ overlapped' = overlapped \ {c}

Runs(c) ==
  /\ \/ call[c] = "started" /\ ~Running(<<"Pre", c>>)
     \/ Waiting(c)
  /\ call' = [call EXCEPT ![c] = "running"]
  /\ Settled(c)
  /\ UNCHANGED <<clock, files, hook, turn, notes, keyOf, giveUps>>

\* The person says no: the call has no result.
Denied(c) ==
  /\ Waiting(c)
  /\ call' = [call EXCEPT ![c] = "denied"]
  /\ Settled(c)
  /\ UNCHANGED <<clock, files, hook, turn, notes, keyOf, giveUps>>

\* A result may also come after the turn's end (a command that is polled).
Results(c) ==
  /\ call[c] = "running" /\ ~Running(<<"Stop", NoCall>>)
  /\ call' = [call EXCEPT ![c] = "done"]
  /\ Begin(<<"Post", c>>, "look", "none")
  /\ UNCHANGED <<clock, files, turn, notes, keyOf, giveUps, ghosts>>

Stops ==
  /\ turn = "on"
  /\ \A c \in Calls : call[c] \in {"none", "running", "done", "denied"} /\ ~Running(<<"Post", c>>)
  /\ ~Running(<<"Prompt", NoCall>>)
  /\ turn' = "off"
  /\ Begin(<<"Stop", NoCall>>, "stamp", "idle-done")
  /\ UNCHANGED <<clock, files, call, notes, keyOf, giveUps, ghosts>>

NewPrompt ==
  /\ turn = "off" /\ ~Running(<<"Stop", NoCall>>)
  /\ turn' = "on"
  /\ Begin(<<"Prompt", NoCall>>, "look", "none")
  /\ newer' = {}
  /\ UNCHANGED <<clock, files, call, notes, keyOf, giveUps, overlapped>>

\* "needs your permission" while a prompt is open, "waiting for your input" between turns.
Notifies ==
  /\ notes < MaxNotes /\ ~Running(<<"Note", NoCall>>)
  /\ \E kind \in Waits :
       /\ IF kind = "input" THEN turn = "off" ELSE \E c \in Calls : Open(c)
       /\ Begin(<<"Note", NoCall>>, "stamp", kind)
  /\ notes' = notes + 1
  /\ UNCHANGED <<clock, files, call, turn, keyOf, giveUps, ghosts>>

-----------------------------------------------------------------------------
(* The hooks.                                                              *)

\* The state a hook reports has the time of its report, taken before the lock.
Stamp(h) ==
  /\ At(h, "stamp")
  /\ hook' = [hook EXCEPT ![h].step = "write", ![h].ts = clock]
  /\ newer' = IF h[1] = "Ask" /\ \A g \in Hooks : At(g, "look") \/ At(g, "lower") => hook[g].start < clock
              THEN newer \cup {h[2]} ELSE newer
  /\ UNCHANGED <<clock, files, agent, giveUps, overlapped>>

Standing(h) == h.kind \in Waits

\* Appends that fail are swallowed: any of a hook's lines may be lost.  So is the line that follows one of
\* which a part was written, and one that lacks its newline when the next line is glued to it.
LedgerAppend(down, up) ==
  \E lost \in SUBSET ((IF down = <<>> THEN {} ELSE {"down"}) \cup (IF up = <<>> THEN {} ELSE {"up"})) :
    /\ giveUps + faults + Cardinality(lost) <= MaxDrops
    /\ faults' = faults + Cardinality(lost)
    /\ ledger' = ledger \o (IF "down" \in lost THEN <<>> ELSE down) \o (IF "up" \in lost THEN <<>> ELSE up)

\* What closes a hand's wait: a turn's end is none.
Closing(h) == IF Standing(h) THEN <<Lowered(h)>> ELSE <<>>

\* Mutant: a report of the same prompt is a fresh hand.
SamePromptNever(h, kind, key) == FALSE

\* One prompt is one hand, whether or not its reports name the call.
SamePrompt(h, kind, key) ==
  Standing(h) /\ h.kind = kind /\ (key = NoCall \/ h.calls = {} \/ key \in h.calls)

\* The calls whose prompts are still up stay with the hand.
Raised(h, kind, ts, key) ==
  [kind  |-> kind,
   ts    |-> IF SamePrompt(h, kind, key) THEN h.ts ELSE ts,
   calls |-> IF kind = "permission" THEN (IF Standing(h) THEN h.calls ELSE {}) \cup ({key} \ {NoCall}) ELSE {}]

Key(c) == IF c = NoCall THEN NoCall ELSE keyOf[c]

\* The hook restates the wait that stands.
Restates(h) == SamePrompt(hand, hook[h].kind, Key(h[2]))

Step(h, step) == hook' = [hook EXCEPT ![h].step = step]

\* Mutant: the wait a newer one replaces is not closed.
WriteAttentionOpening(h) ==
  /\ At(h, "write") /\ Unlocked
  /\ LedgerAppend(<<>>, IF Restates(h) \/ hook[h].kind \notin Waits THEN <<>> ELSE <<Up(hook[h].kind, hook[h].ts)>>)
  /\ Step(h, "put")
  /\ UNCHANGED <<clock, hand, begun, agent, giveUps, ghosts>>

\* writeAttention under the lock, the ledger: the wait that stood is closed, the new one opened.
WriteAttention(h) ==
  /\ At(h, "write") /\ Unlocked
  /\ LedgerAppend(IF Restates(h) THEN <<>> ELSE Closing(hand),
                  IF Restates(h) \/ hook[h].kind \notin Waits THEN <<>> ELSE <<Up(hook[h].kind, hook[h].ts)>>)
  /\ Step(h, "put")
  /\ UNCHANGED <<clock, hand, begun, agent, giveUps, ghosts>>

\* writeStored: attention.json is replaced.
WriteStored(h) ==
  /\ At(h, "put")
  /\ hand' = Raised(hand, hook[h].kind, hook[h].ts, Key(h[2]))
  /\ begun' = IF Restates(h) \/ hook[h].kind \notin Waits THEN begun ELSE begun + 1
  /\ Return(h)
  /\ UNCHANGED <<clock, ledger, faults, agent, giveUps, ghosts>>

\* What a result answers: the prompt of a call of its key, or a turn's end that was before it.
Answered(h, key, start) ==
  \/ h.kind = "idle-done" /\ h.ts <= start
  \/ h.kind = "permission" /\ key \in h.calls

\* What a call's start lowers: a hand that went up before it.  A new prompt lowers any.
Passed(h, slot, start) == slot[1] = "Prompt" \/ h.ts <= start

\* The first look, without the lock: nothing to lower, no lock taken.
Look(h) ==
  /\ At(h, "look")
  /\ LET lowers == IF h[1] = "Post" THEN Answered(hand, Key(h[2]), hook[h].start)
                                    ELSE hand # NoHand /\ Passed(hand, h, hook[h].start)
     IN  IF lowers THEN Step(h, "lower") ELSE Return(h)
  /\ UNCHANGED <<clock, files, agent, giveUps, ghosts>>

\* lowerHand, the ledger: the wait is closed.
LowerHand(h) ==
  /\ LedgerAppend(Closing(hand), <<>>)
  /\ Step(h, "drop")
  /\ UNCHANGED <<hand, begun>>

\* lowerHand, the file: attention.json goes.
Unlink(h) ==
  /\ At(h, "drop")
  /\ hand' = NoHand
  /\ Return(h)
  /\ UNCHANGED <<clock, ledger, begun, faults, agent, giveUps, ghosts>>

\* clearAttention under the lock, which looks again.
ClearAttention(h) ==
  /\ At(h, "lower") /\ h[1] # "Post" /\ Unlocked
  /\ IF hand = NoHand \/ Passed(hand, h, hook[h].start) THEN LowerHand(h) ELSE Return(h) /\ UNCHANGED files
  /\ UNCHANGED <<clock, agent, giveUps, ghosts>>

\* The calls that still wait keep the hand up.
KeepsOthers(h) ==
  /\ hand' = [hand EXCEPT !.calls = @ \ {Key(h[2])}]
  /\ Return(h)
  /\ UNCHANGED <<ledger, begun, faults>>

\* Mutant: what was seen before the lock is acted on.
NoteToolCallUnseen(h) ==
  /\ At(h, "lower") /\ h[1] = "Post" /\ Unlocked
  /\ LowerHand(h)
  /\ UNCHANGED <<clock, agent, giveUps, ghosts>>

\* Mutant: the calls that still wait are counted with this one among them, and kept.
NoteToolCallKeeping(h) ==
  /\ At(h, "lower") /\ h[1] = "Post" /\ Unlocked
  /\ IF ~Answered(hand, Key(h[2]), hook[h].start) \/ (hand.kind = "permission" /\ hand.calls # {Key(h[2])})
     THEN Return(h) /\ UNCHANGED files
     ELSE LowerHand(h)
  /\ UNCHANGED <<clock, agent, giveUps, ghosts>>

\* noteToolCall of a result under the lock, which looks again.
NoteToolCall(h) ==
  /\ At(h, "lower") /\ h[1] = "Post" /\ Unlocked
  /\ IF ~Answered(hand, Key(h[2]), hook[h].start) THEN Return(h) /\ UNCHANGED files
     ELSE IF hand.kind = "permission" /\ hand.calls # {Key(h[2])} THEN KeepsOthers(h)
     ELSE LowerHand(h)
  /\ UNCHANGED <<clock, agent, giveUps, ghosts>>

\* The lock is not had within ATTENTION_LOCK_BUDGET_MS, or the hook dies or fails before its first write.
GiveUp(h) ==
  /\ giveUps + faults < MaxDrops
  /\ hook[h].step \in {"write", "lower"}
  /\ giveUps' = giveUps + 1
  /\ Return(h)
  /\ UNCHANGED <<clock, files, agent, ghosts>>

\* The hook dies, or the write of attention.json fails, after the ledger was appended to.  The lock of a dead
\* hook is broken as stale.
CutShort(h) ==
  /\ giveUps + faults < MaxDrops
  /\ At(h, "put") \/ At(h, "drop")
  /\ faults' = faults + 1
  /\ Return(h)
  /\ UNCHANGED <<clock, hand, ledger, begun, agent, giveUps, ghosts>>

-----------------------------------------------------------------------------

Next ==
  \/ Tick \/ Stops \/ NewPrompt \/ Notifies
  \/ \E c \in Calls : Starts(c) \/ Prompts(c) \/ Runs(c) \/ Denied(c) \/ Results(c)
  \/ \E h \in Hooks :
       \/ Stamp(h) \/ WriteAttention(h) \/ WriteStored(h)
       \/ Look(h) \/ ClearAttention(h) \/ NoteToolCall(h) \/ Unlink(h)
       \/ GiveUp(h) \/ CutShort(h)

Spec == Init /\ [][Next]_vars

-----------------------------------------------------------------------------
(* Properties.                                                             *)

TypeOK ==
  /\ clock \in Times
  /\ hand \in Hands
  /\ ledger \in Seq([ev : {"up", "down"}, kind : Waits, at : Times])
  /\ hook \in [Hooks -> [step : {"none", "look", "stamp", "write", "lower", "put", "drop"}, start : Times, ts : Times,
                         kind : {"none", "idle-done"} \cup Waits]]
  /\ call \in [Calls -> {"none", "started", "asking", "running", "done", "denied"}]
  /\ turn \in {"on", "off"}
  /\ notes \in 0 .. MaxNotes /\ giveUps \in Nat /\ faults \in Nat /\ giveUps + faults <= MaxDrops /\ begun \in Nat
  /\ keyOf \in [Calls -> Keys]
  /\ newer \subseteq Calls /\ overlapped \subseteq Calls

\* The waits waitedMs sums: those closed in the ledger, and the one that stands.
Counted == Cardinality({i \in DOMAIN ledger : ledger[i].ev = "down"}) + (IF Standing(hand) THEN 1 ELSE 0)

\* Whichever hooks gave up before they wrote, or wrote late, waitedMs counts a wait twice, or not at all, only by a
\* fault of its own: a hook that dies after it closed a wait leaves the hand of it standing, and a lost line its wait
\* unclosed, but no later wait is miscounted for that.  Without such a fault the ledger pairs every wait's end with
\* its beginning, one wait at a time, and its one open wait is the hand that stands.
LedgerBalanced ==
  Unlocked =>
    /\ Counted - begun \in (-faults) .. faults
    /\ faults = 0 =>
         /\ \A i \in DOMAIN ledger : ledger[i].ev = IF i % 2 = 1 THEN "up" ELSE "down"
         /\ \A i \in DOMAIN ledger : i % 2 = 0 => ledger[i] = [ledger[i - 1] EXCEPT !.ev = "down"]
         /\ Standing(hand) <=> Len(ledger) % 2 = 1
         /\ Standing(hand) => ledger[Len(ledger)] = Up(hand.kind, hand.ts)

\* toolCallKey: the prompt of a call and that of another with the same turn, tool and input have one name.
Alone(c) == \A d \in Calls \ {c} : keyOf[d] # keyOf[c]

\* A prompt that is open has a hand up, whatever the results of calls of another key do meanwhile, unless a
\* call began (which the code takes for an answer) or a hook that sweeps was under way.
PromptShown ==
  giveUps = 0 /\ faults = 0 => \A c \in Calls : Waiting(c) /\ c \notin overlapped /\ Alone(c) => Standing(hand)

\* "its result answers the permission prompt raised for that same call, never another's" (noteToolCall): the
\* same of every call.
SameCallAnswers ==
  giveUps = 0 /\ faults = 0 => \A c \in Calls : Waiting(c) /\ c \notin overlapped => Standing(hand)

\* Every name in the hand is that of a call that was asked about and whose result has not been handled, so
\* that no hand outlives its calls.
AnsweredIsLowered ==
  giveUps = 0 /\ faults = 0 =>
    \A key \in hand.calls : \E c \in Calls :
      keyOf[c] = key /\ call[c] \notin {"none", "started"} /\ (call[c] = "done" => Running(<<"Post", c>>))

\* A hand keeps its time while the prompts it stands for are the same, so that it is announced once
\* ("every surface announces once per ts", writeAttention).
SamePromptSameTime ==
  [][hand.calls # {} /\ hand'.calls = hand.calls => hand'.ts = hand.ts]_vars

\* "neither ever lowers a hand raised after it: a parallel call's hook that ran late, or one that waited on
\* a lock, is not progress past a newer prompt" (noteToolCall).
NewerPromptStays ==
  giveUps = 0 /\ faults = 0 => \A c \in Calls : Waiting(c) /\ c \in newer /\ Alone(c) => Standing(hand)

=============================================================================
