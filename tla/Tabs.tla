-------------------------------- MODULE Tabs --------------------------------
(***************************************************************************)
(* Naming one of herdr's tabs after the session its pane runs (packages/   *)
(* core/src/herdr-tabs.ts).  Terminal apps, whose list of titles may be    *)
(* old, and syncs, which the session's hooks start each time its title may *)
(* have changed, all rename the tab by the same rules, and record which    *)
(* name they gave it in two files: the claim, and when the title it names  *)
(* was read.  The record tells their own naming from a person's.           *)
(*                                                                         *)
(* Titles are numbered in the order the session takes them, 0 for none.    *)
(* The time a title is read is the number of the title then: reads between *)
(* two changes of the title read the same.                                 *)
(***************************************************************************)
EXTENDS Naturals, FiniteSets

CONSTANTS
  Apps,        \* terminal apps (ensureHerdrTabs from observatory-runtime.ts)
  Syncs,       \* runs of `oak __tab-sync` (syncSessionTab)
  Blank,       \* a placeholder: herdr's number for the tab, or an agent's kind
  Persons,     \* a name a person gave
  None,
  AgentTitle,  \* the title the agent itself gave its terminal, or None
  MaxTitle,    \* bound: titles the session takes
  MaxNames,    \* bound: times a person names the tab or takes its name away
  MaxFailures  \* bound: renames that fail or are reported to, and deaths of a pass

Passes == Apps \cup Syncs
Titles == 1 .. MaxTitle
Times == 0 .. MaxTitle
Labels == Titles \cup {Blank, Persons}

ASSUME TabsAssumption ==
  /\ Apps \cap Syncs = {}
  /\ MaxTitle \in Nat /\ MaxNames \in Nat /\ MaxFailures \in Nat
  /\ AgentTitle \in Titles \cup {None}
  /\ Blank \notin Titles /\ Persons \notin Titles \cup {Blank} /\ None \notin Labels \cup Nat \cup Passes

VARIABLES
  title,     \* the session's title
  label,     \* what the tab wears
  owned,     \* herdr-tabs.json: the label OAK gave the tab, or None
  time,      \* herdr-tabs.at.json: when the title that the claim names was read, or None
  saver,     \* who holds the record's lock
  list,      \* each app's list of titles: the title it shows and when its read began
  reading,   \* when the read an app has begun began, or None
  pass,      \* what each pass is doing
  names,     \* how often a person named the tab
  failures,
  given,     \* when the title was read that a pass named the tab by (a name put back under the claim it has
             \* counts as read when the claim says), None for a person's or herdr's label
  raced      \* whether a pass wrote label or record while another was between its snapshot and its save,
             \* died after its rename, or renamed the tab and was told it had not

vars == <<title, label, owned, time, saver, list, reading, pass, names, failures, given, raced>>

-----------------------------------------------------------------------------
(* The decision (reconcileHerdrTabs).                                      *)

Decision(keeps, renames) == [claim |-> keeps, rename |-> renames]

\* A claim stays while the tab wears it, or wears what nobody chose.
Keeps(seen, claim) == IF claim # None /\ seen \in {claim, Blank} THEN claim ELSE None

\* Mutant of HeldBack: an old list renames all the same.
HeldBackNever(seen, claim, when, listed) == FALSE

\* A claim made from a title newer than the list holds the pass back.
HeldBack(seen, claim, when, listed) == Keeps(seen, claim) # None /\ when # None /\ when > listed

\* Mutant of Ours: any label may be renamed.
OursAlways(seen, claim, name) == TRUE

\* A label that OAK may change: its own, one that reads the title already, or one nobody chose.
Ours(seen, claim, name) == seen \in {name, claim, Blank, AgentTitle}

\* Mutant of Decide: while the session has no title the claim is dropped.
DecideDrops(seen, claim, when, listed, name) ==
  IF name = 0 THEN Decision(None, FALSE)
  ELSE IF HeldBack(seen, claim, when, listed) \/ ~Ours(seen, claim, name)
  THEN Decision(Keeps(seen, claim), FALSE)
  ELSE Decision(name, seen # name)

Decide(seen, claim, when, listed, name) ==
  IF HeldBack(seen, claim, when, listed) \/ name = 0 \/ ~Ours(seen, claim, name)
  THEN Decision(Keeps(seen, claim), FALSE)
  ELSE Decision(name, seen # name)

-----------------------------------------------------------------------------

Idle == [at |-> "idle", listed |-> 0, name |-> 0, seen |-> Blank, claim |-> None, next |-> None, read |-> None]

PassStates ==
  [at : {"idle", "title", "pending", "load", "decide", "rename", "save", "saved"}, listed : Times, name : Times,
   seen : Labels, claim : Labels \cup {None}, next : Labels \cup {None}, read : Times \cup {None}]

Init ==
  /\ title = 0
  /\ label = Blank
  /\ owned = None /\ time = None
  /\ saver = None
  /\ list = [p \in Apps |-> [listed |-> 0, name |-> 0]]
  /\ reading = [p \in Apps |-> None]
  /\ pass = [p \in Passes |-> Idle]
  /\ names = 0 /\ failures = 0
  /\ given = None
  /\ raced = FALSE

\* Between its snapshot and the end of its save.
Under(p) == pass[p].at \notin {"idle", "title"}
Races(p) == raced' = (raced \/ \E q \in Passes \ {p} : Under(q))

Retitle ==
  /\ title < MaxTitle
  /\ title' = title + 1
  /\ UNCHANGED <<label, owned, time, saver, list, reading, pass, names, failures, given, raced>>

\* A person names the tab, or clears its name.
Name ==
  /\ names < MaxNames
  /\ label' \in {Persons, Blank} \ {label}
  /\ names' = names + 1
  /\ given' = None
  /\ UNCHANGED <<title, owned, time, saver, list, reading, pass, failures, raced>>

-----------------------------------------------------------------------------
(* What a pass goes by.                                                    *)

\* An app reads the session list, in the background; it is as old as the start of its read.
ListStart(p) ==
  /\ reading[p] = None
  /\ reading' = [reading EXCEPT ![p] = title]
  /\ UNCHANGED <<title, label, owned, time, saver, list, pass, names, failures, given, raced>>

ListEnd(p) ==
  /\ reading[p] # None
  /\ list' = [list EXCEPT ![p] = [listed |-> reading[p], name |-> title]]
  /\ reading' = [reading EXCEPT ![p] = None]
  /\ UNCHANGED <<title, label, owned, time, saver, pass, names, failures, given, raced>>

\* syncSessionTab: the time, then the title, then the snapshot.
SyncStart(p) ==
  /\ p \in Syncs /\ pass[p].at = "idle"
  /\ pass' = [pass EXCEPT ![p] = [Idle EXCEPT !.at = "title", !.listed = title]]
  /\ UNCHANGED <<title, label, owned, time, saver, list, reading, names, failures, given, raced>>

SyncSnapshot(p) ==
  /\ pass[p].at = "title"
  /\ pass' = [pass EXCEPT ![p] =
                IF title = 0 THEN Idle ELSE [@ EXCEPT !.at = "load", !.name = title, !.seen = label]]
  /\ UNCHANGED <<title, label, owned, time, saver, list, reading, names, failures, given, raced>>

\* herdr tells an app of a change; the app's pass over that snapshot may have to wait for the one before it.
AppSnapshot(p) ==
  /\ p \in Apps /\ pass[p].at = "idle"
  /\ pass' = [pass EXCEPT ![p] = [Idle EXCEPT !.at = "pending", !.seen = label]]
  /\ UNCHANGED <<title, label, owned, time, saver, list, reading, names, failures, given, raced>>

AppStart(p) ==
  /\ pass[p].at = "pending"
  /\ pass' = [pass EXCEPT ![p].at = "load", ![p].listed = list[p].listed, ![p].name = list[p].name]
  /\ UNCHANGED <<title, label, owned, time, saver, list, reading, names, failures, given, raced>>

\* loadOwned: the claim first.
LoadClaim(p) ==
  /\ pass[p].at = "load"
  /\ pass' = [pass EXCEPT ![p].at = "decide", ![p].claim = owned]
  /\ UNCHANGED <<title, label, owned, time, saver, list, reading, names, failures, given, raced>>

\* Its time, and the decision.  A pass that changes nothing is over.
LoadTime(p) ==
  /\ pass[p].at = "decide"
  /\ LET d == Decide(pass[p].seen, pass[p].claim, time, pass[p].listed, pass[p].name)
     IN  pass' = [pass EXCEPT ![p] =
                    IF d.rename
                    THEN [@ EXCEPT !.at = "rename", !.next = d.claim,
                                   !.read = IF d.claim = pass[p].claim THEN time ELSE pass[p].listed]
                    ELSE IF d.claim # @.claim THEN [@ EXCEPT !.at = "save", !.next = d.claim]
                    ELSE Idle]
  /\ UNCHANGED <<title, label, owned, time, saver, list, reading, names, failures, given, raced>>

-----------------------------------------------------------------------------
(* What a pass does.                                                       *)

Rename(p) ==
  /\ pass[p].at = "rename"
  /\ label' = pass[p].next
  /\ given' = pass[p].read
  /\ pass' = [pass EXCEPT ![p] = IF @.next # @.claim THEN [@ EXCEPT !.at = "save", !.read = None] ELSE Idle]
  /\ Races(p)
  /\ UNCHANGED <<title, owned, time, saver, list, reading, names, failures>>

\* The rename failed, or is reported to: the label the tab wore stays OAK's.
RenameFails(p) ==
  /\ pass[p].at = "rename"
  /\ failures < MaxFailures
  /\ failures' = failures + 1
  /\ \/ UNCHANGED <<label, given, raced>>
     \/ label' = pass[p].next /\ given' = pass[p].read /\ raced' = TRUE
  /\ pass' = [pass EXCEPT ![p] =
                IF @.seen # @.claim THEN [@ EXCEPT !.at = "save", !.next = pass[p].seen, !.read = None] ELSE Idle]
  /\ UNCHANGED <<title, owned, time, saver, list, reading, names>>

\* saveOwned, under the record's lock: the time first.
SaveTime(p) ==
  /\ pass[p].at = "save"
  /\ saver = None
  /\ saver' = p
  /\ time' = IF pass[p].next = None THEN None ELSE pass[p].listed
  /\ pass' = [pass EXCEPT ![p].at = "saved"]
  /\ Races(p)
  /\ UNCHANGED <<title, label, owned, list, reading, names, failures, given>>

SaveClaim(p) ==
  /\ pass[p].at = "saved"
  /\ saver' = None
  /\ owned' = pass[p].next
  /\ pass' = [pass EXCEPT ![p] = Idle]
  /\ Races(p)
  /\ UNCHANGED <<title, label, time, list, reading, names, failures, given>>

\* A sync is killed, or an app quits; a dead holder's lock is taken over (withStoreLock).
Die(p) ==
  /\ Under(p)
  /\ failures < MaxFailures
  /\ failures' = failures + 1
  /\ pass' = [pass EXCEPT ![p] = Idle]
  /\ saver' = IF saver = p THEN None ELSE saver
  /\ raced' = (raced \/ pass[p].at \in {"save", "saved"})
  /\ UNCHANGED <<title, label, owned, time, list, reading, names, given>>

Next ==
  \/ Retitle \/ Name
  \/ \E p \in Apps : ListStart(p) \/ ListEnd(p) \/ AppSnapshot(p) \/ AppStart(p)
  \/ \E p \in Syncs : SyncStart(p) \/ SyncSnapshot(p)
  \/ \E p \in Passes :
       LoadClaim(p) \/ LoadTime(p) \/ Rename(p) \/ RenameFails(p) \/ SaveTime(p) \/ SaveClaim(p) \/ Die(p)

Spec == Init /\ [][Next]_vars

-----------------------------------------------------------------------------
(* Properties.                                                             *)

TypeOK ==
  /\ title \in Times
  /\ label \in Labels
  /\ owned \in Labels \cup {None} /\ time \in Times \cup {None}
  /\ saver \in Passes \cup {None}
  /\ list \in [Apps -> [listed : Times, name : Times]]
  /\ reading \in [Apps -> Times \cup {None}]
  /\ pass \in [Passes -> PassStates]
  /\ \A p \in Passes : pass[p].at = "saved" => saver = p
  /\ names \in 0 .. MaxNames /\ failures \in 0 .. MaxFailures
  /\ given \in Times \cup {None} /\ raced \in BOOLEAN

\* A tab that a person named is left alone: no pass that saw the person's name renames it, and the record
\* never claims that name ("never a tab the user renamed themselves").
PersonsNameStays ==
  /\ owned # Persons
  /\ \A p \in Passes : pass[p].at = "rename" => pass[p].seen # Persons

\* A pass that sees what the tab wears does not rename it by a title read before the one it wears: "a claim made
\* from a title newer than this pass's list ... is left as it is until the list catches up".
OldTitleStaysAlways ==
  [][\A p \in Passes : Rename(p) /\ pass[p].seen = label /\ given # None => pass[p].listed >= given]_vars

\* So it is, however old the lists are and whatever fails, unless a pass wrote under another.
OldTitleStays ==
  [][\A p \in Passes : Rename(p) /\ ~raced' /\ pass[p].seen = label /\ given # None => pass[p].listed >= given]_vars

\* "a lost claim left its tab stuck on an old OAK-given title" (saveOwned): while no pass is at work, a tab
\* that OAK named is claimed, so that the next pass may rename it.
ClaimedAlways ==
  given # None /\ (\A p \in Passes : ~Under(p)) => label \in {owned, AgentTitle}

\* So it is, whatever a person does and however old the lists are, unless a pass wrote under another.
Claimed == ~raced => ClaimedAlways

=============================================================================
