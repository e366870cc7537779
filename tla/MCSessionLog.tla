---------------------------- MODULE MCSessionLog ----------------------------
(***************************************************************************)
(* Model checking SessionLog.  A session starts from an empty log, or from *)
(* one that unlocked writers of the past left with duplicate display ids   *)
(* (parseLogFile reconciles them).                                         *)
(***************************************************************************)
EXTENDS SessionLog, TLC

CONSTANTS f1, f2

Symmetry == Permutations(FrontEnds)

\* Two writers that both computed id 1.
Duplicates == <<Edit(1, 1, "pending"), Edit(1, 2, "pending")>>

\* Three edits with their own ids, longer than the tail that nextId reads.
Long == <<Edit(1, 1, "pending"), Edit(2, 2, "pending"), Edit(3, 3, "pending")>>

\* A third one that had read only the first of them.
Triple == <<Edit(1, 1, "pending"), Edit(1, 2, "pending"), Edit(2, 3, "pending")>>

Plain == [by |-> FrontEnds, log |-> <<>>, edits |-> 2, lines |-> 5, skips |-> 0, torn |-> FALSE,
          ignorable |-> {}, phantoms |-> {}]

One(s) == {[s EXCEPT !.by = {f}] : f \in FrontEnds}

\* Two front ends with stale reads against captures and clears; one edit decided on by two, with torn appends; a log
\* with duplicate ids; one longer than the tail; gaps and a rule that comes to cover one of two edits; gaps with torn
\* appends; a pair of phantoms.
ManySessions ==
  {Plain, [Plain EXCEPT !.edits = 1, !.lines = 6, !.torn = TRUE]}
  \cup One([Plain EXCEPT !.log = Duplicates, !.edits = 3])
  \cup One([Plain EXCEPT !.log = Long, !.edits = 4, !.lines = 4])
  \cup One([Plain EXCEPT !.lines = 4, !.ignorable = {1}, !.skips = 1])
  \cup One([Plain EXCEPT !.edits = 2, !.lines = 4, !.skips = 1, !.torn = TRUE])
  \cup One([Plain EXCEPT !.edits = 3, !.lines = 4, !.phantoms = {<<1, 2>>}])

\* One front end over a log with duplicates that are further up than the tail.
Rekeyed == One([Plain EXCEPT !.log = Triple, !.edits = 4])

\* One front end, one edit, and appends cut short.
TornSolo == One([Plain EXCEPT !.edits = 1, !.torn = TRUE])

\* Two front ends over a longer log; one, with appends cut short, or after a log with duplicates and phantoms.
Stale == {[Plain EXCEPT !.lines = 8]} \cup One([Plain EXCEPT !.edits = 3, !.torn = TRUE])
         \cup One([Plain EXCEPT !.log = Triple, !.edits = 3, !.phantoms = {<<1, 2>>}])

RevertSolo == One([Plain EXCEPT !.lines = 10])

=============================================================================
