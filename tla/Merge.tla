------------------------------- MODULE Merge -------------------------------
(***************************************************************************)
(* The line merge of packages/core/src/merge.ts, and what undo and redo    *)
(* make of it: an edit is undone by merging its text before onto the file  *)
(* as it is now, and redone by merging its text after, each on the other   *)
(* as the base.  A line is its body and its terminator; the last line of a *)
(* text may have none.                                                     *)
(***************************************************************************)
EXTENDS Lines

CONSTANT FileTexts   \* the texts a file may have

\* tokenizeLines: a line is its body and its terminator, which only a last line that is not blank may lack.
Line == [body : STRING, end : {"lf", "crlf", "none"}]
IsText(s) == s \in Seq(Line) /\ \A i \in DOMAIN s : s[i].end = "none" => i = Len(s) /\ s[i].body # ""

ASSUME TextsAssumption == \A s \in FileTexts : IsText(s)

VARIABLES
  before, after,  \* the edit's text before and after
  prior,          \* the file when the edit is undone
  taken,          \* the changes the undo made to take the edit out
  recorded,       \* whether it is as the newest later edit recorded it, or a person changed it since
  ofUndo,         \* the file the undo left
  now,            \* the file
  step            \* "edited", "undone", "redone", or what was refused

vars == <<before, after, prior, taken, recorded, ofUndo, now, step>>

Init ==
  /\ before \in FileTexts /\ after \in FileTexts \ {before}
  /\ prior \in FileTexts
  /\ recorded \in BOOLEAN /\ taken = {}
  /\ now = prior /\ ofUndo = prior
  /\ step = "edited"

-----------------------------------------------------------------------------
(* The final newline.                                                      *)

Last(s) == s[Len(s)]
Unended(s) == s # <<>> /\ Last(s).end = "none"
Ended(s) == s # <<>> /\ Last(s).end # "none"

Largest(S) == CHOOSE i \in S : \A j \in S : j <= i
LastWith(s, lines) == LET S == {i \in DOMAIN s : s[i] \in lines} IN IF S = {} THEN 0 ELSE Largest(S)

\* lineEnding: of the last terminated line, or "none".
LineEnding(s) == LET i == LastWith(s, {l \in {s[j] : j \in DOMAIN s} : l.end # "none"}) IN IF i = 0 THEN "none" ELSE s[i].end

\* `??`
Or(a, b) == IF a = "none" THEN b ELSE a

With(s, end) == [s EXCEPT ![Len(s)].end = end]

\* The last line gets the terminator it has in the base, nearest its end, or else `eol`.
Terminated(base, s, eol) ==
  IF ~Unended(s) THEN s
  ELSE LET lf   == LastWith(base, {[Last(s) EXCEPT !.end = "lf"]})
           crlf == LastWith(base, {[Last(s) EXCEPT !.end = "crlf"]})
       IN  With(s, IF lf = 0 /\ crlf = 0 THEN eol ELSE IF crlf > lf THEN "crlf" ELSE "lf")

\* Mutant: taken from the side that ends the text, whichever changed it.
FinalNewlineAny(base, ours, theirs) == Ended(ours) \/ Ended(theirs)

\* Whose word the result's final newline is: that of the side that changed it.
FinalNewline(base, ours, theirs) ==
  IF ours # <<>> /\ (base = <<>> \/ Ended(ours) # Ended(base)) THEN Ended(ours)
  ELSE IF theirs # <<>> /\ (base = <<>> \/ Ended(theirs) # Ended(base)) THEN Ended(theirs)
  ELSE Ended(base)

\* A blank last line keeps its terminator.
Finished(merged, final) ==
  IF merged = <<>> \/ final \/ Last(merged).body = "" THEN merged ELSE With(merged, "none")

Eol(base, ours, theirs) ==
  LET first == Or(Or(LineEnding(base), LineEnding(ours)), LineEnding(theirs)) IN Or(first, "lf")

\* threeWayMerge: its results, one for each pair of alignments; an empty set refuses.
Merges(base, ours, theirs, A, B) ==
  LET eol == Eol(base, ours, theirs)
  IN  IF /\ base # <<>> /\ ours # <<>> /\ theirs # <<>>
         /\ Ended(ours) # Ended(base) /\ Ended(theirs) # Ended(base)
      THEN {}
      ELSE {Finished(m, FinalNewline(base, ours, theirs)) : m \in MergeLines(Terminated(base, base, eol), A, B)}

ChangesTo(base, other, ours, theirs) ==
  LET eol == Eol(base, ours, theirs)
  IN  TokenChanges(Terminated(base, base, eol), Terminated(base, other, eol))

Within(s, run) == \E k \in 0 .. Len(s) - Len(run) : SubSeq(s, k + 1, k + Len(run)) = run

\* Mutant: the file's last line is searched as it is.
MergeGuardUnended(base, ours, theirs, B) ==
  LineEnding(base) # "none" =>
    \A c \in B : Within(ours, SubSeq(Terminated(base, base, LineEnding(base)), c.start + 1, End(c)))

\* mergeGuard: every run of lines theirs takes out of the base is in ours.
MergeGuard(base, ours, theirs, B) ==
  LET eol == LineEnding(base)
  IN  eol # "none" =>
        \A c \in B : Within(Terminated(base, ours, eol), SubSeq(Terminated(base, base, eol), c.start + 1, End(c)))

-----------------------------------------------------------------------------
(* Undo and redo.                                                          *)

\* A merge is written; one that refuses, with nothing else to go by, or leaves the file as it is is refused.
MergeStep(base, theirs, B, orElse, done, refused) ==
  \E A \in ChangesTo(base, now, now, theirs) :
    LET merged  == Merges(base, now, theirs, A, B)
        results == (IF merged = {} THEN orElse ELSE merged) \ {now}
    IN  /\ now' \in IF results = {} THEN {now} ELSE results
        /\ step' = IF results = {} THEN refused ELSE done

Undo ==
  /\ step = "edited"
  /\ IF now = after
     THEN now' = before /\ step' = "undone" /\ taken' = {}
     ELSE \E B \in ChangesTo(after, before, now, before) :
            taken' = B /\ MergeStep(after, before, B, {}, "undone", "undo refused")
  /\ ofUndo' = now'
  /\ UNCHANGED <<before, after, prior, recorded>>

\* Mutant of Clean: a last line that is not terminated is no line.
CleanTerminated ==
  LET LineCount(s) == Len(s) - (IF Unended(s) THEN 1 ELSE 0)
  IN  LineCount(now) = LineCount(prior) + LineCount(before) - LineCount(after)

\* A clean undo from a state has exactly this many lines.
Clean == Len(now) = Len(prior) + Len(before) - Len(after)

\* Whether the newest recorded state, as the undo found it, holds the change (mergeGuard).
Held == recorded /\ prior # ofUndo /\ MergeGuard(after, prior, before, taken)

\* What the undo took out of that state, merged onto the file now.
PlacedBack ==
  UNION {Merges(ofUndo, now, prior, C, D) :
           C \in ChangesTo(ofUndo, now, now, prior), D \in ChangesTo(ofUndo, prior, now, prior)}

\* The state that holds the change tells where to place it: that state itself, if its undo, the same merge
\* again, is the file now; or else, once the plain merge has refused, what the undo took out of it.
Redo ==
  /\ step = "undone"
  /\ IF now = before THEN now' = after /\ step' = "redone"
     ELSE IF Held /\ now = ofUndo /\ Clean THEN now' = prior /\ step' = "redone"
     ELSE \E B \in ChangesTo(before, after, now, after) :
            MergeStep(before, after, B, IF Held THEN PlacedBack ELSE {}, "redone", "redo refused")
  /\ UNCHANGED <<before, after, prior, taken, recorded, ofUndo>>

Next == Undo \/ Redo

Spec == Init /\ [][Next]_vars

-----------------------------------------------------------------------------
(* Properties.                                                             *)

TypeOK ==
  /\ before \in FileTexts /\ after \in FileTexts /\ prior \in FileTexts /\ recorded \in BOOLEAN
  /\ \A i \in DOMAIN now : now[i].end = "none" => i = Len(now)
  /\ step \in {"edited", "undone", "undo refused", "redone", "redo refused"}

\* "an undo followed at once by a redo puts the file back exactly as it was" (redoMerge), where what came
\* after the edit is recorded and the undo left more than the edit's text before: whatever the merge did,
\* with blank lines and terminators at the file's end too.
RedoRestores ==
  recorded /\ ofUndo # before /\ step \in {"redone", "redo refused"} => now = prior

\* The same of every undo, also one that left just the edit's text before: the redo then takes its clean
\* path, which writes the edit's text after.
RedoRestoresAlways == recorded /\ step \in {"redone", "redo refused"} => now = prior

Count(s, body) == Cardinality({i \in DOMAIN s : s[i].body = body})
Bodies == {l.body : l \in UNION {{s[i] : i \in DOMAIN s} : s \in {before, after, prior, now}}}

\* A merge makes each side's changes once: no line is lost, doubled, or glued to another.
Conserved ==
  step = "undone" => \A b \in Bodies : Count(now, b) + Count(after, b) = Count(prior, b) + Count(before, b)

\* An edit that did not touch how the file ends is undone without touching it: a final newline that came
\* or went after the edit stays as it is, also where the edit changed the last line.
EndingKept ==
  step = "undone" /\ before # <<>> /\ after # <<>> /\ now # <<>> /\ prior # <<>> /\ Ended(before) = Ended(after) =>
    Ended(now) = Ended(prior) \/ Last(now).body = ""

BodiesOf(s) == [i \in DOMAIN s |-> s[i].body]

\* The quick test never turns away a merge that can be made ("a test that is false when that merge must
\* refuse", mergeGuard).
GuardAgrees ==
  step = "edited" =>
    \A A \in ChangesTo(after, prior, prior, before), B \in ChangesTo(after, before, prior, before) :
      Merges(after, prior, before, A, B) # {} => MergeGuard(after, prior, before, B)

\* "Anchoring on base line positions (not fuzzy text search) makes it safe against duplicated content"
\* (threeWayMerge): a redo gives the file's lines as they were, each in its place, or refuses, also when what
\* came after the edit is not recorded.
RedoPlacesLines == step = "redone" => BodiesOf(now) = BodiesOf(prior)

=============================================================================
