------------------------------- MODULE Lines -------------------------------
(***************************************************************************)
(* Texts as sequences of lines: what changes between two of them, and how  *)
(* the changes of two sides are made to one (mergeLines, packages/core/    *)
(* src/merge.ts).                                                          *)
(***************************************************************************)
EXTENDS Integers, Sequences, FiniteSets

\* Pairs of equal lines, in order in both texts.
Chains(x, y) ==
  {M \in SUBSET {p \in (DOMAIN x) \X (DOMAIN y) : x[p[1]] = y[p[2]]} :
     \A p, q \in M : p[1] < q[1] <=> p[2] < q[2]}

\* diffArrays keeps the beginning the two have in common, and as many lines as can be kept; which of
\* them, when there is a choice, is left open.
Alignments(x, y) ==
  LET chains == Chains(x, y)
      common == {i \in (DOMAIN x) \cap (DOMAIN y) : \A j \in 1 .. i : x[j] = y[j]}
  IN  {M \in chains : (\A i \in common : <<i, i>> \in M) /\ \A N \in chains : Cardinality(N) <= Cardinality(M)}

\* The change between two lines that are kept, one after the other.
Gap(y, p, q) == [start |-> p[1], del |-> q[1] - p[1] - 1, ins |-> SubSeq(y, p[2] + 1, q[2] - 1)]

Neighbours(ends) ==
  {e \in ends \X ends : e[1][1] < e[2][1] /\ \A r \in ends : r[1] <= e[1][1] \/ r[1] >= e[2][1]}

\* Before the first line and after the last one the texts line up, too.
ChangesOf(x, y, M) ==
  LET ends == M \cup {<<0, 0>>, <<Len(x) + 1, Len(y) + 1>>}
  IN  {c \in {Gap(y, e[1], e[2]) : e \in Neighbours(ends)} : c.del > 0 \/ c.ins # <<>>}

TokenChanges(x, y) == {ChangesOf(x, y, M) : M \in Alignments(x, y)}

End(c) == c.start + c.del

\* Mutant: two insertions at one point.
OverlapsButInserts(a, b) == a.start < End(b) /\ b.start < End(a)

\* Two changes that cannot both be made: shared lines, one place for two insertions, or an insertion into
\* a run that is replaced.
Overlaps(a, b) ==
  \/ a.start < End(b) /\ b.start < End(a)
  \/ a.del = 0 /\ b.del = 0 /\ a.start = b.start

Text(changes) == IF changes = {} THEN <<>> ELSE (CHOOSE c \in changes : TRUE).ins

\* What is inserted where the i-th line ends: an insertion comes before what replaces the next lines.
Here(changes, i) ==
  Text({c \in changes : c.start = i /\ c.del = 0}) \o Text({c \in changes : c.start = i /\ c.del > 0})

\* Whether the i-th line is removed.
Gone(changes, i) == \E c \in changes : c.start < i /\ i <= End(c)

\* Both sides' changes made to a text, from its end to its beginning.
Made(base, changes) ==
  LET from[i \in 0 .. Len(base)] ==
        (IF i = 0 \/ Gone(changes, i) THEN <<>> ELSE <<base[i]>>) \o Here(changes, i)
          \o (IF i = Len(base) THEN <<>> ELSE from[i + 1])
  IN  from[0]

\* mergeLines: {} when some change of one side overlaps one of the other.
MergeLines(base, A, B) ==
  IF \E a \in A, b \in B : Overlaps(a, b) THEN {} ELSE {Made(base, A \cup B)}

=============================================================================
