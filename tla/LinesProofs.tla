---------------------------- MODULE LinesProofs ----------------------------
(***************************************************************************)
(* Proofs about what is made of a file's lines and records: Merge, for any *)
(* texts of terminated or unterminated lines, and Units, for any records.  *)
(*                                                                         *)
(* Whatever way two texts are lined up in, the changes read off it make    *)
(* the one into the other; a merge whose sides do not touch keeps every    *)
(* line of the one that the other has not taken out, and as many of each   *)
(* kind as it should; so an undo conserves what was written around the     *)
(* edit, and a redo puts back what it wrote.  Texts are compared by how    *)
(* many lines of a kind they have (Weight): a set S of lines stands for    *)
(* the kind.                                                               *)
(*                                                                         *)
(* Whatever the components of a run are, each step from records to units   *)
(* (runs, spans, folds, chains) splits sets of ids into unbroken sets; of  *)
(* these one is all before the other, so that what a unit begins and ends  *)
(* with is what its first and its last span do.                            *)
(*                                                                         *)
(* A split into unbroken sets is told by which neighbours it holds         *)
(* together (Together).  Two neighbours are in one span when edits on      *)
(* their two sides share code, in one fold when they are in one span or    *)
(* the file is gone between them; neither depends on what else is pending, *)
(* and the chains that make units are the same ones in any list of folds   *)
(* that has them.  So deciding whole units leaves the others.              *)
(*                                                                         *)
(* The provers have no induction over data: facts about what is computed   *)
(* one place after the other rest on the least and the greatest element    *)
(* of a set of numbers (LeastExists, NatInd, DownInd).                     *)
(***************************************************************************)
EXTENDS Merge, Units, TLAPS, SequenceTheorems, FiniteSetTheorems, FunctionTheorems, WellFoundedInduction

-----------------------------------------------------------------------------
(* Numbers.                                                                *)

\* A set of naturals has a least element.
LEMMA LeastExists ==
  ASSUME NEW S, S \subseteq Nat, S # {}
  PROVE  \E x \in S : \A y \in S : x <= y
<1> DEFINE Below == {1 .. k : k \in S}
           Sub == StrictSubsetOrdering(Nat)
<1>1. Below \subseteq FiniteSubsetsOf(Nat) /\ Below # {}
  <2>1. ASSUME NEW k \in S PROVE 1 .. k \in FiniteSubsetsOf(Nat)
    <3>1. k \in Int /\ 1 .. k \subseteq Nat
      OBVIOUS
    <3> QED BY <3>1, FS_Interval DEF FiniteSubsetsOf
  <2> QED BY <2>1
<1>2. PICK X \in Below : \A Y \in Below : <<Y, X>> \notin Sub
  <2> HIDE DEF Below, Sub
  <2> QED BY <1>1, WFMin, FS_StrictSubsetOrderingWellFounded DEF Sub
<1>3. PICK x \in S : X = 1 .. x
  OBVIOUS
<1>4. ASSUME NEW y \in S PROVE x <= y
  <2> SUFFICES ASSUME y < x PROVE FALSE
    BY <1>3
  <2>1. 1 .. y \subseteq 1 .. x /\ x \in 1 .. x /\ x \notin 1 .. y
    OBVIOUS
  <2>2. <<1 .. y, X>> \in Sub
    BY <2>1, <1>1, <1>3 DEF StrictSubsetOrdering
  <2> QED BY <2>2, <1>2
<1> QED BY <1>4

\* A set of naturals with an upper bound has a greatest element.
LEMMA GreatestExists ==
  ASSUME NEW n \in Nat, NEW S, S \subseteq 0 .. n, S # {}
  PROVE  \E x \in S : \A y \in S : x >= y
<1> DEFINE Up == {k \in Nat : \A y \in S : k >= y}
<1>1. Up # {} /\ Up \subseteq Nat
  <2>1. n \in Up
    OBVIOUS
  <2> QED BY <2>1
<1>2. PICK m \in Up : \A k \in Up : m <= k
  <2> HIDE DEF Up
  <2> QED BY <1>1, LeastExists
<1>3. m \in S
  <2> SUFFICES ASSUME m \notin S PROVE FALSE
    OBVIOUS
  <2>1. \A y \in S : m - 1 >= y /\ m - 1 \in Nat
    BY <1>2
  <2>2. m - 1 \in Up
    BY <2>1, <1>2
  <2> QED BY <2>2, <1>2
<1> QED BY <1>2, <1>3

\* A set that holds 0 and with a number the next holds every number.
LEMMA NatInd ==
  ASSUME NEW S, 0 \in S, \A n \in Nat : n \in S => n + 1 \in S
  PROVE  Nat \subseteq S
<1> DEFINE Out == Nat \ S
<1> SUFFICES ASSUME Out # {} PROVE FALSE
  OBVIOUS
<1>1. Out \subseteq Nat
  OBVIOUS
<1>2. PICK m \in Out : \A k \in Out : m <= k
  <2> HIDE DEF Out
  <2> QED BY <1>1, LeastExists
<1>3. m - 1 \in Nat /\ m - 1 \notin Out
  BY <1>2
<1> QED BY <1>2, <1>3

\* What holds at n, and of every place before one it holds at, holds from n down to 0.
LEMMA DownInd ==
  ASSUME NEW n \in Nat, NEW S, n \in S, \A i \in 0 .. n : i > 0 /\ i \in S => i - 1 \in S
  PROVE  0 .. n \subseteq S
<1> DEFINE D == {k \in Nat : k <= n => n - k \in S}
<1>1. 0 \in D
  OBVIOUS
<1>2. ASSUME NEW k \in Nat, k \in D PROVE k + 1 \in D
  <2> SUFFICES ASSUME k + 1 <= n PROVE n - (k + 1) \in S
    OBVIOUS
  <2>1. n - k \in S /\ n - k \in 0 .. n /\ n - k > 0
    BY <1>2
  <2>2. (n - k) - 1 \in S
    BY <2>1
  <2> QED BY <2>2
<1>3. Nat \subseteq D
  <2> HIDE DEF D
  <2> QED BY <1>1, <1>2, NatInd
<1>4. ASSUME NEW i \in 0 .. n PROVE i \in S
  <2>1. n - i \in D /\ n - i <= n
    BY <1>3
  <2>2. n - (n - i) \in S
    BY <2>1
  <2> QED BY <2>2
<1> QED BY <1>4

\* The least element, as Min chooses it.
LEMMA MinIs ==
  ASSUME NEW S, S \subseteq Nat, S # {}
  PROVE  Min(S) \in S /\ \A y \in S : Min(S) <= y
BY LeastExists DEF Min

\* The greatest, as Max chooses it, of a set that has an upper bound.
LEMMA MaxIs ==
  ASSUME NEW n \in Nat, NEW S, S \subseteq 1 .. n, S # {}
  PROVE  Max(S) \in S /\ \A y \in S : y <= Max(S)
<1>1. \E x \in S : \A y \in S : x >= y
  <2>1. S \subseteq 0 .. n
    OBVIOUS
  <2> QED BY <2>1, GreatestExists
<1>2. Max(S) \in S /\ \A y \in S : Max(S) >= y
  BY <1>1 DEF Max
<1>3. \A y \in S : y \in Nat
  OBVIOUS
<1> HIDE DEF Max
<1> QED BY <1>2, <1>3

-----------------------------------------------------------------------------
(* What the recursion of Made says of the function it defines.             *)

\* f[i] is what Made makes of base from line i on, line 0 standing for the place before the first.
IsFrom(f, base, C) ==
  f = [i \in 0 .. Len(base) |->
         (IF i = 0 \/ Gone(C, i) THEN <<>> ELSE <<base[i]>>) \o Here(C, i)
           \o (IF i = Len(base) THEN <<>> ELSE f[i + 1])]

\* The line itself, and the text from its end on.
LineOf(base, C, i) == IF i = 0 \/ Gone(C, i) THEN <<>> ELSE <<base[i]>>
\* What is made after line i and what stands right after it.
Rest(f, base, i) == IF i = Len(base) THEN <<>> ELSE f[i + 1]

\* There is such a function.
LEMMA FromExists ==
  ASSUME NEW base, Len(base) \in Nat, NEW C
  PROVE  \E f : IsFrom(f, base, C)
<1> DEFINE n == Len(base)
           A(i) == (IF i = 0 \/ Gone(C, i) THEN <<>> ELSE <<base[i]>>) \o Here(C, i)
           Is(f, k) == f = [i \in k .. n |-> A(i) \o (IF i = n THEN <<>> ELSE f[i + 1])]
           S == {k \in 0 .. n : \E f : Is(f, k)}
<1> HIDE DEF A
<1>1. n \in S
  <2> DEFINE h == [i \in n .. n |-> A(i) \o <<>>]
  <2>1. \A i \in n .. n : i = n
    OBVIOUS
  <2>2. h = [i \in n .. n |-> A(i) \o (IF i = n THEN <<>> ELSE h[i + 1])]
    BY <2>1
  <2>3. Is(h, n)
    <3> HIDE DEF h
    <3> QED BY <2>2
  <2>4. \E f : Is(f, n)
    <3> HIDE DEF h, Is
    <3> QED BY <2>3
  <2> QED BY <2>4
<1>2. ASSUME NEW k \in 0 .. n, k > 0, k \in S PROVE k - 1 \in S
  <2>1. PICK f : Is(f, k)
    BY <1>2
  <2> DEFINE g == [i \in k - 1 .. n |-> IF i = k - 1 THEN A(i) \o f[k] ELSE f[i]]
  <2>2. k - 1 \in 0 .. n /\ k - 1 # n
    BY <1>2
  <2>3. \A i \in k .. n : f[i] = A(i) \o (IF i = n THEN <<>> ELSE f[i + 1])
    BY <2>1
  <2>4. \A i \in k - 1 .. n : g[i] = A(i) \o (IF i = n THEN <<>> ELSE g[i + 1])
    <3> SUFFICES ASSUME NEW i \in k - 1 .. n PROVE g[i] = A(i) \o (IF i = n THEN <<>> ELSE g[i + 1])
      OBVIOUS
    <3>1. CASE i = k - 1
      <4>1. k \in k - 1 .. n /\ k # k - 1 /\ i + 1 = k /\ i # n
        BY <3>1, <2>2
      <4>2. g[k] = f[k] /\ g[i] = A(i) \o f[k]
        BY <3>1, <4>1
      <4> HIDE DEF g
      <4> QED BY <4>1, <4>2
    <3>2. CASE i # k - 1
      <4>1. i \in k .. n /\ g[i] = f[i] /\ (i # n => g[i + 1] = f[i + 1])
        BY <3>2, <2>2
      <4> QED BY <4>1, <2>3
    <3> QED BY <3>1, <3>2
  <2>5. Is(g, k - 1)
    <3>1. g = [i \in k - 1 .. n |-> g[i]]
      OBVIOUS
    <3> HIDE DEF g
    <3> QED BY <3>1, <2>4
  <2> QED BY <2>2, <2>5
<1>3. 0 \in S
  <2> HIDE DEF S
  <2> QED BY <1>1, <1>2, DownInd
<1> QED BY <1>3 DEF IsFrom, A

\* The text is what is inserted before the first line, and the rest.
LEMMA MadeIs ==
  ASSUME NEW base, Len(base) \in Nat, NEW C
  PROVE  \E f : IsFrom(f, base, C) /\ Made(base, C) = f[0]
<1> DEFINE g == CHOOSE f : IsFrom(f, base, C)
<1>1. IsFrom(g, base, C)
  BY FromExists
<1>2. Made(base, C) = g[0]
  BY DEF Made, IsFrom
<1> QED BY <1>1, <1>2

-----------------------------------------------------------------------------
(* The geometry of a diff: two lines that are kept, one right after the    *)
(* other, and what lies between them.                                      *)

\* The pairs of lines lined up, with one pair before and one after both texts; and two that are next to each other.
EndsOf(x, y, M) == M \cup {<<0, 0>>, <<Len(x) + 1, Len(y) + 1>>}

Beside(E, p, q) == p \in E /\ q \in E /\ p[1] < q[1] /\ \A r \in E : r[1] <= p[1] \/ r[1] >= q[1]

\* The ends are in the same order on both sides.
LEMMA EndsFacts ==
  ASSUME NEW V, NEW x \in Seq(V), NEW y \in Seq(V), NEW M \in Chains(x, y)
  PROVE  LET E == EndsOf(x, y, M)
         IN  /\ \A p \in E : p[1] \in 0 .. Len(x) + 1 /\ p[2] \in 0 .. Len(y) + 1
             /\ \A p, q \in E : p[1] < q[1] <=> p[2] < q[2]
             /\ \A p \in E : p[1] \in 1 .. Len(x) => p[2] \in 1 .. Len(y) /\ x[p[1]] = y[p[2]]
             /\ \A p \in E : p[1] = 0 => p[2] = 0
             /\ \A p \in E : p[1] = Len(x) + 1 => p[2] = Len(y) + 1
             /\ \E p \in E : p[1] = 0
             /\ \E p \in E : p[1] = Len(x) + 1
<1>1. Len(x) \in Nat /\ Len(y) \in Nat /\ DOMAIN x = 1 .. Len(x) /\ DOMAIN y = 1 .. Len(y)
  BY LenProperties
<1>2. \A p \in M : p[1] \in 1 .. Len(x) /\ p[2] \in 1 .. Len(y) /\ x[p[1]] = y[p[2]]
  BY <1>1 DEF Chains
<1>3. \A p, q \in M : p[1] < q[1] <=> p[2] < q[2]
  BY DEF Chains
<1> DEFINE a == <<0, 0>>
           b == <<Len(x) + 1, Len(y) + 1>>
<1>4. EndsOf(x, y, M) = M \cup {a, b}
  BY DEF EndsOf
<1>5. a[1] = 0 /\ a[2] = 0 /\ b[1] = Len(x) + 1 /\ b[2] = Len(y) + 1
  OBVIOUS
<1> HIDE DEF a, b
<1> QED BY <1>1, <1>2, <1>3, <1>4, <1>5

\* Every line is kept, or lies between two that are.
LEMMA Around ==
  ASSUME NEW V, NEW x \in Seq(V), NEW y \in Seq(V), NEW M \in Chains(x, y), NEW i \in 0 .. Len(x)
  PROVE  \E p, q : Beside(EndsOf(x, y, M), p, q) /\ p[1] <= i /\ i < q[1]
<1> DEFINE E == EndsOf(x, y, M)
           Low == {r[1] : r \in {s \in E : s[1] <= i}}
           High == {r[1] : r \in {s \in E : s[1] > i}}
<1>1. /\ Len(x) \in Nat
      /\ \A p \in E : p[1] \in 0 .. Len(x) + 1
      /\ \E p \in E : p[1] = 0
      /\ \E p \in E : p[1] = Len(x) + 1
  BY EndsFacts, LenProperties
<1> HIDE DEF E
<1>2. Low \subseteq 0 .. Len(x) + 1 /\ Low # {} /\ High \subseteq Nat /\ High # {}
  <2>1. PICK a, b \in E : a[1] = 0 /\ b[1] = Len(x) + 1
    BY <1>1
  <2>2. a \in {s \in E : s[1] <= i} /\ b \in {s \in E : s[1] > i}
    BY <1>1, <2>1
  <2>3. a[1] \in Low /\ b[1] \in High
    BY <2>2
  <2>4. Low \subseteq 0 .. Len(x) + 1
    BY <1>1
  <2>5. High \subseteq Nat
    BY <1>1
  <2> HIDE DEF Low, High
  <2> QED BY <2>3, <2>4, <2>5
<1>3. PICK l \in Low : \A k \in Low : l >= k
  <2>1. Len(x) + 1 \in Nat
    BY <1>1
  <2> HIDE DEF Low
  <2> QED BY <2>1, <1>2, GreatestExists
<1>4. PICK h \in High : \A k \in High : h <= k
  <2> HIDE DEF High
  <2> QED BY <1>2, LeastExists
<1>5. PICK p \in E : p[1] = l /\ l <= i
  OBVIOUS
<1>6. PICK q \in E : q[1] = h /\ h > i
  OBVIOUS
<1>7. \A r \in E : r[1] <= l \/ r[1] >= h
  BY <1>1, <1>3, <1>4
<1>8. Beside(E, p, q)
  BY <1>1, <1>5, <1>6, <1>7 DEF Beside
<1> QED BY <1>5, <1>6, <1>8 DEF E

\* A change is what lies between two neighbours, if anything does.
LEMMA ChangeIs ==
  ASSUME NEW V, NEW x \in Seq(V), NEW y \in Seq(V), NEW M \in Chains(x, y), NEW c
  PROVE  c \in ChangesOf(x, y, M) <=>
           \E p, q : Beside(EndsOf(x, y, M), p, q) /\ c = Gap(y, p, q) /\ (c.del > 0 \/ c.ins # <<>>)
<1> DEFINE E == EndsOf(x, y, M)
<1>1. ChangesOf(x, y, M) = {d \in {Gap(y, e[1], e[2]) : e \in Neighbours(E)} : d.del > 0 \/ d.ins # <<>>}
  BY DEF ChangesOf, EndsOf
<1> HIDE DEF E
<1>2. ASSUME NEW e \in Neighbours(E) PROVE Beside(E, e[1], e[2])
  BY DEF Neighbours, Beside
<1>3. ASSUME NEW p, NEW q, Beside(E, p, q)
      PROVE  <<p, q>> \in Neighbours(E) /\ <<p, q>>[1] = p /\ <<p, q>>[2] = q
  BY <1>3 DEF Neighbours, Beside
<1>4. ASSUME c \in ChangesOf(x, y, M)
      PROVE  \E p, q : Beside(E, p, q) /\ c = Gap(y, p, q) /\ (c.del > 0 \/ c.ins # <<>>)
  BY <1>1, <1>2, <1>4
<1>5. ASSUME NEW p, NEW q, Beside(E, p, q), c = Gap(y, p, q), c.del > 0 \/ c.ins # <<>>
      PROVE  c \in ChangesOf(x, y, M)
  <2>1. \E e \in Neighbours(E) : c = Gap(y, e[1], e[2])
    BY <1>3, <1>5, Zenon
  <2> QED BY <1>1, <1>5, <2>1
<1> QED BY <1>4, <1>5 DEF E

\* The lines it removes are lines of the one text, and what it inserts is of the other.
LEMMA GapFacts ==
  ASSUME NEW V, NEW x \in Seq(V), NEW y \in Seq(V), NEW M \in Chains(x, y),
         NEW p, NEW q, Beside(EndsOf(x, y, M), p, q)
  PROVE  LET c == Gap(y, p, q)
         IN  /\ p[1] \in 0 .. Len(x) /\ q[1] \in 1 .. Len(x) + 1 /\ p[1] < q[1]
             /\ p[2] \in 0 .. Len(y) /\ q[2] \in 1 .. Len(y) + 1 /\ p[2] < q[2]
             /\ c.start = p[1] /\ c.del = q[1] - p[1] - 1 /\ c.ins = SubSeq(y, p[2] + 1, q[2] - 1)
             /\ c.del \in Nat /\ End(c) = q[1] - 1
             /\ c.ins \in Seq(V) /\ Len(c.ins) = q[2] - p[2] - 1
<1> DEFINE E == EndsOf(x, y, M)
           c == Gap(y, p, q)
<1>1. Len(x) \in Nat /\ Len(y) \in Nat
  BY LenProperties
<1>2. p \in E /\ q \in E /\ p[1] < q[1]
  BY DEF Beside
<1>3. p[1] \in 0 .. Len(x) + 1 /\ p[2] \in 0 .. Len(y) + 1 /\ q[1] \in 0 .. Len(x) + 1 /\ q[2] \in 0 .. Len(y) + 1 /\ p[2] < q[2]
  BY <1>2, EndsFacts
<1>4. c.start = p[1] /\ c.del = q[1] - p[1] - 1 /\ c.ins = SubSeq(y, p[2] + 1, q[2] - 1)
  BY DEF Gap
<1>5. c.del \in Nat /\ End(c) = q[1] - 1
  <2>1. p[1] \in Int /\ q[1] \in Int /\ p[1] < q[1]
    BY <1>1, <1>2, <1>3
  <2> HIDE DEF c, E
  <2> QED BY <2>1, <1>4 DEF End
<1>6. \A k \in p[2] + 1 .. q[2] - 1 : y[k] \in V
  BY <1>1, <1>3, ElementOfSeq
<1>7. p[2] + 1 \in Int /\ q[2] - 1 \in Int
  BY <1>1, <1>3
<1>8. SubSeq(y, p[2] + 1, q[2] - 1) \in Seq(V) /\ Len(SubSeq(y, p[2] + 1, q[2] - 1)) = q[2] - p[2] - 1
  <2> DEFINE a == p[2] + 1
             b == q[2] - 1
  <2>0. p[2] \in Int /\ q[2] \in Int /\ p[2] < q[2]
    BY <1>1, <1>3
  <2>1. a \in Int /\ b \in Int /\ a <= b + 1 /\ q[2] - p[2] - 1 = b - a + 1
    BY <2>0, SMTT(30)
  <2> HIDE DEF E, a, b
  <2>2. SubSeq(y, a, b) \in Seq(V) /\ Len(SubSeq(y, a, b)) = IF a <= b THEN b - a + 1 ELSE 0
    BY <1>6, <2>1, SubSeqProperties DEF a, b
  <2>3. Len(SubSeq(y, a, b)) = b - a + 1
    BY <2>1, <2>2
  <2> QED BY <2>1, <2>2, <2>3 DEF a, b
<1>9. /\ p[1] \in 0 .. Len(x) /\ q[1] \in 1 .. Len(x) + 1 /\ p[1] < q[1]
      /\ p[2] \in 0 .. Len(y) /\ q[2] \in 1 .. Len(y) + 1 /\ p[2] < q[2]
  <2> HIDE DEF E
  <2> QED BY <1>1, <1>2, <1>3
<1>10. c.ins \in Seq(V) /\ Len(c.ins) = q[2] - p[2] - 1
  BY <1>4, <1>8, Zenon
<1> HIDE DEF c
<1> QED BY <1>4, <1>5, <1>9, <1>10 DEF c

\* The text of no change, and that of one.
LEMMA TextOfOne == Text({}) = <<>> /\ \A c : Text({c}) = c.ins
BY DEF Text

\* What a diff inserts after a line that is kept lies before the next such line in the other text; a line
\* that is not kept is gone, and nothing is inserted after it.
LEMMA HereOfDiff ==
  ASSUME NEW V, NEW x \in Seq(V), NEW y \in Seq(V), NEW M \in Chains(x, y), NEW i \in 0 .. Len(x),
         NEW p, NEW q, Beside(EndsOf(x, y, M), p, q), p[1] <= i, i < q[1]
  PROVE  LET C == ChangesOf(x, y, M)
         IN  /\ i = p[1] => Here(C, i) = SubSeq(y, p[2] + 1, q[2] - 1) /\ ~Gone(C, i)
             /\ i # p[1] => Here(C, i) = <<>> /\ Gone(C, i)
<1> DEFINE E == EndsOf(x, y, M)
           C == ChangesOf(x, y, M)
           g == Gap(y, p, q)
           Ins == {c \in C : c.start = i /\ c.del = 0}
           Reps == {c \in C : c.start = i /\ c.del > 0}
<1>1. \A r \in E : r[1] \in Int /\ r[2] \in Int
  BY EndsFacts
<1>2. \A r, s \in E : r[1] < s[1] <=> r[2] < s[2]
  BY EndsFacts
<1>3. /\ g.start = p[1] /\ g.del = q[1] - p[1] - 1 /\ g.ins = SubSeq(y, p[2] + 1, q[2] - 1)
      /\ g.del \in Nat /\ End(g) = q[1] - 1 /\ p[1] \in Int /\ q[1] \in Int /\ g.ins \in Seq(V)
  BY GapFacts
<1>4. g \in C <=> g.del > 0 \/ g.ins # <<>>
  <2>1. g \in C <=> \E r, s : Beside(E, r, s) /\ g = Gap(y, r, s) /\ (g.del > 0 \/ g.ins # <<>>)
    BY ChangeIs
  <2>2. Beside(E, p, q) /\ g = Gap(y, p, q)
    OBVIOUS
  <2> HIDE DEF g, E
  <2> QED BY <2>1, <2>2
<1>0. Beside(E, p, q) /\ i \in Int
  BY LenProperties
<1>5. ASSUME NEW c \in C
      PROVE  \E r, s : Beside(E, r, s) /\ c = Gap(y, r, s) /\ c.start = r[1] /\ End(c) = s[1] - 1
  <2>1. PICK r, s : Beside(E, r, s) /\ c = Gap(y, r, s)
    BY ChangeIs
  <2>2. c.start = r[1] /\ End(c) = s[1] - 1
    BY <2>1, GapFacts, SMTT(30)
  <2> QED BY <2>1, <2>2
<1>6. ASSUME NEW c \in C, c.start = p[1] PROVE c = g
  <2>1. PICK r, s : Beside(E, r, s) /\ c = Gap(y, r, s) /\ c.start = r[1]
    BY <1>5
  <2>2. r[1] = p[1] /\ s[1] = q[1]
    <3> HIDE DEF E, C
    <3> QED BY <1>0, <1>1, <1>6, <2>1 DEF Beside
  <2>3. r[2] = p[2] /\ s[2] = q[2]
    <3> HIDE DEF E, C
    <3> QED BY <1>0, <1>1, <1>2, <2>1, <2>2 DEF Beside
  <2> QED BY <2>1, <2>2, <2>3 DEF Gap
<1> HIDE DEF g
<1>7. CASE i = p[1]
  <2>1. ~Gone(C, i)
    <3> SUFFICES ASSUME NEW c \in C, c.start < i, i <= End(c) PROVE FALSE
      BY DEF Gone
    <3>1. PICK r, s : Beside(E, r, s) /\ c.start = r[1] /\ End(c) = s[1] - 1
      BY <1>5
    <3> HIDE DEF E, C
    <3> QED BY <1>0, <1>1, <1>7, <3>1 DEF Beside
  <2>2. Here(C, i) = g.ins
    <3>0. Here(C, i) = Text(Ins) \o Text(Reps)
      BY DEF Here
    <3>1. CASE g \in C /\ g.del = 0
      <4>1. Ins = {g} /\ Reps = {}
        BY <1>3, <1>6, <1>7, <3>1
      <4>2. Here(C, i) = g.ins \o <<>>
        BY <3>0, <4>1, TextOfOne, Zenon
      <4> QED BY <4>2, <1>3, ConcatEmptySeq
    <3>2. CASE g \in C /\ g.del # 0
      <4>1. Ins = {} /\ Reps = {g}
        BY <1>3, <1>6, <1>7, <3>2
      <4>2. Here(C, i) = <<>> \o g.ins
        BY <3>0, <4>1, TextOfOne, Zenon
      <4> QED BY <4>2, <1>3, ConcatEmptySeq
    <3>3. CASE g \notin C
      <4>1. Ins = {} /\ Reps = {}
        BY <1>3, <1>6, <1>7, <3>3
      <4>2. Here(C, i) = <<>> \o <<>> /\ g.ins = <<>>
        BY <3>0, <4>1, TextOfOne, <1>4, <3>3, Zenon
      <4> QED BY <4>2
    <3> QED BY <3>1, <3>2, <3>3
  <2> QED BY <1>3, <1>7, <2>1, <2>2
<1>8. CASE i # p[1]
  <2>1. Ins = {} /\ Reps = {}
    <3> SUFFICES ASSUME NEW c \in C, c.start = i PROVE FALSE
      OBVIOUS
    <3>1. PICK r, s : Beside(E, r, s) /\ c.start = r[1]
      BY <1>5
    <3> HIDE DEF E, C
    <3> QED BY <1>0, <1>1, <1>8, <3>1 DEF Beside
  <2>2. Here(C, i) = <<>> \o <<>>
    BY <2>1, TextOfOne, Zenon DEF Here
  <2>3. g \in C /\ g.start < i /\ i <= End(g)
    BY <1>0, <1>3, <1>4, <1>8, SMTT(30)
  <2> QED BY <2>2, <2>3, <1>8 DEF Gone
<1> QED BY <1>7, <1>8

-----------------------------------------------------------------------------
(* What is made of a text.                                                 *)

\* Line by line: what is made from a line on is the line, what comes after it, and the rest.
LEMMA FromHere ==
  ASSUME NEW base, NEW C, NEW f, IsFrom(f, base, C), NEW i \in 0 .. Len(base)
  PROVE  f[i] = LineOf(base, C, i) \o Here(C, i) \o Rest(f, base, i)
<1>1. f[i] = LineOf(base, C, i) \o Here(C, i) \o (IF i = Len(base) THEN <<>> ELSE f[i + 1])
  BY DEF IsFrom, LineOf
<1> QED BY <1>1 DEF Rest

\* The rest after a line is what is made from the next one on.
LEMMA FromStep ==
  ASSUME NEW base, Len(base) \in Nat, NEW C, NEW f, IsFrom(f, base, C), NEW i \in 0 .. Len(base)
  PROVE  /\ f[i] = LineOf(base, C, i) \o Here(C, i) \o Rest(f, base, i)
         /\ i > 0 => Rest(f, base, i - 1) = f[i]
         /\ Rest(f, base, Len(base)) = <<>>
<1>1. i > 0 => i - 1 # Len(base) /\ (i - 1) + 1 = i
  OBVIOUS
<1>2. f[i] = LineOf(base, C, i) \o Here(C, i) \o Rest(f, base, i)
  BY FromHere, Zenon
<1> QED BY <1>1, <1>2 DEF Rest

\* Each change inserts lines of V.
Inserts(C, V) == \A c \in C : c.ins \in Seq(V)

\* The text inserted at a place is of their lines.
LEMMA TextTyped ==
  ASSUME NEW V, NEW D, Inserts(D, V)
  PROVE  Text(D) \in Seq(V)
<1>1. CASE D = {}
  BY <1>1, EmptySeq DEF Text
<1>2. CASE D # {}
  <2>1. (CHOOSE c \in D : TRUE) \in D
    BY <1>2
  <2>2. Text(D) = (CHOOSE c \in D : TRUE).ins
    BY <1>2, Zenon DEF Text
  <2> QED BY <2>1, <2>2 DEF Inserts
<1> QED BY <1>1, <1>2

\* And so is what is inserted after a line.
LEMMA HereTyped ==
  ASSUME NEW V, NEW C, Inserts(C, V), NEW i
  PROVE  Here(C, i) \in Seq(V)
<1> DEFINE Ins == {c \in C : c.start = i /\ c.del = 0}
           Reps == {c \in C : c.start = i /\ c.del > 0}
<1>1. Inserts(Ins, V) /\ Inserts(Reps, V)
  BY DEF Inserts
<1>2. Here(C, i) = Text(Ins) \o Text(Reps)
  BY DEF Here
<1> HIDE DEF Ins, Reps
<1> QED BY <1>1, <1>2, TextTyped, ConcatProperties

\* Its lines are lines of the text, and lines inserted.
LEMMA RestTyped ==
  ASSUME NEW V, NEW base \in Seq(V), NEW C, Inserts(C, V), NEW f, IsFrom(f, base, C)
  PROVE  \A i \in 0 .. Len(base) : f[i] \in Seq(V) /\ Rest(f, base, i) \in Seq(V)
<1> DEFINE n == Len(base)
           S == {i \in 0 .. n : Rest(f, base, i) \in Seq(V)}
<1>1. n \in Nat
  BY LenProperties
<1>2. ASSUME NEW i \in 0 .. n, Rest(f, base, i) \in Seq(V) PROVE f[i] \in Seq(V)
  <2> DEFINE a == LineOf(base, C, i)
             h == Here(C, i)
             r == Rest(f, base, i)
  <2>1. a \in Seq(V)
    BY <1>1, ElementOfSeq, EmptySeq DEF LineOf
  <2>2. h \in Seq(V) /\ r \in Seq(V)
    BY <1>2, HereTyped
  <2>3. f[i] = a \o h \o r
    BY <1>1, FromStep
  <2> HIDE DEF a, h, r
  <2>4. a \o h \in Seq(V)
    BY <2>1, <2>2, ConcatProperties
  <2> QED BY <2>2, <2>3, <2>4, ConcatProperties
<1>3. n \in S
  BY <1>1, EmptySeq DEF Rest
<1>4. ASSUME NEW i \in 0 .. n, i > 0, i \in S PROVE i - 1 \in S
  <2>1. Rest(f, base, i - 1) = f[i]
    BY <1>1, <1>4, FromStep
  <2> QED BY <1>1, <1>2, <1>4, <2>1
<1>5. 0 .. n \subseteq S
  <2> HIDE DEF S, n
  <2> QED BY <1>1, <1>3, <1>4, DownInd
<1> QED BY <1>2, <1>5

\* What changes make of a text of such lines is such a text.
LEMMA MadeTyped ==
  ASSUME NEW V, NEW base \in Seq(V), NEW C, Inserts(C, V)
  PROVE  Made(base, C) \in Seq(V)
<1>1. Len(base) \in Nat
  BY LenProperties
<1>2. PICK f : IsFrom(f, base, C) /\ Made(base, C) = f[0]
  BY <1>1, MadeIs
<1> QED BY <1>1, <1>2, RestTyped

\* The changes read off an alignment insert lines of the second text.
LEMMA DiffInserts ==
  ASSUME NEW V, NEW x \in Seq(V), NEW y \in Seq(V), NEW M \in Chains(x, y)
  PROVE  Inserts(ChangesOf(x, y, M), V)
<1> SUFFICES ASSUME NEW c \in ChangesOf(x, y, M) PROVE c.ins \in Seq(V)
  BY DEF Inserts
<1>1. PICK p, q : Beside(EndsOf(x, y, M), p, q) /\ c = Gap(y, p, q)
  BY ChangeIs
<1> QED BY <1>1, GapFacts

\* Where a run of lines that are not lined up begins, the new ones are inserted.
LEMMA HereOfEnd ==
  ASSUME NEW V, NEW x \in Seq(V), NEW y \in Seq(V), NEW M \in Chains(x, y), NEW p, NEW q, Beside(EndsOf(x, y, M), p, q)
  PROVE  Here(ChangesOf(x, y, M), p[1]) = SubSeq(y, p[2] + 1, q[2] - 1)
<1> DEFINE i == p[1]
<1>1. i \in 0 .. Len(x) /\ p[1] <= i /\ i < q[1] /\ i = p[1]
  <2>1. p[1] \in 0 .. Len(x) /\ p[1] < q[1]
    BY GapFacts
  <2> QED BY <2>1, LenProperties
<1> HIDE DEF i
<1>2. Here(ChangesOf(x, y, M), i) = SubSeq(y, p[2] + 1, q[2] - 1)
  BY <1>1, HereOfDiff
<1> QED BY <1>1, <1>2

\* Whichever lines a diff aligns: its changes, made to the one text, give the other (tokenChanges, mergeLines).
THEOREM DiffApplies ==
  ASSUME NEW V, NEW x \in Seq(V), NEW y \in Seq(V), NEW M \in Chains(x, y)
  PROVE  Made(x, ChangesOf(x, y, M)) = y
<1> DEFINE n == Len(x)
           m == Len(y)
           E == EndsOf(x, y, M)
           C == ChangesOf(x, y, M)
<1>1. n \in Nat /\ m \in Nat
  BY LenProperties
<1>2. PICK f : IsFrom(f, x, C) /\ Made(x, C) = f[0]
  BY <1>1, MadeIs
<1> DEFINE R(i) == Rest(f, x, i)
           S == {i \in 0 .. n : \A p, q : Beside(E, p, q) /\ p[1] <= i /\ i < q[1] => R(i) = SubSeq(y, q[2], m)}
<1>3. n \in S
  <2> SUFFICES ASSUME NEW p, NEW q, Beside(E, p, q), n < q[1] PROVE R(n) = SubSeq(y, q[2], m)
    BY <1>1
  <2>1. R(n) = <<>>
    BY DEF Rest
  <2>2. q \in E /\ q[1] \in 1 .. n + 1
    <3>1. q \in E
      BY DEF Beside
    <3> QED BY <3>1, GapFacts
  <2>3. q[1] = n + 1
    BY <1>1, <2>2
  <2>4. q[2] = m + 1
    BY <2>2, <2>3, EndsFacts
  <2>5. SubSeq(y, m + 1, m) = <<>>
    BY <1>1, SubSeqEmpty
  <2> QED BY <2>1, <2>4, <2>5
<1>4. ASSUME NEW i \in 0 .. n, NEW p, NEW q, Beside(E, p, q), p[1] = i, R(i) = SubSeq(y, q[2], m)
      PROVE  Here(C, i) \o R(i) = SubSeq(y, p[2] + 1, m)
  <2>1. /\ p[1] < q[1] /\ q[1] \in 1 .. n + 1
        /\ p[2] \in 0 .. m /\ q[2] \in 1 .. m + 1 /\ p[2] < q[2]
    BY <1>4, GapFacts, SMTT(30)
  <2>2. Here(C, i) = SubSeq(y, p[2] + 1, q[2] - 1)
    <3>1. Beside(EndsOf(x, y, M), p, q) /\ i = p[1]
      BY <1>4
    <3>2. Here(ChangesOf(x, y, M), p[1]) = SubSeq(y, p[2] + 1, q[2] - 1)
      BY <3>1, HereOfEnd
    <3> QED BY <3>1, <3>2
  <2> DEFINE a == p[2] + 1
             k == q[2] - 1
  <2>3. a \in 1 .. m + 1 /\ k \in a - 1 .. m /\ m \in k .. m /\ q[2] = k + 1
    BY <1>1, <2>1, SMTT(30)
  <2> HIDE DEF a, k, m
  <2>4. SubSeq(y, a, k) \o SubSeq(y, k + 1, m) = SubSeq(y, a, m)
    BY <2>3, ConcatAdjacentSubSeq DEF m
  <2> QED BY <1>4, <2>2, <2>3, <2>4 DEF a, k
<1>5. Inserts(C, V)
  BY DiffInserts
<1>6. \A i \in 0 .. n : R(i) \in Seq(V) /\ Here(C, i) \in Seq(V)
  BY <1>2, <1>5, RestTyped, HereTyped
<1>7. ASSUME NEW i \in 0 .. n, i > 0, i \in S PROVE i - 1 \in S
  <2> SUFFICES ASSUME NEW p, NEW q, Beside(E, p, q), p[1] <= i - 1, i - 1 < q[1]
               PROVE  R(i - 1) = SubSeq(y, q[2], m)
    BY <1>1, <1>7
  <2>0. R(i - 1) = f[i]
    BY <1>1, <1>2, <1>7, FromStep
  <2>1. f[i] = LineOf(x, C, i) \o Here(C, i) \o R(i)
    <3>1. i \in 0 .. Len(x) /\ IsFrom(f, x, C)
      BY <1>2, <1>7
    <3> HIDE DEF C
    <3> QED BY <3>1, FromHere, Zenon
  <2>2. p[1] \in 0 .. n /\ q[1] \in 1 .. n + 1 /\ p[1] < q[1] /\ q[2] \in 1 .. m + 1
    BY GapFacts
  <2>3. CASE q[1] = i
    <3>1. PICK r, s : Beside(E, r, s) /\ r[1] <= i /\ i < s[1]
      BY Around
    <3>2. q \in E /\ r \in E /\ r[1] \in Int /\ r[1] >= q[1]
      <4>1. q \in E /\ r \in E /\ (q[1] <= r[1] \/ q[1] >= s[1])
        BY <3>1 DEF Beside
      <4>2. r[1] \in Int /\ s[1] \in Int
        BY <3>1, GapFacts
      <4> QED BY <2>2, <2>3, <3>1, <4>1, <4>2
    <3>3. r[1] = i
      BY <2>3, <3>1, <3>2
    <3>4. R(i) = SubSeq(y, s[2], m)
      BY <1>7, <3>1
    <3>5. Here(C, i) \o R(i) = SubSeq(y, r[2] + 1, m)
      BY <1>4, <3>1, <3>3, <3>4
    <3>6. r[2] = q[2]
      <4>1. r[2] \in Int /\ q[2] \in Int /\ (r[1] < q[1] <=> r[2] < q[2]) /\ (q[1] < r[1] <=> q[2] < r[2])
        BY <3>2, EndsFacts
      <4> QED BY <2>3, <3>3, <4>1
    <3>7. q[2] \in 1 .. m /\ x[i] = y[q[2]] /\ x[i] \in V
      <4>1. i \in 1 .. Len(x) /\ q[1] \in 1 .. Len(x)
        BY <1>1, <1>7, <2>3
      <4>2. q[2] \in 1 .. Len(y) /\ x[q[1]] = y[q[2]]
        BY <3>2, <4>1, EndsFacts
      <4> QED BY <2>3, <4>1, <4>2, ElementOfSeq
    <3>8. ~Gone(C, i)
      BY <3>1, <3>3, HereOfDiff
    <3>9. f[i] = <<y[q[2]]>> \o Here(C, i) \o R(i)
      <4>1. i # 0
        BY <1>7
      <4>2. LineOf(x, C, i) = <<y[q[2]]>>
        BY <4>1, <3>7, <3>8 DEF LineOf
      <4> QED BY <4>2, <2>1, Zenon
    <3> DEFINE a == <<y[q[2]]>>
    <3>10. a \in Seq(V) /\ Here(C, i) \in Seq(V) /\ R(i) \in Seq(V)
      BY <1>6, <3>7
    <3>11. f[i] = a \o (Here(C, i) \o R(i))
      <4> HIDE DEF a, R, C
      <4> QED BY <3>9, <3>10, ConcatAssociative, SMTT(30) DEF a
    <3>12. f[i] = a \o SubSeq(y, q[2] + 1, m)
      BY <3>5, <3>6, <3>11
    <3>13. SubSeq(y, q[2], m) = a \o SubSeq(y, q[2] + 1, m)
      <4>1. m \in q[2] .. Len(y)
        BY <1>1, <3>7
      <4> QED BY <3>7, <4>1, SubSeqRecursiveFirst
    <3> QED BY <2>0, <3>12, <3>13
  <2>4. CASE q[1] # i
    <3>1. p[1] <= i /\ i < q[1] /\ i # p[1]
      BY <1>1, <2>2, <2>4
    <3>2. Here(C, i) = <<>> /\ Gone(C, i)
      BY <3>1, HereOfDiff
    <3>3. R(i) = SubSeq(y, q[2], m)
      BY <1>7, <3>1
    <3>4. f[i] = <<>> \o <<>> \o R(i)
      <4>1. LineOf(x, C, i) = <<>>
        BY <3>2 DEF LineOf
      <4> QED BY <4>1, <2>1, <3>2, Zenon
    <3>5. f[i] = R(i)
      <4> HIDE DEF R
      <4> QED BY <1>6, <3>4, ConcatEmptySeq
    <3> QED BY <2>0, <3>3, <3>5
  <2> QED BY <2>3, <2>4
<1>8. 0 .. n \subseteq S
  <2> HIDE DEF S, n
  <2> QED BY <1>1, <1>3, <1>7, DownInd
<1>9. PICK p, q : Beside(E, p, q) /\ p[1] <= 0 /\ 0 < q[1]
  <2>1. 0 \in 0 .. Len(x)
    BY <1>1
  <2> QED BY <2>1, Around
<1>10. p[1] = 0 /\ p[2] = 0
  BY <1>9, GapFacts, EndsFacts DEF Beside
<1>11. Here(C, 0) \o R(0) = SubSeq(y, 1, m)
  <2>1. R(0) = SubSeq(y, q[2], m)
    BY <1>1, <1>8, <1>9
  <2>0. 0 \in 0 .. n
    BY <1>1
  <2>2. Here(C, 0) \o R(0) = SubSeq(y, p[2] + 1, m)
    BY <1>4, <1>9, <1>10, <2>0, <2>1
  <2> QED BY <1>10, <2>2
<1>12. f[0] = <<>> \o Here(C, 0) \o R(0)
  <2>1. f[0] = LineOf(x, C, 0) \o Here(C, 0) \o R(0)
    BY <1>1, <1>2, FromStep
  <2>2. LineOf(x, C, 0) = <<>>
    BY DEF LineOf
  <2> QED BY <2>1, <2>2, Zenon
<1>13. f[0] = Here(C, 0) \o R(0)
  <2> HIDE DEF R, C
  <2>1. Here(C, 0) \in Seq(V)
    BY <1>1, <1>6
  <2> QED BY <2>1, <1>12, ConcatEmptySeq
<1> QED BY <1>2, <1>11, <1>13, SubSeqFull

-----------------------------------------------------------------------------
(* How many of a text's lines are of a kind.                               *)

\* The places of a text that have a line of the kind S, and how many they are.
Of(s, S) == {i \in DOMAIN s : s[i] \in S}
Weight(s, S) == Cardinality(Of(s, S))

\* A text has finitely many.
LEMMA WeightNat ==
  ASSUME NEW V, NEW s \in Seq(V), NEW S
  PROVE  IsFiniteSet(Of(s, S)) /\ Weight(s, S) \in Nat
<1>1. DOMAIN s = 1 .. Len(s) /\ Len(s) \in Nat
  BY LenProperties
<1>2. IsFiniteSet(1 .. Len(s))
  BY <1>1, FS_Interval
<1>3. Of(s, S) \in SUBSET (1 .. Len(s))
  BY <1>1 DEF Of
<1> QED BY <1>2, <1>3, FS_Subset, FS_CardinalityType DEF Weight

\* The empty text has none; a text of lines that are all of the kind has as many as it has lines.
LEMMA WeightAll ==
  ASSUME NEW V, NEW s \in Seq(V), NEW S
  PROVE  Weight(<<>>, S) = 0 /\ (V \subseteq S => Weight(s, S) = Len(s))
<1>1. Of(<<>>, S) = {}
  BY DEF Of
<1>2. Weight(<<>>, S) = 0
  BY <1>1, FS_EmptySet DEF Weight
<1>3. ASSUME V \subseteq S PROVE Weight(s, S) = Len(s)
  <2>1. DOMAIN s = 1 .. Len(s) /\ Len(s) \in Nat
    BY LenProperties
  <2>2. Of(s, S) = 1 .. Len(s)
    BY <1>3, <2>1, ElementOfSeq DEF Of
  <2> QED BY <2>1, <2>2, FS_Interval, SMTT(30) DEF Weight
<1> QED BY <1>2, <1>3

\* Two texts together have as many as the two have.
LEMMA WeightConcat ==
  ASSUME NEW V, NEW s \in Seq(V), NEW t \in Seq(V), NEW S
  PROVE  Weight(s \o t, S) = Weight(s, S) + Weight(t, S)
<1> DEFINE n == Len(s)
           I == Of(s, S)
           J == Of(t, S)
           K == {n + i : i \in J}
           f == [i \in J |-> n + i]
<1>1. n \in Nat /\ Len(t) \in Nat /\ DOMAIN s = 1 .. n /\ DOMAIN t = 1 .. Len(t)
  BY LenProperties
<1>2. DOMAIN (s \o t) = 1 .. n + Len(t)
  <2>1. s \o t \in Seq(V) /\ Len(s \o t) = n + Len(t)
    BY ConcatProperties
  <2> QED BY <2>1, LenProperties
<1>3. \A i \in 1 .. n + Len(t) : (s \o t)[i] = IF i <= n THEN s[i] ELSE t[i - n]
  BY ConcatProperties
<1>4. I \subseteq 1 .. n /\ J \subseteq 1 .. Len(t)
  BY <1>1 DEF Of
<1>5. Of(s \o t, S) = I \cup K
  <2> DEFINE st == s \o t
  <2>1. ASSUME NEW i \in 1 .. n + Len(t), st[i] \in S PROVE i \in I \cup K
    <3>1. CASE i <= n
      BY <1>1, <1>3, <2>1, <3>1 DEF Of
    <3>2. CASE i > n
      <4>1. i - n \in 1 .. Len(t) /\ t[i - n] \in S /\ i = n + (i - n)
        BY <1>1, <1>3, <2>1, <3>2
      <4>2. i - n \in J
        BY <1>1, <4>1 DEF Of
      <4> QED BY <4>1, <4>2
    <3> QED BY <1>1, <3>1, <3>2
  <2>2. ASSUME NEW i \in I PROVE i \in 1 .. n + Len(t) /\ st[i] \in S
    BY <1>1, <1>3, <1>4 DEF Of
  <2>3. ASSUME NEW j \in J PROVE n + j \in 1 .. n + Len(t) /\ st[n + j] \in S
    <3>1. j \in 1 .. Len(t) /\ t[j] \in S
      BY <1>1 DEF Of
    <3>2. n + j \in 1 .. n + Len(t) /\ ~(n + j <= n) /\ (n + j) - n = j
      BY <1>1, <3>1
    <3> QED BY <1>3, <3>1, <3>2
  <2>4. Of(st, S) = {i \in 1 .. n + Len(t) : st[i] \in S}
    BY <1>2 DEF Of
  <2>5. ASSUME NEW k \in K PROVE k \in 1 .. n + Len(t) /\ st[k] \in S
    <3>1. PICK j \in J : k = n + j
      OBVIOUS
    <3> HIDE DEF J, st
    <3> QED BY <3>1, <2>3
  <2>6. \A k : k \in I \cup K <=> k \in 1 .. n + Len(t) /\ st[k] \in S
    <3> HIDE DEF st, I, K
    <3> QED BY <2>1, <2>2, <2>5
  <2> DEFINE Whole == Of(st, S)
  <2>7. \A k : k \in Whole <=> k \in I \cup K
    <3> HIDE DEF st, I, K
    <3> QED BY <2>4, <2>6
  <2>8. Whole = I \cup K
    <3> HIDE DEF Whole, I, K
    <3> QED BY <2>7
  <2> QED BY <2>8
<1>6. IsFiniteSet(I) /\ IsFiniteSet(J) /\ Weight(s, S) = Cardinality(I) /\ Weight(t, S) = Cardinality(J)
  BY WeightNat DEF Weight
<1>7. IsFiniteSet(K) /\ Cardinality(K) = Cardinality(J)
  <2>1. \A i \in J : i \in Int
    BY <1>1, <1>4
  <2> HIDE DEF J
  <2>2. f \in Bijection(J, K)
    <3>1. f \in [J -> K]
      OBVIOUS
    <3>2. \A a, b \in J : f[a] = f[b] => a = b
      BY <1>1, <2>1
    <3>3. \A b \in K : \E a \in J : f[a] = b
      OBVIOUS
    <3> HIDE DEF f, K
    <3> QED BY <3>1, <3>2, <3>3, Fun_IsBij
  <2>3. ExistsBijection(J, K)
    BY <2>2 DEF ExistsBijection
  <2> QED BY <1>6, <2>3, FS_Bijection
<1>8. I \cap K = {}
  BY <1>1, <1>4
<1>9. Cardinality(I \cup K) = Cardinality(I) + Cardinality(K) - Cardinality(I \cap K)
  BY <1>6, <1>7, FS_Union
<1>10. Cardinality(I) \in Nat /\ Cardinality(J) \in Nat
  BY <1>6, FS_CardinalityType
<1> HIDE DEF I, J, K
<1>11. Cardinality(I \cup K) = Cardinality(I) + Cardinality(J)
  <2>1. Cardinality(I \cap K) = 0
    BY <1>8, FS_EmptySet, Zenon
  <2> QED BY <1>7, <1>9, <1>10, <2>1
<1> QED BY <1>5, <1>6, <1>11 DEF Weight


\* The line from a place on, by its parts.
LEMMA FromWeight ==
  ASSUME NEW V, NEW base \in Seq(V), NEW C, Inserts(C, V), NEW f, IsFrom(f, base, C), NEW i \in 0 .. Len(base), NEW S
  PROVE  /\ Weight(f[i], S) = Weight(LineOf(base, C, i), S) + Weight(Here(C, i), S) + Weight(Rest(f, base, i), S)
         /\ Weight(LineOf(base, C, i), S) \in Nat /\ Weight(Here(C, i), S) \in Nat
         /\ Weight(Rest(f, base, i), S) \in Nat
<1> DEFINE a == LineOf(base, C, i)
           h == Here(C, i)
           r == Rest(f, base, i)
<1>1. Len(base) \in Nat
  BY LenProperties
<1>2. a \in Seq(V)
  BY <1>1, ElementOfSeq, EmptySeq DEF LineOf
<1>3. h \in Seq(V) /\ r \in Seq(V)
  BY RestTyped, HereTyped
<1>4. f[i] = a \o h \o r
  <2> HIDE DEF a, h, r
  <2>1. f[i] = LineOf(base, C, i) \o Here(C, i) \o Rest(f, base, i)
    BY FromHere, Zenon
  <2> QED BY <2>1, Zenon DEF a, h, r
<1> HIDE DEF a, h, r
<1>5. a \o h \in Seq(V) /\ Weight(a \o h, S) = Weight(a, S) + Weight(h, S)
  BY <1>2, <1>3, ConcatProperties, WeightConcat
<1>6. Weight(f[i], S) = Weight(a \o h, S) + Weight(r, S)
  <2> DEFINE ah == a \o h
  <2>1. f[i] = ah \o r /\ ah \in Seq(V)
    BY <1>4, <1>5
  <2> HIDE DEF ah
  <2>2. Weight(ah \o r, S) = Weight(ah, S) + Weight(r, S)
    BY <1>3, <2>1, WeightConcat
  <2> QED BY <2>1, <2>2, Zenon DEF ah
<1>7. Weight(a, S) \in Nat /\ Weight(h, S) \in Nat /\ Weight(r, S) \in Nat
  BY <1>2, <1>3, WeightNat
<1> QED BY <1>5, <1>6, <1>7 DEF a, h, r

\* Changes whose place and length are numbers; two sides' changes that can all be made.
Placed(C) == \A c \in C : c.start \in Int /\ c.del \in Nat
\* No change of the one side overlaps one of the other.
Apart(A, B) == \A a \in A, b \in B : ~Overlaps(a, b)

\* What either side inserts somewhere, the two together insert.
LEMMA TextUnion ==
  ASSUME NEW V, NEW D, NEW E, Inserts(D, V), Inserts(E, V), D = {} \/ E = {}, NEW S
  PROVE  Weight(Text(D \cup E), S) = Weight(Text(D), S) + Weight(Text(E), S)
<1>1. Text({}) = <<>> /\ Weight(<<>>, S) = 0
  BY TextOfOne, WeightAll, EmptySeq
<1>2. Weight(Text(D), S) \in Nat /\ Weight(Text(E), S) \in Nat
  BY TextTyped, WeightNat
<1>3. CASE D = {}
  <2>1. D \cup E = E
    BY <1>3
  <2> QED BY <1>1, <1>2, <1>3, <2>1
<1>4. CASE E = {}
  <2>1. D \cup E = D
    BY <1>4
  <2> QED BY <1>1, <1>2, <1>4, <2>1
<1> QED BY <1>3, <1>4

\* After the i-th line, two sides' changes insert what each of them inserts.
LEMMA HereUnion ==
  ASSUME NEW V, NEW A, NEW B, Inserts(A, V), Inserts(B, V), Placed(A), Placed(B), Apart(A, B), NEW i \in Int, NEW S
  PROVE  Weight(Here(A \cup B, i), S) = Weight(Here(A, i), S) + Weight(Here(B, i), S)
<1> DEFINE Ins(C) == {c \in C : c.start = i /\ c.del = 0}
           Reps(C) == {c \in C : c.start = i /\ c.del > 0}
<1>1. ASSUME NEW C, Inserts(C, V)
      PROVE  /\ Inserts(Ins(C), V) /\ Inserts(Reps(C), V)
             /\ Here(C, i) = Text(Ins(C)) \o Text(Reps(C))
             /\ Weight(Here(C, i), S) = Weight(Text(Ins(C)), S) + Weight(Text(Reps(C)), S)
             /\ Weight(Text(Ins(C)), S) \in Nat /\ Weight(Text(Reps(C)), S) \in Nat
  <2>1. Inserts(Ins(C), V) /\ Inserts(Reps(C), V)
    BY <1>1 DEF Inserts
  <2>2. Here(C, i) = Text(Ins(C)) \o Text(Reps(C))
    BY DEF Here
  <2>3. Text(Ins(C)) \in Seq(V) /\ Text(Reps(C)) \in Seq(V)
    BY <2>1, TextTyped
  <2> HIDE DEF Ins, Reps
  <2> QED BY <2>1, <2>2, <2>3, WeightConcat, WeightNat
<1>2. Ins(A \cup B) = Ins(A) \cup Ins(B) /\ Reps(A \cup B) = Reps(A) \cup Reps(B)
  OBVIOUS
<1>3. Ins(A) = {} \/ Ins(B) = {}
  BY DEF Apart, Overlaps
<1>4. Reps(A) = {} \/ Reps(B) = {}
  <2> SUFFICES ASSUME NEW a \in Reps(A), NEW b \in Reps(B) PROVE FALSE
    OBVIOUS
  <2>1. a.start \in Int /\ a.del \in Nat /\ b.start \in Int /\ b.del \in Nat
    BY DEF Placed
  <2> QED BY <2>1 DEF Apart, Overlaps, End
<1>5. Inserts(A \cup B, V)
  BY DEF Inserts
<1> HIDE DEF Ins, Reps
<1>6. Weight(Text(Ins(A) \cup Ins(B)), S) = Weight(Text(Ins(A)), S) + Weight(Text(Ins(B)), S)
  <2>1. Inserts(Ins(A), V) /\ Inserts(Ins(B), V)
    BY <1>1
  <2> QED BY <1>3, <2>1, TextUnion
<1>7. Weight(Text(Reps(A) \cup Reps(B)), S) = Weight(Text(Reps(A)), S) + Weight(Text(Reps(B)), S)
  <2>1. Inserts(Reps(A), V) /\ Inserts(Reps(B), V)
    BY <1>1
  <2> QED BY <1>4, <2>1, TextUnion
<1>8. Weight(Here(A \cup B, i), S) = Weight(Text(Ins(A) \cup Ins(B)), S) + Weight(Text(Reps(A) \cup Reps(B)), S)
  <2> DEFINE C == A \cup B
  <2>1. Inserts(C, V) /\ Ins(C) = Ins(A) \cup Ins(B) /\ Reps(C) = Reps(A) \cup Reps(B)
    BY <1>2, <1>5
  <2> HIDE DEF C
  <2>2. Weight(Here(C, i), S) = Weight(Text(Ins(C)), S) + Weight(Text(Reps(C)), S)
    BY <1>1, <2>1
  <2>3. Weight(Here(C, i), S) = Weight(Text(Ins(A) \cup Ins(B)), S) + Weight(Text(Reps(A) \cup Reps(B)), S)
    BY <2>1, <2>2, Zenon
  <2> QED BY <2>3 DEF C
<1> DEFINE w1 == Weight(Text(Ins(A)), S)
           w2 == Weight(Text(Ins(B)), S)
           w3 == Weight(Text(Reps(A)), S)
           w4 == Weight(Text(Reps(B)), S)
<1>9. /\ Weight(Here(A, i), S) = w1 + w3 /\ Weight(Here(B, i), S) = w2 + w4
      /\ w1 \in Nat /\ w2 \in Nat /\ w3 \in Nat /\ w4 \in Nat
  BY <1>1
<1>10. Weight(Here(A \cup B, i), S) = (w1 + w2) + (w3 + w4)
  BY <1>6, <1>7, <1>8, Zenon
<1> HIDE DEF w1, w2, w3, w4
<1> QED BY <1>9, <1>10

\* A line is removed by one side at most; the two remove what each of them removes.
LEMMA LineUnion ==
  ASSUME NEW V, NEW base \in Seq(V), NEW A, NEW B, Placed(A), Placed(B), Apart(A, B),
         NEW i \in 1 .. Len(base), NEW S
  PROVE  Weight(LineOf(base, A \cup B, i), S) + Weight(<<base[i]>>, S)
           = Weight(LineOf(base, A, i), S) + Weight(LineOf(base, B, i), S)
<1>0. i \in Int /\ i # 0 /\ base[i] \in V
  BY LenProperties, ElementOfSeq
<1>1. Gone(A \cup B, i) <=> Gone(A, i) \/ Gone(B, i)
  BY DEF Gone
<1>2. ~(Gone(A, i) /\ Gone(B, i))
  <2> SUFFICES ASSUME NEW a \in A, NEW b \in B, a.start < i, i <= End(a), b.start < i, i <= End(b) PROVE FALSE
    BY DEF Gone
  <2>1. a.start \in Int /\ a.del \in Nat /\ b.start \in Int /\ b.del \in Nat
    BY DEF Placed
  <2> QED BY <1>0, <2>1 DEF Apart, Overlaps, End
<1>3. Weight(<<>>, S) = 0 /\ Weight(<<base[i]>>, S) \in Nat
  <2>1. <<>> \in Seq(V) /\ <<base[i]>> \in Seq(V)
    BY <1>0, EmptySeq
  <2> QED BY <2>1, WeightAll, WeightNat
<1>4. \A C : LineOf(base, C, i) = IF Gone(C, i) THEN <<>> ELSE <<base[i]>>
  BY <1>0 DEF LineOf
<1>5. CASE Gone(A, i)
  BY <1>1, <1>2, <1>3, <1>4, <1>5
<1>6. CASE Gone(B, i)
  BY <1>1, <1>2, <1>3, <1>4, <1>6
<1>7. CASE ~Gone(A, i) /\ ~Gone(B, i)
  BY <1>1, <1>3, <1>4, <1>7
<1> QED BY <1>5, <1>6, <1>7

\* Two sides' changes that can all be made are made once each: of every kind of line, the text they make
\* has as many more than the base as what the one makes and what the other makes together (mergeLines).
THEOREM MergeConserves ==
  ASSUME NEW V, NEW base \in Seq(V), NEW A, NEW B, Inserts(A, V), Inserts(B, V), Placed(A), Placed(B), Apart(A, B),
         NEW S
  PROVE  Weight(Made(base, A \cup B), S) + Weight(base, S) = Weight(Made(base, A), S) + Weight(Made(base, B), S)
<1> DEFINE n == Len(base)
           C == A \cup B
<1>1. n \in Nat /\ Inserts(C, V)
  BY LenProperties DEF Inserts
<1>2. PICK f : IsFrom(f, base, C) /\ Made(base, C) = f[0]
  BY <1>1, MadeIs
<1>3. PICK g : IsFrom(g, base, A) /\ Made(base, A) = g[0]
  BY <1>1, MadeIs
<1>4. PICK h : IsFrom(h, base, B) /\ Made(base, B) = h[0]
  BY <1>1, MadeIs
<1> DEFINE Tail0(i) == Weight(SubSeq(base, i + 1, n), S)
           P(i) == Weight(Rest(f, base, i), S) + Tail0(i) = Weight(Rest(g, base, i), S) + Weight(Rest(h, base, i), S)
           T == {i \in 0 .. n : P(i)}
<1>5. ASSUME NEW i \in 0 .. n
      PROVE  /\ Weight(f[i], S) = Weight(LineOf(base, C, i), S) + Weight(Here(C, i), S) + Weight(Rest(f, base, i), S)
             /\ Weight(g[i], S) = Weight(LineOf(base, A, i), S) + Weight(Here(A, i), S) + Weight(Rest(g, base, i), S)
             /\ Weight(h[i], S) = Weight(LineOf(base, B, i), S) + Weight(Here(B, i), S) + Weight(Rest(h, base, i), S)
             /\ Weight(Here(C, i), S) = Weight(Here(A, i), S) + Weight(Here(B, i), S)
             /\ Weight(Here(A, i), S) \in Nat /\ Weight(Here(B, i), S) \in Nat
             /\ Weight(Rest(f, base, i), S) \in Nat /\ Weight(Rest(g, base, i), S) \in Nat
             /\ Weight(Rest(h, base, i), S) \in Nat
             /\ Weight(LineOf(base, C, i), S) \in Nat /\ Weight(LineOf(base, A, i), S) \in Nat
             /\ Weight(LineOf(base, B, i), S) \in Nat
  <2>1. i \in 0 .. Len(base) /\ i \in Int
    BY <1>1
  <2> HIDE DEF C, n
  <2>2. Weight(f[i], S) = Weight(LineOf(base, C, i), S) + Weight(Here(C, i), S) + Weight(Rest(f, base, i), S)
        /\ Weight(Rest(f, base, i), S) \in Nat /\ Weight(LineOf(base, C, i), S) \in Nat
    BY <1>1, <1>2, <2>1, FromWeight
  <2>3. Weight(g[i], S) = Weight(LineOf(base, A, i), S) + Weight(Here(A, i), S) + Weight(Rest(g, base, i), S)
        /\ Weight(Rest(g, base, i), S) \in Nat /\ Weight(LineOf(base, A, i), S) \in Nat /\ Weight(Here(A, i), S) \in Nat
    BY <1>3, <2>1, FromWeight
  <2>4. Weight(h[i], S) = Weight(LineOf(base, B, i), S) + Weight(Here(B, i), S) + Weight(Rest(h, base, i), S)
        /\ Weight(Rest(h, base, i), S) \in Nat /\ Weight(LineOf(base, B, i), S) \in Nat /\ Weight(Here(B, i), S) \in Nat
    BY <1>4, <2>1, FromWeight
  <2>5. Weight(Here(C, i), S) = Weight(Here(A, i), S) + Weight(Here(B, i), S)
    BY <2>1, HereUnion DEF C
  <2> QED BY <2>2, <2>3, <2>4, <2>5
<1>6. n \in T
  <2>1. Rest(f, base, n) = <<>> /\ Rest(g, base, n) = <<>> /\ Rest(h, base, n) = <<>>
    BY DEF Rest
  <2>2. SubSeq(base, n + 1, n) = <<>>
    BY <1>1, SubSeqEmpty
  <2>3. Weight(<<>>, S) = 0
    BY WeightAll, EmptySeq
  <2>4. n \in 0 .. n
    BY <1>1
  <2> QED BY <2>1, <2>2, <2>3, <2>4
<1>7. ASSUME NEW i \in 0 .. n, i > 0, i \in T PROVE i - 1 \in T
  <2>1. i \in 1 .. n /\ i - 1 \in 0 .. n /\ (i - 1) + 1 = i /\ i \in 0 .. Len(base)
    BY <1>1, <1>7
  <2>2. Rest(f, base, i - 1) = f[i] /\ Rest(g, base, i - 1) = g[i] /\ Rest(h, base, i - 1) = h[i]
    <3> HIDE DEF n, C
    <3> QED BY <1>1, <1>2, <1>3, <1>4, <1>7, <2>1, FromStep DEF n
  <2>3. Weight(LineOf(base, C, i), S) + Weight(<<base[i]>>, S)
           = Weight(LineOf(base, A, i), S) + Weight(LineOf(base, B, i), S)
    BY <2>1, LineUnion
  <2>4. Tail0(i - 1) = Weight(<<base[i]>>, S) + Tail0(i) /\ Weight(<<base[i]>>, S) \in Nat /\ Tail0(i) \in Nat
    <3> DEFINE a == <<base[i]>>
               t == SubSeq(base, i + 1, n)
    <3>1. n \in i .. Len(base) /\ base[i] \in V
      BY <1>1, <2>1, ElementOfSeq
    <3>2. SubSeq(base, i, n) = a \o t
      BY <2>1, <3>1, SubSeqRecursiveFirst
    <3>3. a \in Seq(V)
      BY <3>1
    <3>4. t \in Seq(V)
      <4>1. \A j \in i + 1 .. n : base[j] \in V
        BY <1>1, <2>1, ElementOfSeq
      <4>2. i + 1 \in Int /\ n \in Int
        BY <1>1, <2>1
      <4> QED BY <4>1, <4>2, SubSeqProperties
    <3>5. Tail0(i - 1) = Weight(SubSeq(base, i, n), S) /\ Tail0(i) = Weight(t, S)
      BY <2>1
    <3> HIDE DEF a, t, Tail0, n
    <3>6. Weight(a \o t, S) = Weight(a, S) + Weight(t, S)
      BY <3>3, <3>4, WeightConcat
    <3>7. Weight(a, S) \in Nat /\ Weight(t, S) \in Nat
      BY <3>3, <3>4, WeightNat
    <3>8. Tail0(i - 1) = Weight(a, S) + Tail0(i)
      BY <3>2, <3>5, <3>6, Zenon
    <3> QED BY <3>5, <3>7, <3>8 DEF a
  <2>5. P(i)
    BY <1>7
  <2>6. P(i - 1)
    <3> DEFINE w(s) == Weight(s, S)
    <3>1. /\ w(f[i]) = w(LineOf(base, C, i)) + w(Here(C, i)) + w(Rest(f, base, i))
          /\ w(g[i]) = w(LineOf(base, A, i)) + w(Here(A, i)) + w(Rest(g, base, i))
          /\ w(h[i]) = w(LineOf(base, B, i)) + w(Here(B, i)) + w(Rest(h, base, i))
          /\ w(Here(C, i)) = w(Here(A, i)) + w(Here(B, i))
          /\ w(Here(A, i)) \in Nat /\ w(Here(B, i)) \in Nat
          /\ w(Rest(f, base, i)) \in Nat /\ w(Rest(g, base, i)) \in Nat /\ w(Rest(h, base, i)) \in Nat
          /\ w(LineOf(base, C, i)) \in Nat /\ w(LineOf(base, A, i)) \in Nat /\ w(LineOf(base, B, i)) \in Nat
      BY <1>5
    <3>2. w(LineOf(base, C, i)) + w(<<base[i]>>) = w(LineOf(base, A, i)) + w(LineOf(base, B, i))
      BY <2>3
    <3>3. Tail0(i - 1) = w(<<base[i]>>) + Tail0(i) /\ w(<<base[i]>>) \in Nat /\ Tail0(i) \in Nat
      BY <2>4
    <3>4. w(Rest(f, base, i)) + Tail0(i) = w(Rest(g, base, i)) + w(Rest(h, base, i))
      BY <2>5
    <3>5. w(f[i]) + Tail0(i - 1) = w(g[i]) + w(h[i])
      <4> DEFINE lc == w(LineOf(base, C, i))
                 la == w(LineOf(base, A, i))
                 lb == w(LineOf(base, B, i))
                 ha == w(Here(A, i))
                 hb == w(Here(B, i))
                 hc == w(Here(C, i))
                 rc == w(Rest(f, base, i))
                 ra == w(Rest(g, base, i))
                 rb == w(Rest(h, base, i))
                 fi == w(f[i])
                 gi == w(g[i])
                 hi == w(h[i])
                 b == w(<<base[i]>>)
                 t == Tail0(i)
                 u == Tail0(i - 1)
      <4>1. fi = lc + hc + rc /\ gi = la + ha + ra /\ hi = lb + hb + rb /\ hc = ha + hb
        BY <3>1
      <4>2. lc + b = la + lb /\ u = b + t /\ rc + t = ra + rb
        BY <3>2, <3>3, <3>4
      <4>3. /\ ha \in Nat /\ hb \in Nat /\ lc \in Nat /\ la \in Nat /\ lb \in Nat
            /\ rc \in Nat /\ ra \in Nat /\ rb \in Nat /\ b \in Nat /\ t \in Nat
        BY <3>1, <3>3
      <4>4. fi + u = gi + hi
        <5> HIDE DEF lc, la, lb, ha, hb, hc, rc, ra, rb, fi, gi, hi, b, t, u
        <5> QED BY <4>1, <4>2, <4>3
      <4> QED BY <4>4
    <3> HIDE DEF C, Tail0, w
    <3>6. Weight(f[i], S) + Tail0(i - 1) = Weight(g[i], S) + Weight(h[i], S)
      BY <3>5 DEF w
    <3> QED BY <2>2, <3>6, Zenon
  <2> HIDE DEF P
  <2> QED BY <2>1, <2>6
<1>8. 0 \in T
  <2> HIDE DEF T, n
  <2> QED BY <1>1, <1>6, <1>7, DownInd
<1>9. LineOf(base, C, 0) = <<>> /\ LineOf(base, A, 0) = <<>> /\ LineOf(base, B, 0) = <<>> /\ Weight(<<>>, S) = 0
  BY WeightAll, EmptySeq DEF LineOf
<1>10. Tail0(0) = Weight(base, S) /\ Weight(base, S) \in Nat
  <2>1. SubSeq(base, 0 + 1, n) = base
    BY SubSeqFull
  <2> QED BY <2>1, WeightNat
<1>11. P(0) /\ 0 \in 0 .. n
  BY <1>1, <1>8
<1> DEFINE w(s) == Weight(s, S)
<1>12. /\ w(f[0]) = 0 + w(Here(C, 0)) + w(Rest(f, base, 0))
       /\ w(g[0]) = 0 + w(Here(A, 0)) + w(Rest(g, base, 0))
       /\ w(h[0]) = 0 + w(Here(B, 0)) + w(Rest(h, base, 0))
       /\ w(Here(C, 0)) = w(Here(A, 0)) + w(Here(B, 0))
       /\ w(Here(A, 0)) \in Nat /\ w(Here(B, 0)) \in Nat
       /\ w(Rest(f, base, 0)) \in Nat /\ w(Rest(g, base, 0)) \in Nat /\ w(Rest(h, base, 0)) \in Nat
  <2> HIDE DEF C, n
  <2> QED BY <1>5, <1>9, <1>11
<1>13. w(Rest(f, base, 0)) + w(base) = w(Rest(g, base, 0)) + w(Rest(h, base, 0)) /\ w(base) \in Nat
  BY <1>10, <1>11
<1>14. w(f[0]) + w(base) = w(g[0]) + w(h[0])
  <2> DEFINE ha == w(Here(A, 0))
             hb == w(Here(B, 0))
             hc == w(Here(C, 0))
             rc == w(Rest(f, base, 0))
             ra == w(Rest(g, base, 0))
             rb == w(Rest(h, base, 0))
             fi == w(f[0])
             gi == w(g[0])
             hi == w(h[0])
             b == w(base)
  <2>1. /\ fi = 0 + hc + rc /\ gi = 0 + ha + ra /\ hi = 0 + hb + rb /\ hc = ha + hb
        /\ ha \in Nat /\ hb \in Nat /\ rc \in Nat /\ ra \in Nat /\ rb \in Nat
    BY <1>12
  <2>2. rc + b = ra + rb /\ b \in Nat
    BY <1>13
  <2>3. fi + b = gi + hi
    <3> HIDE DEF ha, hb, hc, rc, ra, rb, fi, gi, hi, b
    <3> QED BY <2>1, <2>2
  <2> QED BY <2>3
<1> HIDE DEF C, w
<1>15. w(Made(base, C)) + w(base) = w(Made(base, A)) + w(Made(base, B))
  BY <1>2, <1>3, <1>4, <1>14, Zenon
<1> QED BY <1>15 DEF w, C


\* A diff's changes are at places in the text, one run of its lines each.
LEMMA DiffPlaced ==
  ASSUME NEW V, NEW x \in Seq(V), NEW y \in Seq(V), NEW M \in Chains(x, y)
  PROVE  /\ Placed(ChangesOf(x, y, M))
         /\ \A c \in ChangesOf(x, y, M) : c.start \in 0 .. Len(x) /\ End(c) \in c.start .. Len(x)
<1> SUFFICES ASSUME NEW c \in ChangesOf(x, y, M)
             PROVE  c.start \in Int /\ c.del \in Nat /\ c.start \in 0 .. Len(x) /\ End(c) \in c.start .. Len(x)
  BY DEF Placed
<1>1. PICK p, q : Beside(EndsOf(x, y, M), p, q) /\ c = Gap(y, p, q)
  BY ChangeIs
<1>2. /\ p[1] \in 0 .. Len(x) /\ q[1] \in 1 .. Len(x) + 1 /\ p[1] < q[1]
      /\ c.start = p[1] /\ c.del \in Nat /\ End(c) = q[1] - 1
  BY <1>1, GapFacts
<1>3. Len(x) \in Nat
  BY LenProperties
<1> QED BY <1>2, <1>3

\* A merge of two texts has of every kind of line what the two add to the base.
LEMMA MergedWeight ==
  ASSUME NEW V, NEW x \in Seq(V), NEW y \in Seq(V), NEW z \in Seq(V), NEW M \in Chains(x, y), NEW N \in Chains(x, z),
         Apart(ChangesOf(x, y, M), ChangesOf(x, z, N))
  PROVE  LET m == Made(x, ChangesOf(x, y, M) \cup ChangesOf(x, z, N))
         IN  /\ m \in Seq(V)
             /\ \A S : Weight(m, S) + Weight(x, S) = Weight(y, S) + Weight(z, S)
<1> DEFINE A == ChangesOf(x, y, M)
           B == ChangesOf(x, z, N)
<1>1. Inserts(A, V) /\ Inserts(B, V) /\ Placed(A) /\ Placed(B)
  BY DiffInserts, DiffPlaced
<1>2. Made(x, A) = y /\ Made(x, B) = z
  BY DiffApplies
<1>3. Inserts(A \cup B, V)
  BY <1>1 DEF Inserts
<1>4. Apart(A, B)
  OBVIOUS
<1> HIDE DEF A, B
<1>5. Made(x, A \cup B) \in Seq(V)
  BY <1>3, MadeTyped
<1>6. ASSUME NEW S PROVE Weight(Made(x, A \cup B), S) + Weight(x, S) = Weight(y, S) + Weight(z, S)
  <2>1. Weight(Made(x, A \cup B), S) + Weight(x, S) = Weight(Made(x, A), S) + Weight(Made(x, B), S)
    BY <1>1, <1>4, MergeConserves
  <2> QED BY <1>2, <2>1, Zenon
<1> QED BY <1>5, <1>6 DEF A, B

-----------------------------------------------------------------------------
(* What one side takes out, the other side has.                            *)

\* A line that is not gone is one of those that are kept.
LEMMA KeptHasMate ==
  ASSUME NEW V, NEW x \in Seq(V), NEW y \in Seq(V), NEW M \in Chains(x, y),
         NEW i \in 1 .. Len(x), ~Gone(ChangesOf(x, y, M), i)
  PROVE  \E p, q : Beside(EndsOf(x, y, M), p, q) /\ p[1] = i /\ p[2] \in 1 .. Len(y) /\ x[i] = y[p[2]]
<1>1. i \in 0 .. Len(x)
  BY LenProperties
<1>2. PICK p, q : Beside(EndsOf(x, y, M), p, q) /\ p[1] <= i /\ i < q[1]
  BY <1>1, Around
<1>3. p[1] = i
  BY <1>1, <1>2, HereOfDiff
<1>4. p \in EndsOf(x, y, M)
  BY <1>2 DEF Beside
<1> QED BY <1>2, <1>3, <1>4, EndsFacts

\* Two lines that are kept, with no change between them, are one right after the other in the other text, too.
LEMMA NextMate ==
  ASSUME NEW V, NEW x \in Seq(V), NEW y \in Seq(V), NEW M \in Chains(x, y),
         NEW i \in 1 .. Len(x) - 1, NEW p, NEW q, Beside(EndsOf(x, y, M), p, q), p[1] = i,
         NEW r \in EndsOf(x, y, M), r[1] = i + 1,
         \A c \in ChangesOf(x, y, M) : c.start # i
  PROVE  r[2] = p[2] + 1
<1> DEFINE E == EndsOf(x, y, M)
           g == Gap(y, p, q)
<1>1. /\ p[1] \in Int /\ q[1] \in Int /\ p[1] < q[1] /\ p[2] \in Int /\ q[2] \in Int /\ p[2] < q[2]
      /\ g.start = p[1] /\ g.ins \in Seq(V) /\ Len(g.ins) = q[2] - p[2] - 1
  <2>1. /\ p[1] \in 0 .. Len(x) /\ q[1] \in 1 .. Len(x) + 1 /\ p[1] < q[1]
        /\ p[2] \in 0 .. Len(y) /\ q[2] \in 1 .. Len(y) + 1 /\ p[2] < q[2]
        /\ g.start = p[1] /\ g.ins \in Seq(V) /\ Len(g.ins) = q[2] - p[2] - 1
    BY GapFacts
  <2> HIDE DEF g
  <2> QED BY <2>1, LenProperties
<1>2. r[1] \in Int /\ r[2] \in Int /\ (r[1] < q[1] <=> r[2] < q[2]) /\ (q[1] < r[1] <=> q[2] < r[2])
  BY EndsFacts DEF Beside
<1>3. q[1] = i + 1
  <2>1. r[1] <= p[1] \/ r[1] >= q[1]
    BY DEF Beside
  <2> QED BY <1>1, <1>2, <2>1
<1>4. r[2] = q[2]
  BY <1>1, <1>2, <1>3
<1>5. g \notin ChangesOf(x, y, M)
  BY <1>1
<1>6. g.ins = <<>>
  <2>1. g \in ChangesOf(x, y, M) <=>
           \E a, b : Beside(E, a, b) /\ g = Gap(y, a, b) /\ (g.del > 0 \/ g.ins # <<>>)
    BY ChangeIs
  <2>2. Beside(E, p, q) /\ g = Gap(y, p, q)
    OBVIOUS
  <2> HIDE DEF g, E
  <2> QED BY <1>5, <2>1, <2>2
<1>7. Len(g.ins) = 0
  BY <1>6
<1> HIDE DEF g
<1> QED BY <1>1, <1>4, <1>7, SMTT(30)


\* What one side removes, the other side, if both can be made, has in one piece (mergeGuard).
LEMMA RunKept ==
  ASSUME NEW V, NEW x \in Seq(V), NEW y \in Seq(V), NEW z \in Seq(V), NEW M \in Chains(x, y), NEW N \in Chains(x, z),
         Apart(ChangesOf(x, y, M), ChangesOf(x, z, N)), NEW c \in ChangesOf(x, z, N)
  PROVE  Within(y, SubSeq(x, c.start + 1, End(c)))
<1> DEFINE A == ChangesOf(x, y, M)
           B == ChangesOf(x, z, N)
           E == EndsOf(x, y, M)
           s == c.start
           e == End(c)
           run == SubSeq(x, s + 1, e)
<1>1. Len(x) \in Nat /\ Len(y) \in Nat
  BY LenProperties
<1>2. c.del \in Nat /\ s \in 0 .. Len(x) /\ e \in s .. Len(x) /\ e = s + c.del
  BY DiffPlaced DEF Placed, End
<1>3. \A a \in A : a.start \in Int /\ End(a) \in Int /\ a.start <= End(a) /\ ~(a.start < e /\ s < End(a))
  <2> SUFFICES ASSUME NEW a \in A
               PROVE  a.start \in Int /\ End(a) \in Int /\ a.start <= End(a) /\ ~(a.start < e /\ s < End(a))
    OBVIOUS
  <2>1. a.start \in Int /\ a.del \in Nat
    BY DiffPlaced DEF Placed
  <2>2. ~(a.start < e /\ s < End(a))
    BY DEF Apart, Overlaps
  <2>3. a.start + a.del \in Int /\ a.start <= a.start + a.del
    BY <2>1
  <2> QED BY <2>1, <2>2, <2>3 DEF End
<1> DEFINE n == e - s
<1>0. n \in Nat /\ s \in Int /\ e \in Int /\ s + n = e
  <2> HIDE DEF A, E, s, e
  <2> QED BY <1>1, <1>2
<1> HIDE DEF A, E, s, e, n
<1>4. Len(run) = n /\ run \in Seq(V) /\ \A i \in 1 .. n : run[i] = x[s + i]
  <2> DEFINE a == s + 1
  <2>1. a \in Int /\ e \in Int /\ \A i \in a .. e : i \in 1 .. Len(x)
    BY <1>0, <1>1, <1>2
  <2>2. e - a + 1 = n /\ (a <= e \/ n = 0) /\ \A i \in 1 .. n : a + i - 1 = s + i
    <3>1. e - a + 1 = n /\ (a <= e \/ n = 0)
      BY <1>0
    <3>2. \A i \in Int : a + i - 1 = s + i
      BY <1>0
    <3> QED BY <1>0, <3>1, <3>2
  <2> HIDE DEF a
  <2>3. \A i \in a .. e : x[i] \in V
    BY <2>1, ElementOfSeq
  <2>4. /\ SubSeq(x, a, e) \in Seq(V)
        /\ Len(SubSeq(x, a, e)) = IF a <= e THEN e - a + 1 ELSE 0
        /\ \A i \in 1 .. e - a + 1 : SubSeq(x, a, e)[i] = x[a + i - 1]
    BY <2>1, <2>3, SubSeqProperties
  <2>5. /\ Len(SubSeq(x, a, e)) = n
        /\ \A i \in 1 .. n : SubSeq(x, a, e)[i] = x[s + i]
    BY <1>0, <2>1, <2>2, <2>4
  <2> QED BY <2>4, <2>5 DEF a
<1> HIDE DEF run
<1>5. ASSUME n = 0 PROVE Within(y, run)
  <2>1. run = <<>>
    BY <1>4, <1>5, EmptySeq
  <2>2. SubSeq(y, 0 + 1, 0 + 0) = <<>>
    BY SubSeqEmpty
  <2>3. SubSeq(y, 0 + 1, 0 + Len(run)) = run
    BY <1>4, <1>5, <2>1, <2>2, Zenon
  <2>4. 0 \in 0 .. Len(y) - Len(run)
    BY <1>1, <1>4, <1>5
  <2> QED BY <2>3, <2>4 DEF Within
<1>6. ASSUME n > 0 PROVE Within(y, run)
  <2>1. ASSUME NEW i \in s + 1 .. e
        PROVE  /\ ~Gone(A, i)
               /\ i < e => \A a \in A : a.start # i
    <3>1. ASSUME NEW a \in A, a.start < i, i <= End(a) PROVE FALSE
      BY <1>0, <1>3, <3>1
    <3>2. ASSUME NEW a \in A, i < e, a.start = i PROVE FALSE
      BY <1>0, <1>3, <3>2
    <3> QED BY <3>1, <3>2 DEF Gone
  <2>2. ASSUME NEW i \in s + 1 .. e
        PROVE  \E p, q : Beside(E, p, q) /\ p[1] = i /\ p[2] \in 1 .. Len(y) /\ x[i] = y[p[2]]
    <3>1. i \in 1 .. Len(x) /\ ~Gone(A, i)
      BY <1>0, <1>1, <1>2, <2>1
    <3> QED BY <3>1, KeptHasMate DEF A, E
  <2>3. s + 1 \in s + 1 .. e
    BY <1>0, <1>6
  <2>4. PICK p0, q0 : Beside(E, p0, q0) /\ p0[1] = s + 1 /\ p0[2] \in 1 .. Len(y)
    BY <2>2, <2>3
  <2> DEFINE k == p0[2] - 1
             Same(d) == s + 1 + d <= e => \A p \in E : p[1] = s + 1 + d => p[2] = k + 1 + d
             D == {d \in Nat : Same(d)}
  <2>5. 0 \in D
    <3>1. ASSUME NEW p \in E, p[1] = s + 1 PROVE p[2] = p0[2]
      <4>1. p0 \in E
        BY <2>4 DEF Beside
      <4>2. p[1] \in Int /\ p0[1] \in Int /\ p[2] \in Int /\ p0[2] \in Int
            /\ (p[1] < p0[1] <=> p[2] < p0[2]) /\ (p0[1] < p[1] <=> p0[2] < p[2])
        BY <4>1, EndsFacts DEF E
      <4> QED BY <2>4, <3>1, <4>2
    <3>2. p0[2] \in Int /\ s \in Int
      BY <1>0, <1>1, <2>4
    <3> QED BY <3>1, <3>2
  <2>6. ASSUME NEW d \in Nat, d \in D PROVE d + 1 \in D
    <3> SUFFICES ASSUME s + 1 + (d + 1) <= e, NEW r \in E, r[1] = s + 1 + (d + 1) PROVE r[2] = k + 1 + (d + 1)
      OBVIOUS
    <3> DEFINE i == s + 1 + d
    <3>1. i \in s + 1 .. e /\ i < e /\ r[1] = i + 1 /\ i \in 1 .. Len(x) - 1
      BY <1>0, <1>1, <1>2
    <3>2. PICK p, q : Beside(E, p, q) /\ p[1] = i /\ p[2] \in 1 .. Len(y)
      BY <2>2, <3>1
    <3>3. p[2] = k + 1 + d
      <4>1. p \in E
        BY <3>2 DEF Beside
      <4> QED BY <2>6, <3>1, <3>2, <4>1
    <3>4. \A a \in A : a.start # i
      BY <2>1, <3>1
    <3>5. r[2] = p[2] + 1
      <4> HIDE DEF i
      <4> QED BY <3>1, <3>2, <3>4, NextMate DEF A, E
    <3>6. p0[2] \in Int
      BY <1>1, <2>4
    <3> QED BY <3>3, <3>5, <3>6
  <2>7. Nat \subseteq D
    <3> HIDE DEF D
    <3> QED BY <2>5, <2>6, NatInd
  <2>8. ASSUME NEW i \in 1 .. n PROVE k + i \in 1 .. Len(y) /\ y[k + i] = run[i]
    <3>1. s + i \in s + 1 .. e /\ i - 1 \in Nat /\ s + 1 + (i - 1) = s + i /\ k + 1 + (i - 1) = k + i
      <4>1. k \in Int
        BY <1>1, <2>4
      <4> HIDE DEF k
      <4> QED BY <1>0, <4>1
    <3>2. PICK p, q : Beside(E, p, q) /\ p[1] = s + i /\ p[2] \in 1 .. Len(y) /\ x[s + i] = y[p[2]]
      BY <2>2, <3>1
    <3>3. i - 1 \in D /\ p \in E
      BY <2>7, <3>1, <3>2 DEF Beside
    <3>4. p[2] = k + i
      <4>1. s + 1 + (i - 1) <= e
        BY <1>0, <3>1
      <4> HIDE DEF k
      <4> QED BY <3>1, <3>2, <3>3, <4>1
    <3> HIDE DEF k
    <3> QED BY <1>4, <3>2, <3>4
  <2>9. k \in Nat /\ n > 0 /\ k + n <= Len(y)
    <3>1. k \in Nat /\ n \in 1 .. n
      BY <1>0, <1>1, <1>6, <2>4
    <3> HIDE DEF k
    <3>2. k + n \in 1 .. Len(y)
      BY <2>8, <3>1
    <3> QED BY <1>1, <1>6, <3>1, <3>2
  <2> HIDE DEF k, D, Same
  <2> DEFINE a == k + 1
             b == k + n
  <2>10. /\ SubSeq(y, a, b) \in Seq(V) /\ Len(SubSeq(y, a, b)) = n
         /\ \A i \in 1 .. n : SubSeq(y, a, b)[i] = y[k + i]
    <3>1. a \in Int /\ b \in Int /\ a <= b /\ b - a + 1 = n /\ \A i \in 1 .. n : a + i - 1 = k + i
      <4>1. a \in Int /\ b \in Int /\ a <= b /\ b - a + 1 = n
        <5> HIDE DEF k
        <5> QED BY <1>0, <2>9
      <4>2. \A i \in Int : a + i - 1 = k + i
        BY <2>9
      <4> QED BY <1>0, <4>1, <4>2
    <3>2. \A i \in a .. b : y[i] \in V
      <4>1. \A i \in a .. b : i \in 1 .. Len(y)
        BY <1>0, <1>1, <2>9
      <4> QED BY <4>1, ElementOfSeq
    <3> HIDE DEF a, b
    <3>3. /\ SubSeq(y, a, b) \in Seq(V)
          /\ Len(SubSeq(y, a, b)) = IF a <= b THEN b - a + 1 ELSE 0
          /\ \A i \in 1 .. b - a + 1 : SubSeq(y, a, b)[i] = y[a + i - 1]
      BY <3>1, <3>2, SubSeqProperties
    <3> QED BY <3>1, <3>3
  <2>11. SubSeq(y, a, b) = run
    <3> DEFINE sub == SubSeq(y, a, b)
    <3> HIDE DEF a, b
    <3>1. sub \in Seq(V) /\ Len(sub) = n /\ \A i \in 1 .. n : sub[i] = run[i]
      BY <2>8, <2>10
    <3> HIDE DEF sub
    <3>2. Len(sub) = Len(run) /\ \A i \in 1 .. Len(sub) : sub[i] = run[i]
      BY <1>4, <3>1, Zenon
    <3>3. sub = run
      BY <1>4, <3>1, <3>2, SeqEqual
    <3> QED BY <3>3 DEF sub
  <2>12. k \in 0 .. Len(y) - Len(run)
    BY <1>0, <1>1, <1>4, <2>9
  <2>13. SubSeq(y, k + 1, k + Len(run)) = run
    BY <1>4, <2>11, Zenon
  <2> QED BY <2>12, <2>13 DEF Within
<1>7. Within(y, run)
  BY <1>0, <1>5, <1>6
<1> QED BY <1>7 DEF run, s, e


-----------------------------------------------------------------------------
(* The last line of a text, and its terminator.                            *)

\* Lines that are terminated.
Whole == [body : STRING, end : {"lf", "crlf"}]

\* Texts whose lines differ in their terminators at most.
SameBodies(s, t) == Len(s) = Len(t) /\ \A i \in 1 .. Len(s) : s[i].body = t[i].body

\* The last of the lines looked for is one of them, in its place.
LEMMA LastWithIs ==
  ASSUME NEW V, NEW s \in Seq(V), NEW lines
  PROVE  LET i == LastWith(s, lines) IN i = 0 \/ (i \in 1 .. Len(s) /\ s[i] \in lines)
<1> DEFINE S == {i \in DOMAIN s : s[i] \in lines}
<1>1. LastWith(s, lines) = IF S = {} THEN 0 ELSE Largest(S)
  BY DEF LastWith
<1>2. ASSUME S # {} PROVE Largest(S) \in S
  <2>1. DOMAIN s = 1 .. Len(s) /\ Len(s) \in Nat
    BY LenProperties
  <2>2. S \subseteq 0 .. Len(s)
    BY <2>1
  <2> HIDE DEF S
  <2>3. PICK i \in S : \A j \in S : i >= j
    BY <1>2, <2>1, <2>2, GreatestExists
  <2>4. \A j \in S : j <= i
    BY <2>1, <2>2, <2>3
  <2> QED BY <2>3, <2>4 DEF Largest
<1>3. \A k \in S : k \in 1 .. Len(s) /\ s[k] \in lines
  BY LenProperties
<1> DEFINE i == LastWith(s, lines)
<1>4. i = 0 \/ i \in S
  <2> HIDE DEF S
  <2> QED BY <1>1, <1>2
<1>5. i = 0 \/ (i \in 1 .. Len(s) /\ s[i] \in lines)
  <2> HIDE DEF S, i
  <2> QED BY <1>3, <1>4
<1> QED BY <1>5

\* A text ends its lines in one of two ways, or in none.
LEMMA LineEndingIs ==
  ASSUME NEW s \in Seq(Line)
  PROVE  LineEnding(s) \in {"lf", "crlf", "none"}
<1> DEFINE lines == {l \in {s[j] : j \in DOMAIN s} : l.end # "none"}
           i == LastWith(s, lines)
<1>1. i = 0 \/ (i \in 1 .. Len(s) /\ s[i] \in Line)
  BY LastWithIs, ElementOfSeq
<1>2. LineEnding(s) = IF i = 0 THEN "none" ELSE s[i].end
  BY DEF LineEnding
<1> HIDE DEF i
<1> QED BY <1>1, <1>2 DEF Line

\* A merge terminates a last line in one of two ways; as the base does, if the base does.
LEMMA EolIs ==
  ASSUME NEW base \in Seq(Line), NEW ours \in Seq(Line), NEW theirs \in Seq(Line)
  PROVE  /\ Eol(base, ours, theirs) \in {"lf", "crlf"}
         /\ LineEnding(base) # "none" => Eol(base, ours, theirs) = LineEnding(base)
BY LineEndingIs DEF Eol, Or

\* A new terminator for the last line leaves the rest as it is.
LEMMA WithIs ==
  ASSUME NEW s \in Seq(Line), s # <<>>, NEW end \in {"lf", "crlf", "none"}
  PROVE  LET t == With(s, end)
         IN  /\ t \in Seq(Line) /\ SameBodies(s, t) /\ Len(t) = Len(s) /\ Len(s) \in Nat \ {0}
             /\ t[Len(s)].end = end
             /\ \A i \in 1 .. Len(s) : i # Len(s) => t[i] = s[i]
<1> DEFINE n == Len(s)
           l == [s[n] EXCEPT !.end = end]
           t == With(s, end)
<1>1. n \in Nat \ {0} /\ n \in 1 .. n
  BY LenProperties, EmptySeq
<1>2. s[n] \in Line
  BY <1>1, ElementOfSeq
<1>3. l \in Line /\ l.body = s[n].body /\ l.end = end
  BY <1>2 DEF Line
<1>4. t = [s EXCEPT ![n] = l]
  BY DEF With
<1> HIDE DEF l, t
<1>5. t \in Seq(Line) /\ Len(t) = n /\ \A i \in 1 .. n : t[i] = IF i = n THEN l ELSE s[i]
  BY <1>1, <1>3, <1>4, ExceptSeq
<1>6. SameBodies(s, t)
  BY <1>3, <1>5 DEF SameBodies
<1> QED BY <1>1, <1>3, <1>5, <1>6 DEF t

\* A text whose last line is terminated has only lines that are.
LEMMA TerminatedIs ==
  ASSUME NEW s, IsText(s), NEW base, NEW eol \in {"lf", "crlf"}
  PROVE  Terminated(base, s, eol) \in Seq(Whole) /\ SameBodies(s, Terminated(base, s, eol))
<1> DEFINE t == Terminated(base, s, eol)
           n == Len(s)
<1>1. s \in Seq(Line) /\ n \in Nat /\ \A i \in 1 .. n : s[i] \in Line /\ (s[i].end = "none" => i = n)
  BY LenProperties, ElementOfSeq DEF IsText
<1>2. CASE ~Unended(s)
  <2>1. t = s
    BY <1>2 DEF Terminated
  <2>2. \A i \in 1 .. n : s[i] \in Whole
    <3>1. \A i \in 1 .. n : s[i].end # "none"
      BY <1>1, <1>2, EmptySeq DEF Unended, Last
    <3> QED BY <1>1, <3>1 DEF Line, Whole
  <2>3. s \in Seq(Whole)
    <3>1. s = [i \in 1 .. n |-> s[i]]
      BY <1>1, SeqDef
    <3> HIDE DEF n
    <3> QED BY <1>1, <2>2, <3>1, IsASeq
  <2>4. SameBodies(s, s)
    BY DEF SameBodies
  <2> QED BY <2>1, <2>3, <2>4, Zenon
<1>3. CASE Unended(s)
  <2>1. \E e \in {"lf", "crlf"} : t = With(s, e)
    BY <1>3 DEF Terminated
  <2>2. PICK e \in {"lf", "crlf"} : t = With(s, e)
    BY <2>1
  <2>3. s # <<>>
    BY <1>3 DEF Unended
  <2> HIDE DEF t
  <2>4. /\ t \in Seq(Line) /\ SameBodies(s, t) /\ Len(t) = n /\ n \in Nat \ {0} /\ t[n].end = e
        /\ \A i \in 1 .. n : i # n => t[i] = s[i]
    BY <1>1, <2>2, <2>3, WithIs
  <2>5. \A i \in 1 .. n : t[i] \in Whole
    <3>1. \A i \in 1 .. n : t[i] \in Line
      BY <2>4, ElementOfSeq
    <3>2. \A i \in 1 .. n : t[i].end # "none"
      BY <1>1, <2>4
    <3> QED BY <3>1, <3>2 DEF Line, Whole
  <2>6. t \in Seq(Whole)
    <3>1. t = [i \in 1 .. n |-> t[i]]
      BY <2>4, SeqDef
    <3> HIDE DEF n
    <3> QED BY <2>4, <2>5, <3>1, IsASeq
  <2> QED BY <2>4, <2>6 DEF t
<1> QED BY <1>2, <1>3

\* A merge's result is a text, of the lines that were merged; it ends as it should, or in a blank line.
LEMMA FinishedIs ==
  ASSUME NEW m \in Seq(Whole), NEW final \in BOOLEAN
  PROVE  LET r == Finished(m, final)
         IN  /\ IsText(r) /\ SameBodies(m, r)
             /\ r # <<>> => (Ended(r) <=> final) \/ Last(r).body = ""
<1> DEFINE r == Finished(m, final)
           n == Len(m)
<1>1. n \in Nat /\ \A i \in 1 .. n : m[i] \in Whole
  BY LenProperties, ElementOfSeq
<1>2. m \in Seq(Line)
  BY SeqMonotonic DEF Whole, Line
<1>3. IsText(m)
  <2>1. DOMAIN m = 1 .. n
    BY LenProperties
  <2>2. \A i \in DOMAIN m : m[i].end # "none"
    BY <1>1, <2>1 DEF Whole
  <2> QED BY <1>2, <2>2 DEF IsText
<1>4. m # <<>> => Ended(m)
  BY <1>1, EmptySeq DEF Ended, Last, Whole
<1>5. CASE m = <<>> \/ final \/ Last(m).body = ""
  <2>1. r = m
    BY <1>5 DEF Finished
  <2>2. m # <<>> => (Ended(m) <=> final) \/ Last(m).body = ""
    BY <1>4, <1>5
  <2> HIDE DEF r
  <2>3. SameBodies(m, m)
    BY DEF SameBodies
  <2>4. IsText(r) /\ SameBodies(m, r) /\ (r # <<>> => (Ended(r) <=> final) \/ Last(r).body = "")
    BY <1>3, <2>1, <2>2, <2>3
  <2> QED BY <2>4 DEF r
<1>6. CASE ~(m = <<>> \/ final \/ Last(m).body = "")
  <2>1. r = With(m, "none") /\ m # <<>> /\ ~final /\ m[n].body # ""
    BY <1>6 DEF Finished, Last
  <2> HIDE DEF r
  <2>2. /\ r \in Seq(Line) /\ SameBodies(m, r) /\ Len(r) = n /\ n \in Nat \ {0} /\ r[n].end = "none"
        /\ \A i \in 1 .. n : i # n => r[i] = m[i]
    BY <1>2, <2>1, WithIs
  <2>3. r[n].body # ""
    <3>1. n \in 1 .. n
      BY <2>2
    <3>2. m[n].body = r[n].body
      BY <2>2, <3>1 DEF SameBodies
    <3> QED BY <2>1, <3>2
  <2>4. DOMAIN r = 1 .. n
    BY <2>2, LenProperties
  <2>5. \A i \in DOMAIN r : r[i].end = "none" => i = Len(r) /\ r[i].body # ""
    <3> SUFFICES ASSUME NEW i \in DOMAIN r, r[i].end = "none" PROVE i = Len(r) /\ r[i].body # ""
      OBVIOUS
    <3>1. CASE i = n
      BY <2>2, <2>3, <3>1
    <3>2. CASE i # n
      <4>1. r[i] = m[i] /\ m[i] \in Whole
        BY <1>1, <2>2, <2>4, <3>2
      <4> QED BY <4>1 DEF Whole
    <3> QED BY <3>1, <3>2
  <2>6. IsText(r) /\ ~Ended(r)
    BY <2>2, <2>5 DEF IsText, Ended, Last
  <2> QED BY <2>1, <2>2, <2>6 DEF r
<1> QED BY <1>5, <1>6


-----------------------------------------------------------------------------
(* The merge of three texts.                                               *)

\* The lines with a body.
Bodied(b) == {l \in Whole : l.body = b}

\* Texts that differ in their terminators at most have as many of them.
LEMMA CountIs ==
  ASSUME NEW b, NEW s, NEW t \in Seq(Whole), DOMAIN s = 1 .. Len(s), SameBodies(s, t)
  PROVE  Count(s, b) = Weight(t, Bodied(b)) /\ Count(t, b) = Weight(t, Bodied(b)) /\ Count(s, b) \in Nat
<1> DEFINE n == Len(s)
<1>1. Len(t) = n /\ DOMAIN t = 1 .. n /\ \A i \in 1 .. n : t[i] \in Whole /\ s[i].body = t[i].body
  BY LenProperties, ElementOfSeq DEF SameBodies
<1>2. {i \in DOMAIN s : s[i].body = b} = Of(t, Bodied(b))
  BY <1>1 DEF Of, Bodied
<1>3. {i \in DOMAIN t : t[i].body = b} = Of(t, Bodied(b))
  BY <1>1 DEF Of, Bodied
<1>4. Weight(t, Bodied(b)) \in Nat
  BY WeightNat
<1> QED BY <1>2, <1>3, <1>4, Zenon DEF Count, Weight

\* A text has finitely many lines with a body.
LEMMA CountNat ==
  ASSUME NEW s, IsText(s), NEW b
  PROVE  Count(s, b) \in Nat
<1>1. DOMAIN s = 1 .. Len(s) /\ Len(s) \in Nat
  BY LenProperties DEF IsText
<1>2. IsFiniteSet(1 .. Len(s))
  BY <1>1, FS_Interval
<1>3. {i \in DOMAIN s : s[i].body = b} \in SUBSET (1 .. Len(s))
  BY <1>1
<1> QED BY <1>2, <1>3, FS_Subset, FS_CardinalityType DEF Count

\* What a merge's two sides have in hand: the texts, terminated alike, and the changes of one way to align each.
LEMMA ChangesToIs ==
  ASSUME NEW base, NEW ours, NEW theirs, IsText(base), IsText(ours), IsText(theirs),
         NEW other, IsText(other), NEW C \in ChangesTo(base, other, ours, theirs)
  PROVE  LET x == Terminated(base, base, Eol(base, ours, theirs))
             y == Terminated(base, other, Eol(base, ours, theirs))
         IN  /\ x \in Seq(Whole) /\ SameBodies(base, x)
             /\ y \in Seq(Whole) /\ SameBodies(other, y)
             /\ \E M \in Chains(x, y) : C = ChangesOf(x, y, M)
<1> DEFINE eol == Eol(base, ours, theirs)
           x == Terminated(base, base, eol)
           y == Terminated(base, other, eol)
<1>1. eol \in {"lf", "crlf"}
  BY EolIs DEF IsText
<1>2. C \in TokenChanges(x, y)
  BY DEF ChangesTo
<1>3. x \in Seq(Whole) /\ SameBodies(base, x) /\ y \in Seq(Whole) /\ SameBodies(other, y)
  <2> HIDE DEF eol
  <2> QED BY <1>1, TerminatedIs
<1> HIDE DEF x, y
<1>4. \E M \in Chains(x, y) : C = ChangesOf(x, y, M)
  BY <1>2 DEF TokenChanges, Alignments
<1> QED BY <1>3, <1>4 DEF x, y

\* A merge's result is made of its texts, terminated alike, and differs in its terminators at most from what
\* has of every line what the two sides add to the base.  It ends as the side that changed the end says, unless
\* in a blank line.
LEMMA MergeMade ==
  ASSUME NEW base, NEW ours, NEW theirs, IsText(base), IsText(ours), IsText(theirs),
         NEW A \in ChangesTo(base, ours, ours, theirs), NEW B \in ChangesTo(base, theirs, ours, theirs),
         NEW r \in Merges(base, ours, theirs, A, B)
  PROVE  /\ \E m \in Seq(Whole), x \in Seq(Whole), y \in Seq(Whole), z \in Seq(Whole) :
              /\ IsText(r) /\ SameBodies(r, m) /\ SameBodies(base, x) /\ SameBodies(ours, y) /\ SameBodies(theirs, z)
              /\ \A S : Weight(m, S) + Weight(x, S) = Weight(y, S) + Weight(z, S)
         /\ r # <<>> => (Ended(r) <=> FinalNewline(base, ours, theirs)) \/ Last(r).body = ""
<1> DEFINE eol == Eol(base, ours, theirs)
           x == Terminated(base, base, eol)
           y == Terminated(base, ours, eol)
           z == Terminated(base, theirs, eol)
           m == Made(x, A \cup B)
           final == FinalNewline(base, ours, theirs)
<1>1. x \in Seq(Whole) /\ SameBodies(base, x) /\ y \in Seq(Whole) /\ SameBodies(ours, y)
  BY ChangesToIs
<1>2. z \in Seq(Whole) /\ SameBodies(theirs, z)
  BY ChangesToIs
<1>3. PICK M \in Chains(x, y) : A = ChangesOf(x, y, M)
  BY ChangesToIs
<1>4. PICK N \in Chains(x, z) : B = ChangesOf(x, z, N)
  BY ChangesToIs
<1>5. Apart(A, B) /\ r = Finished(m, final)
  <2>1. r \in {Finished(k, final) : k \in MergeLines(x, A, B)}
    BY DEF Merges
  <2>2. \A k \in MergeLines(x, A, B) : Apart(A, B) /\ k = m
    BY DEF MergeLines, Apart
  <2> HIDE DEF m, final, x
  <2> QED BY <2>1, <2>2
<1>6. final \in BOOLEAN
  BY DEF FinalNewline, Ended
<1> HIDE DEF x, y, z, final
<1>7. m \in Seq(Whole) /\ \A S : Weight(m, S) + Weight(x, S) = Weight(y, S) + Weight(z, S)
  BY <1>1, <1>2, <1>3, <1>4, <1>5, MergedWeight
<1> HIDE DEF m
<1>8. IsText(r) /\ SameBodies(m, r) /\ (r # <<>> => (Ended(r) <=> final) \/ Last(r).body = "")
  BY <1>5, <1>6, <1>7, FinishedIs
<1>9. SameBodies(r, m)
  BY <1>8 DEF SameBodies
<1>10. \E m1 \in Seq(Whole), x1 \in Seq(Whole), y1 \in Seq(Whole), z1 \in Seq(Whole) :
         /\ IsText(r) /\ SameBodies(r, m1) /\ SameBodies(base, x1) /\ SameBodies(ours, y1) /\ SameBodies(theirs, z1)
         /\ \A S : Weight(m1, S) + Weight(x1, S) = Weight(y1, S) + Weight(z1, S)
  <2> DEFINE Good(m1, x1, y1, z1) ==
               /\ IsText(r) /\ SameBodies(r, m1) /\ SameBodies(base, x1) /\ SameBodies(ours, y1) /\ SameBodies(theirs, z1)
               /\ \A S : Weight(m1, S) + Weight(x1, S) = Weight(y1, S) + Weight(z1, S)
  <2>1. Good(m, x, y, z)
    BY <1>1, <1>2, <1>7, <1>8, <1>9
  <2> HIDE DEF Good
  <2>2. \E m1 \in Seq(Whole), x1 \in Seq(Whole), y1 \in Seq(Whole), z1 \in Seq(Whole) : Good(m1, x1, y1, z1)
    BY <1>1, <1>2, <1>7, <2>1, Zenon
  <2> QED BY <2>2 DEF Good
<1> QED BY <1>8, <1>10 DEF final

\* A merge's result is a text, with as many lines as the two sides add to the base (threeWayMerge).
THEOREM MergeIs ==
  ASSUME NEW base, NEW ours, NEW theirs, IsText(base), IsText(ours), IsText(theirs),
         NEW A \in ChangesTo(base, ours, ours, theirs), NEW B \in ChangesTo(base, theirs, ours, theirs),
         NEW r \in Merges(base, ours, theirs, A, B)
  PROVE  IsText(r) /\ Len(r) + Len(base) = Len(ours) + Len(theirs)
<1>1. PICK m \in Seq(Whole), x \in Seq(Whole), y \in Seq(Whole), z \in Seq(Whole) :
        /\ IsText(r) /\ SameBodies(r, m) /\ SameBodies(base, x) /\ SameBodies(ours, y) /\ SameBodies(theirs, z)
        /\ \A S : Weight(m, S) + Weight(x, S) = Weight(y, S) + Weight(z, S)
  BY MergeMade
<1>2. Weight(m, Whole) = Len(m) /\ Weight(x, Whole) = Len(x) /\ Weight(y, Whole) = Len(y) /\ Weight(z, Whole) = Len(z)
  BY WeightAll
<1>3. Weight(m, Whole) + Weight(x, Whole) = Weight(y, Whole) + Weight(z, Whole)
  BY <1>1
<1>4. Len(m) = Len(r) /\ Len(x) = Len(base) /\ Len(y) = Len(ours) /\ Len(z) = Len(theirs)
  BY <1>1 DEF SameBodies
<1>5. Len(r) + Len(base) = Len(ours) + Len(theirs)
  BY <1>2, <1>3, <1>4, Zenon
<1> QED BY <1>1, <1>5

\* It has of every line what they add to the base.
THEOREM MergeCounts ==
  ASSUME NEW base, NEW ours, NEW theirs, IsText(base), IsText(ours), IsText(theirs),
         NEW A \in ChangesTo(base, ours, ours, theirs), NEW B \in ChangesTo(base, theirs, ours, theirs),
         NEW r \in Merges(base, ours, theirs, A, B), NEW b
  PROVE  Count(r, b) + Count(base, b) = Count(ours, b) + Count(theirs, b)
<1>1. PICK m \in Seq(Whole), x \in Seq(Whole), y \in Seq(Whole), z \in Seq(Whole) :
        /\ IsText(r) /\ SameBodies(r, m) /\ SameBodies(base, x) /\ SameBodies(ours, y) /\ SameBodies(theirs, z)
        /\ \A S : Weight(m, S) + Weight(x, S) = Weight(y, S) + Weight(z, S)
  BY MergeMade
<1>2. /\ DOMAIN base = 1 .. Len(base) /\ DOMAIN ours = 1 .. Len(ours) /\ DOMAIN theirs = 1 .. Len(theirs)
      /\ DOMAIN r = 1 .. Len(r)
  BY <1>1, LenProperties DEF IsText
<1>3. Count(r, b) = Weight(m, Bodied(b))
  BY <1>1, <1>2, CountIs
<1>4. Count(base, b) = Weight(x, Bodied(b))
  BY <1>1, <1>2, CountIs
<1>5. Count(ours, b) = Weight(y, Bodied(b))
  BY <1>1, <1>2, CountIs
<1>6. Count(theirs, b) = Weight(z, Bodied(b))
  BY <1>1, <1>2, CountIs
<1>7. Weight(m, Bodied(b)) + Weight(x, Bodied(b)) = Weight(y, Bodied(b)) + Weight(z, Bodied(b))
  BY <1>1
<1> QED BY <1>3, <1>4, <1>5, <1>6, <1>7, Zenon

\* And it ends as the side that changed the end says, unless in a blank line.
THEOREM MergeEnds ==
  ASSUME NEW base, NEW ours, NEW theirs, IsText(base), IsText(ours), IsText(theirs),
         NEW A \in ChangesTo(base, ours, ours, theirs), NEW B \in ChangesTo(base, theirs, ours, theirs),
         NEW r \in Merges(base, ours, theirs, A, B), r # <<>>
  PROVE  (Ended(r) <=> FinalNewline(base, ours, theirs)) \/ Last(r).body = ""
BY MergeMade

\* A merge that can be made has in one side all that the other takes out (mergeGuard).
THEOREM GuardHolds ==
  ASSUME NEW base, NEW ours, NEW theirs, IsText(base), IsText(ours), IsText(theirs),
         NEW A \in ChangesTo(base, ours, ours, theirs), NEW B \in ChangesTo(base, theirs, ours, theirs),
         Merges(base, ours, theirs, A, B) # {}
  PROVE  MergeGuard(base, ours, theirs, B)
<1> DEFINE eol == Eol(base, ours, theirs)
           x == Terminated(base, base, eol)
           y == Terminated(base, ours, eol)
           z == Terminated(base, theirs, eol)
<1>1. x \in Seq(Whole) /\ y \in Seq(Whole)
  BY ChangesToIs
<1>2. z \in Seq(Whole)
  BY ChangesToIs
<1>3. PICK M \in Chains(x, y) : A = ChangesOf(x, y, M)
  BY ChangesToIs
<1>4. PICK N \in Chains(x, z) : B = ChangesOf(x, z, N)
  BY ChangesToIs
<1>5. Apart(A, B)
  <2>1. PICK r : r \in Merges(base, ours, theirs, A, B)
    OBVIOUS
  <2>2. MergeLines(x, A, B) # {}
    BY <2>1 DEF Merges
  <2> QED BY <2>2 DEF MergeLines, Apart
<1>6. LineEnding(base) # "none" => eol = LineEnding(base)
  BY EolIs DEF IsText
<1> HIDE DEF eol
<1>7. ASSUME NEW c \in B PROVE Within(y, SubSeq(x, c.start + 1, End(c)))
  <2> HIDE DEF x, y, z
  <2> QED BY <1>1, <1>2, <1>3, <1>4, <1>5, RunKept
<1>8. ASSUME LineEnding(base) # "none", NEW c \in B
      PROVE  Within(Terminated(base, ours, LineEnding(base)),
                    SubSeq(Terminated(base, base, LineEnding(base)), c.start + 1, End(c)))
  BY <1>6, <1>7, <1>8, Zenon
<1> QED BY <1>8 DEF MergeGuard


-----------------------------------------------------------------------------
(* Undo and redo.                                                          *)

\* The file the undo left is what the merge of the edit's text before onto it gave, or that text itself.
Undone ==
  \/ prior = after /\ ofUndo = before
  \/ \E A \in ChangesTo(after, prior, prior, before) :
       /\ taken \in ChangesTo(after, before, prior, before)
       /\ ofUndo \in Merges(after, prior, before, A, taken)
       /\ ofUndo # prior

\* The inductive invariant: after an undo, and until the redo, the file is what that undo left.
IInv ==
  /\ IsText(before) /\ IsText(after) /\ IsText(prior) /\ IsText(now)
  /\ before \in FileTexts /\ after \in FileTexts /\ prior \in FileTexts /\ recorded \in BOOLEAN
  /\ step \in {"edited", "undone", "undo refused", "redone", "redo refused"}
  /\ step = "edited" => now = prior
  /\ step = "undone" => now = ofUndo /\ Undone
  /\ RedoRestores

\* An edit on record, before anything is undone.
LEMMA InitIInv == Init => IInv
<1> SUFFICES ASSUME Init PROVE IInv
  OBVIOUS
<1>1. before \in FileTexts /\ after \in FileTexts /\ prior \in FileTexts /\ recorded \in BOOLEAN /\ now = prior /\ step = "edited"
  BY DEF Init
<1>2. IsText(before) /\ IsText(after) /\ IsText(prior) /\ IsText(now)
  BY <1>1, TextsAssumption
<1> QED BY <1>1, <1>2 DEF IInv, RedoRestores

\* A merge that is written is a result of it; one that is refused leaves the file.
LEMMA MergeStepIs ==
  ASSUME IInv, NEW base, NEW theirs, IsText(base), IsText(theirs), NEW B \in ChangesTo(base, theirs, now, theirs),
         NEW orElse, \A r \in orElse : IsText(r), NEW done, NEW refused,
         MergeStep(base, theirs, B, orElse, done, refused)
  PROVE  /\ IsText(now')
         /\ step' \in {done, refused}
         /\ \/ step' = refused
            \/ orElse # {}
            \/ \E A \in ChangesTo(base, now, now, theirs) : now' \in Merges(base, now, theirs, A, B) /\ now' # now
<1>1. IsText(now)
  BY DEF IInv
<1>2. PICK A \in ChangesTo(base, now, now, theirs) :
        LET merged  == Merges(base, now, theirs, A, B)
            results == (IF merged = {} THEN orElse ELSE merged) \ {now}
        IN  /\ now' \in IF results = {} THEN {now} ELSE results
            /\ step' = IF results = {} THEN refused ELSE done
  BY DEF MergeStep
<1> DEFINE merged == Merges(base, now, theirs, A, B)
           results == (IF merged = {} THEN orElse ELSE merged) \ {now}
<1>3. \A r \in merged : IsText(r)
  BY <1>1, MergeIs
<1>4. CASE results = {}
  <2>1. now' = now /\ step' = refused
    BY <1>2, <1>4
  <2> QED BY <1>1, <2>1
<1>5. CASE results # {}
  <2>1. now' \in results /\ step' = done
    BY <1>2, <1>5
  <2>2. orElse = {} => now' \in merged /\ now' # now
    BY <2>1
  <2>3. IsText(now')
    <3> HIDE DEF merged
    <3> QED BY <1>3, <2>1
  <2> HIDE DEF results
  <2> QED BY <2>1, <2>2, <2>3
<1> QED BY <1>4, <1>5

\* An undo leaves what its merge gives.
LEMMA UndoStep == IInv /\ Undo => IInv'
<1> SUFFICES ASSUME IInv, Undo PROVE IInv'
  OBVIOUS
<1>1. /\ IsText(before) /\ IsText(after) /\ IsText(prior) /\ IsText(now) /\ now = prior /\ step = "edited"
      /\ before \in FileTexts /\ after \in FileTexts /\ prior \in FileTexts /\ recorded \in BOOLEAN
  BY DEF IInv, Undo
<1>2. UNCHANGED <<before, after, prior, recorded>> /\ ofUndo' = now'
  BY DEF Undo
<1>3. CASE now = after
  <2>1. now' = before /\ step' = "undone"
    BY <1>3 DEF Undo
  <2>2. Undone'
    BY <1>1, <1>2, <1>3, <2>1 DEF Undone
  <2> QED BY <1>1, <1>2, <2>1, <2>2 DEF IInv, RedoRestores
<1>4. CASE now # after
  <2>1. PICK B \in ChangesTo(after, before, now, before) :
          taken' = B /\ MergeStep(after, before, B, {}, "undone", "undo refused")
    BY <1>4 DEF Undo
  <2>2. /\ IsText(now')
        /\ step' \in {"undone", "undo refused"}
        /\ \/ step' = "undo refused"
           \/ \E A \in ChangesTo(after, now, now, before) : now' \in Merges(after, now, before, A, B) /\ now' # now
    <3>1. MergeStep(after, before, B, {}, "undone", "undo refused")
      BY <2>1
    <3> QED BY <1>1, <3>1, MergeStepIs
  <2>3. ASSUME step' = "undone" PROVE Undone'
    <3>1. PICK A \in ChangesTo(after, now, now, before) : now' \in Merges(after, now, before, A, B) /\ now' # now
      BY <2>2, <2>3
    <3> QED BY <1>1, <1>2, <2>1, <3>1 DEF Undone
  <2> QED BY <1>1, <1>2, <2>2, <2>3 DEF IInv, RedoRestores
<1> QED BY <1>3, <1>4

\* An undo that is on record, and left more than the edit's text before, is redone from its own record.
LEMMA RedoIsHeld ==
  ASSUME IInv, step = "undone", ofUndo # before
  PROVE  prior # ofUndo /\ MergeGuard(after, prior, before, taken) /\ Clean
<1>1. /\ IsText(before) /\ IsText(after) /\ IsText(prior) /\ now = ofUndo
      /\ Undone
  BY DEF IInv
<1>2. PICK A \in ChangesTo(after, prior, prior, before) :
        /\ taken \in ChangesTo(after, before, prior, before)
        /\ ofUndo \in Merges(after, prior, before, A, taken)
        /\ ofUndo # prior
  BY <1>1 DEF Undone
<1>3. MergeGuard(after, prior, before, taken)
  BY <1>1, <1>2, GuardHolds
<1>4. Len(now) + Len(after) = Len(prior) + Len(before)
  <2>1. ASSUME NEW r \in Merges(after, prior, before, A, taken) PROVE Len(r) + Len(after) = Len(prior) + Len(before)
    <3>1. A \in ChangesTo(after, prior, prior, before) /\ taken \in ChangesTo(after, before, prior, before)
      BY <1>2
    <3>2. IsText(after) /\ IsText(prior) /\ IsText(before)
      BY <1>1
    <3> QED BY <3>1, <3>2, MergeIs
  <2> QED BY <1>1, <1>2, <2>1
<1>5. Len(now) \in Nat /\ Len(after) \in Nat /\ Len(prior) \in Nat /\ Len(before) \in Nat
  BY LenProperties DEF IInv, IsText
<1>6. Clean
  <2> DEFINE l == Len(now)
             a == Len(after)
             p == Len(prior)
             b == Len(before)
  <2>1. l + a = p + b /\ l \in Nat /\ a \in Nat /\ p \in Nat /\ b \in Nat
    BY <1>4, <1>5
  <2> HIDE DEF l, a, p, b
  <2>2. l = p + b - a
    BY <2>1
  <2> QED BY <2>2 DEF Clean, l, a, p, b
<1> QED BY <1>2, <1>3, <1>6

\* A redo puts the file back, where the undo left more than the edit's text before and what came after is on record.
LEMMA RedoStep == IInv /\ Redo => IInv'
<1> SUFFICES ASSUME IInv, Redo PROVE IInv'
  OBVIOUS
<1>1. /\ IsText(before) /\ IsText(after) /\ IsText(prior) /\ IsText(now) /\ now = ofUndo /\ step = "undone"
      /\ before \in FileTexts /\ after \in FileTexts /\ prior \in FileTexts /\ recorded \in BOOLEAN
  BY DEF IInv, Redo
<1>2. UNCHANGED <<before, after, prior, taken, recorded, ofUndo>>
  BY DEF Redo
<1>3. IF now = before THEN now' = after /\ step' = "redone"
      ELSE IF Held /\ now = ofUndo /\ Clean THEN now' = prior /\ step' = "redone"
      ELSE \E B \in ChangesTo(before, after, now, after) :
             MergeStep(before, after, B, IF Held THEN PlacedBack ELSE {}, "redone", "redo refused")
  BY DEF Redo
<1>4. ASSUME recorded, ofUndo # before PROVE Held /\ now = ofUndo /\ Clean /\ now # before
  BY <1>1, <1>4, RedoIsHeld DEF Held
<1>5. \A r \in PlacedBack : IsText(r)
  <2> SUFFICES ASSUME NEW C \in ChangesTo(ofUndo, now, now, prior), NEW D \in ChangesTo(ofUndo, prior, now, prior),
                      NEW r \in Merges(ofUndo, now, prior, C, D)
               PROVE  IsText(r)
    BY DEF PlacedBack
  <2>1. IsText(ofUndo)
    BY <1>1
  <2> QED BY <1>1, <2>1, MergeIs
<1>6. /\ IsText(now') /\ step' \in {"redone", "redo refused"}
      /\ recorded /\ ofUndo # before => now' = prior
  <2>1. CASE now = before
    BY <1>1, <1>3, <2>1
  <2>2. CASE now # before /\ Held /\ now = ofUndo /\ Clean
    BY <1>1, <1>3, <2>2
  <2>3. CASE now # before /\ ~(Held /\ now = ofUndo /\ Clean)
    <3>1. PICK B \in ChangesTo(before, after, now, after) :
            MergeStep(before, after, B, IF Held THEN PlacedBack ELSE {}, "redone", "redo refused")
      BY <1>3, <2>3
    <3> DEFINE orElse == IF Held THEN PlacedBack ELSE {}
    <3>2. \A r \in orElse : IsText(r)
      BY <1>5
    <3>3. MergeStep(before, after, B, orElse, "redone", "redo refused")
      BY <3>1, Zenon
    <3> HIDE DEF orElse
    <3>4. IsText(now') /\ step' \in {"redone", "redo refused"}
      BY <1>1, <3>2, <3>3, MergeStepIs
    <3> QED BY <1>4, <2>3, <3>4
  <2> QED BY <2>1, <2>2, <2>3
<1> QED BY <1>1, <1>2, <1>6 DEF IInv, RedoRestores

\* The invariant holds in every state.
LEMMA Invariance == Spec => []IInv
<1>1. IInv /\ UNCHANGED vars => IInv'
  <2> SUFFICES ASSUME IInv, UNCHANGED vars PROVE IInv'
    OBVIOUS
  <2>1. /\ before' = before /\ after' = after /\ prior' = prior /\ taken' = taken /\ recorded' = recorded
        /\ ofUndo' = ofUndo /\ now' = now /\ step' = step
    BY DEF vars
  <2>2. Undone => Undone'
    BY <2>1, Zenon DEF Undone
  <2> QED BY <2>1, <2>2 DEF IInv, RedoRestores
<1>2. IInv /\ [Next]_vars => IInv'
  BY <1>1, UndoStep, RedoStep DEF Next
<1> QED BY InitIInv, <1>2, PTL DEF Spec


-----------------------------------------------------------------------------
(* The properties.                                                         *)

\* An undo loses no line, doubles none, and glues none to another (threeWayMerge, undoRecordUnlocked).
THEOREM UndoConserves == Spec => []Conserved
<1>1. IInv => Conserved
  <2> SUFFICES ASSUME IInv, step = "undone", NEW b \in Bodies
               PROVE  Count(now, b) + Count(after, b) = Count(prior, b) + Count(before, b)
    BY DEF Conserved
  <2>1. IsText(before) /\ IsText(after) /\ IsText(prior) /\ now = ofUndo /\ Undone
    BY DEF IInv
  <2>2. CASE prior = after /\ ofUndo = before
    <3>1. Count(before, b) \in Nat /\ Count(after, b) \in Nat
      BY <2>1, CountNat
    <3> QED BY <2>1, <2>2, <3>1
  <2>3. ASSUME NEW A \in ChangesTo(after, prior, prior, before), taken \in ChangesTo(after, before, prior, before),
               ofUndo \in Merges(after, prior, before, A, taken)
        PROVE  Count(ofUndo, b) + Count(after, b) = Count(prior, b) + Count(before, b)
    BY <2>1, <2>3, MergeCounts
  <2> QED BY <2>1, <2>2, <2>3 DEF Undone
<1> QED BY Invariance, <1>1, PTL

\* An undo of an edit that did not touch how the file ends does not touch it, either (threeWayMerge).
THEOREM UndoKeepsEnding == Spec => []EndingKept
<1>1. IInv => EndingKept
  <2> SUFFICES ASSUME IInv, step = "undone", before # <<>>, after # <<>>, now # <<>>, prior # <<>>,
                      Ended(before) = Ended(after)
               PROVE  Ended(now) = Ended(prior) \/ Last(now).body = ""
    BY DEF EndingKept
  <2>1. IsText(before) /\ IsText(after) /\ IsText(prior) /\ now = ofUndo /\ Undone
    BY DEF IInv
  <2>2. CASE prior = after /\ ofUndo = before
    BY <2>1, <2>2
  <2>3. ASSUME NEW A \in ChangesTo(after, prior, prior, before), taken \in ChangesTo(after, before, prior, before),
               ofUndo \in Merges(after, prior, before, A, taken)
        PROVE  Ended(now) = Ended(prior) \/ Last(now).body = ""
    <3>1. (Ended(ofUndo) <=> FinalNewline(after, prior, before)) \/ Last(ofUndo).body = ""
      BY <2>1, <2>3, MergeEnds
    <3>2. FinalNewline(after, prior, before) = Ended(prior)
      BY DEF FinalNewline
    <3>3. Ended(ofUndo) \in BOOLEAN /\ Ended(prior) \in BOOLEAN
      BY DEF Ended
    <3> QED BY <2>1, <3>1, <3>2, <3>3
  <2> QED BY <2>1, <2>2, <2>3 DEF Undone
<1> QED BY Invariance, <1>1, PTL

\* The quick test turns away no undo whose merge can be made (mergeGuard).
THEOREM GuardTurnsNoneAway == Spec => []GuardAgrees
<1>1. IInv => GuardAgrees
  <2> SUFFICES ASSUME IInv,
                      NEW A \in ChangesTo(after, prior, prior, before), NEW B \in ChangesTo(after, before, prior, before),
                      Merges(after, prior, before, A, B) # {}
               PROVE  MergeGuard(after, prior, before, B)
    BY DEF GuardAgrees
  <2>1. IsText(before) /\ IsText(after) /\ IsText(prior)
    BY DEF IInv
  <2> QED BY <2>1, GuardHolds
<1> QED BY Invariance, <1>1, PTL

\* A redo right after an undo, of an edit whose undo left more than its text before and where what came after it
\* is on record, puts the file back exactly as it was (redoMerge, redoRecordUnlocked).
THEOREM RedoPutsBack == Spec => []RedoRestores
<1>1. IInv => RedoRestores
  BY DEF IInv
<1> QED BY Invariance, <1>1, PTL

\* The state has its types: what is terminated nowhere but at the end stays so.
THEOREM TypeCorrect == Spec => []TypeOK
<1>1. IInv => TypeOK
  BY DEF IInv, TypeOK, IsText
<1> QED BY Invariance, <1>1, PTL

-----------------------------------------------------------------------------
(* Sets of ids that are split into unbroken ones.                          *)

\* The sets of F are not empty, disjoint, and together S.
Splits(F, S) == UNION F = S /\ {} \notin F /\ \A g, h \in F : g # h => g \cap h = {}

\* Between two of its ids there are all others, each edit beginning where the one before left off.
Unbroken(g) == \A i, j \in g : i < j => i + 1 \in g /\ log[i].after = log[i + 1].before

\* A split into unbroken sets.
SplitsWell(F, S) == Splits(F, S) /\ \A g \in F : Unbroken(g)

\* What is between two ids of an unbroken set is in it.
LEMMA UnbrokenConvex ==
  ASSUME NEW g, g \subseteq Nat, Unbroken(g), NEW i \in g, NEW j \in g, NEW k \in Nat, i <= k, k <= j
  PROVE  k \in g
<1> DEFINE D == {d \in Nat : i + d <= j => i + d \in g}
<1>1. 0 \in D
  OBVIOUS
<1>2. ASSUME NEW d \in Nat, d \in D PROVE d + 1 \in D
  <2> SUFFICES ASSUME i + (d + 1) <= j PROVE i + (d + 1) \in g
    OBVIOUS
  <2>1. i + d \in g /\ i + d < j
    BY <1>2
  <2>2. (i + d) + 1 \in g
    BY <2>1 DEF Unbroken
  <2> QED BY <2>2
<1>3. Nat \subseteq D
  <2> HIDE DEF D
  <2> QED BY <1>1, <1>2, NatInd
<1>4. k - i \in D /\ i + (k - i) = k
  BY <1>3
<1> QED BY <1>4

\* Of two sets of a split into unbroken ones, one is all before the other.
LEMMA SplitInOrder ==
  ASSUME NEW S, S \subseteq Nat, NEW F, SplitsWell(F, S), NEW a \in F, NEW b \in F, a # b,
         NEW x \in a, NEW y \in b, x < y, NEW u \in a, NEW v \in b
  PROVE  u < v
<1>1. a \subseteq Nat /\ b \subseteq Nat /\ a \cap b = {} /\ Unbroken(a) /\ Unbroken(b)
  BY DEF SplitsWell, Splits
<1>0. x \in Nat /\ y \in Nat /\ u \in Nat /\ v \in Nat /\ u # v /\ u # y /\ x # v
  BY <1>1
<1> SUFFICES ASSUME v < u PROVE FALSE
  BY <1>0
<1>2. CASE y < u
  <2>1. x \in Nat /\ y \in Nat /\ u \in Nat /\ x <= y /\ y <= u
    BY <1>0, <1>2
  <2>2. y \in a
    BY <1>1, <2>1, UnbrokenConvex
  <2> QED BY <1>1, <2>2
<1>3. CASE u < y
  <2>1. v \in Nat /\ y \in Nat /\ u \in Nat /\ v <= u /\ u <= y
    BY <1>0, <1>3
  <2>2. u \in b
    BY <1>1, <2>1, UnbrokenConvex
  <2> QED BY <1>1, <2>2
<1> QED BY <1>0, <1>2, <1>3

-----------------------------------------------------------------------------
(* Pieces.                                                                 *)

\* Where a set of ids is cut, and the piece that i is in.
Cuts(S, links) == {k \in S : k # Min(S) /\ <<Max({l \in S : l < k}), k>> \notin links}
Piece(S, links, i) == {j \in S : \A k \in Cuts(S, links) : k <= i <=> k <= j}

\* The pieces, one by one.
LEMMA PiecesAre ==
  ASSUME NEW S, NEW links
  PROVE  Pieces(S, links) = {Piece(S, links, i) : i \in S}
BY DEF Pieces, Piece, Cuts

\* A set is split into its pieces.
LEMMA PiecesSplit ==
  ASSUME NEW S, NEW links
  PROVE  Splits(Pieces(S, links), S)
<1>1. \A i \in S : i \in Piece(S, links, i) /\ Piece(S, links, i) \subseteq S
  BY DEF Piece
<1>2. ASSUME NEW i \in S, NEW j \in S, NEW x \in Piece(S, links, i), x \in Piece(S, links, j)
      PROVE  Piece(S, links, i) = Piece(S, links, j)
  BY <1>2 DEF Piece
<1> QED BY <1>1, <1>2, PiecesAre DEF Splits

\* What is between two elements of a piece is in it.
LEMMA PiecesConvex ==
  ASSUME NEW S, S \subseteq Nat, NEW links, NEW P \in Pieces(S, links),
         NEW i \in P, NEW j \in P, NEW k \in S, i <= k, k <= j
  PROVE  k \in P
<1>1. PICK r \in S : P = Piece(S, links, r)
  BY PiecesAre
<1>2. \A c \in Cuts(S, links) : c \in Nat /\ (c <= r <=> c <= i) /\ (c <= r <=> c <= j)
  BY <1>1 DEF Piece, Cuts
<1>3. i \in Nat /\ j \in Nat /\ k \in Nat
  BY <1>1 DEF Piece
<1>4. \A c \in Cuts(S, links) : c <= r <=> c <= k
  BY <1>2, <1>3
<1> QED BY <1>1, <1>4 DEF Piece

\* Two neighbours of a piece are linked.
LEMMA PiecesLinked ==
  ASSUME NEW n \in Nat, NEW S, S \subseteq 1 .. n, NEW links, NEW P \in Pieces(S, links),
         NEW i \in P, NEW j \in P, i < j, \A k \in S : k <= i \/ j <= k
  PROVE  <<i, j>> \in links
<1>1. PICK r \in S : P = Piece(S, links, r)
  BY PiecesAre
<1>2. i \in S /\ j \in S /\ S \subseteq Nat
  BY <1>1 DEF Piece
<1> DEFINE B == {l \in S : l < j}
<1>3. Max(B) = i
  <2>1. B \subseteq 1 .. n /\ i \in B
    BY <1>2
  <2>2. \A k \in B : k <= i
    BY <1>2
  <2> HIDE DEF B
  <2>3. Max(B) \in B /\ \A y \in B : y <= Max(B)
    BY <2>1, MaxIs
  <2>4. Max(B) <= i /\ i <= Max(B)
    BY <2>1, <2>2, <2>3
  <2>5. Max(B) \in 1 .. n /\ i \in 1 .. n
    BY <2>1, <2>3
  <2> DEFINE top == Max(B)
  <2> HIDE DEF top
  <2> QED BY <2>4, <2>5 DEF top
<1>4. j # Min(S)
  <2>1. Min(S) <= i
    BY <1>2, MinIs
  <2> QED BY <1>2, <2>1
<1>5. j \notin Cuts(S, links)
  <2> SUFFICES ASSUME j \in Cuts(S, links) PROVE FALSE
    OBVIOUS
  <2>1. (j <= r <=> j <= i) /\ (j <= r <=> j <= j)
    BY <1>1 DEF Piece
  <2> QED BY <1>2, <2>1
<1> QED BY <1>2, <1>3, <1>4, <1>5 DEF Cuts

-----------------------------------------------------------------------------
(* Runs and spans.                                                         *)

\* The next element of a set of ids.
LEMMA NextExists ==
  ASSUME NEW S, S \subseteq Nat, NEW i \in S, NEW j \in S, i < j
  PROVE  \E k \in S : i < k /\ k <= j /\ \A l \in S : l <= i \/ k <= l
<1> DEFINE Later == {l \in S : i < l}
<1>1. Later \subseteq Nat /\ j \in Later
  OBVIOUS
<1>2. PICK k \in Later : \A l \in Later : k <= l
  <2> HIDE DEF Later
  <2> QED BY <1>1, LeastExists
<1>3. \A l \in S : l <= i \/ k <= l
  BY <1>2
<1> QED BY <1>1, <1>2, <1>3

\* A run is unbroken: what follows in it is the next record, and begins where the one before left off.
LEMMA RunsExact ==
  ASSUME NEW n \in Nat, NEW mine, mine \subseteq 1 .. n
  PROVE  SplitsWell(RunsOf(mine), mine)
<1> DEFINE links == {e \in mine \X mine : Follows(e[1], e[2])}
<1>1. RunsOf(mine) = Pieces(mine, links)
  BY DEF RunsOf
<1>2. Splits(RunsOf(mine), mine)
  BY <1>1, PiecesSplit
<1>3. ASSUME NEW run \in RunsOf(mine), NEW i \in run, NEW j \in run, i < j
      PROVE  i + 1 \in run /\ log[i].after = log[i + 1].before
  <2>1. mine \subseteq Nat /\ i \in mine /\ j \in mine
    BY <1>2 DEF Splits
  <2>2. PICK k \in mine : i < k /\ k <= j /\ \A l \in mine : l <= i \/ k <= l
    BY <1>3, <2>1, NextExists
  <2> HIDE DEF links
  <2>3. i <= k
    BY <2>1, <2>2
  <2>4. k \in run
    BY <1>1, <2>1, <2>2, <2>3, PiecesConvex
  <2>5. <<i, k>> \in links
    BY <1>1, <2>2, <2>4, PiecesLinked
  <2>6. Follows(i, k)
    BY <2>5 DEF links
  <2> QED BY <2>4, <2>6 DEF Follows, Chained
<1> QED BY <1>2, <1>3 DEF SplitsWell, Unbroken

\* A piece of an unbroken set is unbroken.
LEMMA PiecesExact ==
  ASSUME NEW S, S \subseteq Nat, Unbroken(S), NEW links
  PROVE  SplitsWell(Pieces(S, links), S)
<1>1. Splits(Pieces(S, links), S)
  BY PiecesSplit
<1>2. ASSUME NEW P \in Pieces(S, links), NEW i \in P, NEW j \in P, i < j
      PROVE  i + 1 \in P /\ log[i].after = log[i + 1].before
  <2>1. i \in S /\ j \in S
    BY <1>1 DEF Splits
  <2>2. i + 1 \in S /\ log[i].after = log[i + 1].before
    BY <1>2, <2>1 DEF Unbroken
  <2>3. i <= i + 1 /\ i + 1 <= j
    BY <1>2, <2>1
  <2> QED BY <2>2, <2>3, PiecesConvex
<1> QED BY <1>1, <1>2 DEF SplitsWell, Unbroken

\* The spans of all runs.
SpansOfAll(mine) == UNION {SpansOf(run) : run \in RunsOf(mine)}

\* They are a split of the records, into unbroken sets.
LEMMA SpansExact ==
  ASSUME NEW n \in Nat, NEW mine, mine \subseteq 1 .. n
  PROVE  SplitsWell(SpansOfAll(mine), mine)
<1>1. Splits(RunsOf(mine), mine) /\ \A run \in RunsOf(mine) : Unbroken(run)
  BY RunsExact DEF SplitsWell
<1>2. ASSUME NEW run \in RunsOf(mine)
      PROVE  Splits(SpansOf(run), run) /\ \A s \in SpansOf(run) : Unbroken(s)
  <2>0. run \subseteq mine /\ Unbroken(run)
    BY <1>1 DEF Splits
  <2>1. run \subseteq Nat /\ Unbroken(run)
    BY <2>0
  <2>2. \A links : SplitsWell(Pieces(run, links), run)
    BY <2>1, PiecesExact
  <2> QED BY <2>2 DEF SpansOf, SplitsWell
<1>3. UNION SpansOfAll(mine) = mine /\ {} \notin SpansOfAll(mine)
  BY <1>1, <1>2 DEF Splits, SpansOfAll
<1>4. ASSUME NEW g \in SpansOfAll(mine), NEW h \in SpansOfAll(mine), g # h PROVE g \cap h = {}
  <2>1. PICK r \in RunsOf(mine) : g \in SpansOf(r)
    BY DEF SpansOfAll
  <2>2. PICK t \in RunsOf(mine) : h \in SpansOf(t)
    BY DEF SpansOfAll
  <2>3. g \subseteq r /\ h \subseteq t
    BY <1>2, <2>1, <2>2 DEF Splits
  <2>4. CASE r = t
    BY <1>2, <1>4, <2>1, <2>2, <2>4 DEF Splits
  <2>5. CASE r # t
    BY <1>1, <2>3, <2>5 DEF Splits
  <2> QED BY <2>4, <2>5
<1>5. \A g \in SpansOfAll(mine) : Unbroken(g)
  BY <1>2 DEF SpansOfAll
<1> QED BY <1>3, <1>4, <1>5 DEF SplitsWell, Splits

-----------------------------------------------------------------------------
(* Spans folded where the file is gone.                                    *)

\* The ends of a set of a split.
LEMMA EndsOfSet ==
  ASSUME NEW n \in Nat, NEW S, S \subseteq 1 .. n, NEW F, SplitsWell(F, S), NEW a \in F
  PROVE  /\ a \subseteq S /\ a \subseteq Nat /\ Min(a) \in a /\ Max(a) \in a
         /\ \A x \in a : Min(a) <= x /\ x <= Max(a)
<1>1. a # {} /\ a \subseteq S
  BY DEF SplitsWell, Splits
<1>2. a \subseteq 1 .. n
  BY <1>1
<1>3. a \subseteq Nat
  BY <1>2
<1> QED BY <1>1, <1>2, <1>3, MinIs, MaxIs

\* Different ones have no id in common.
LEMMA SetsApart ==
  ASSUME NEW S, NEW F, SplitsWell(F, S), NEW a \in F, NEW b \in F, NEW x \in a, x \in b
  PROVE  a = b
BY DEF SplitsWell, Splits

\* The sets of a split are told apart by their least elements, and lie in the order of these.
LEMMA OrderedByMin ==
  ASSUME NEW n \in Nat, NEW S, S \subseteq 1 .. n, NEW F, SplitsWell(F, S), NEW a \in F, NEW b \in F
  PROVE  /\ Min(a) = Min(b) => a = b
         /\ Min(a) < Min(b) => \A u \in a, v \in b : u < v
         /\ a # b => Min(a) < Min(b) \/ Min(b) < Min(a)
<1>1. /\ Min(a) \in a /\ Min(b) \in b /\ a \subseteq Nat /\ b \subseteq Nat
  BY EndsOfSet
<1>2. S \subseteq Nat
  OBVIOUS
<1>3. Min(a) \in Nat /\ Min(b) \in Nat
  BY <1>1
<1>4. ASSUME Min(a) < Min(b), NEW u \in a, NEW v \in b PROVE u < v
  <2>1. a # b
    BY <1>3, <1>4
  <2> QED BY <1>1, <1>2, <1>4, <2>1, SplitInOrder
<1>5. Min(a) = Min(b) => a = b
  BY <1>1, SetsApart
<1> QED BY <1>3, <1>4, <1>5

\* The spans of a group of spans that are folded into one, and the groups.
Met(F) == {<<Min(e[1]), Min(e[2])>> : e \in {d \in F \X F : Meet(d[1], d[2])}}
Starts(F) == {Min(a) : a \in F}
Fold(F, G) == UNION {a \in F : Min(a) \in G}

\* The folded spans, one by one.
LEMMA FoldsAre == ASSUME NEW F PROVE AbsenceFolded(F) = {Fold(F, G) : G \in Pieces(Starts(F), Met(F))}
BY DEF AbsenceFolded, Met, Starts, Fold

\* The folded spans are a split of the records.
LEMMA FoldsSplit ==
  ASSUME NEW n \in Nat, NEW S, S \subseteq 1 .. n, NEW F, SplitsWell(F, S)
  PROVE  Splits(AbsenceFolded(F), S)
<1> DEFINE Gs == Pieces(Starts(F), Met(F))
<1>1. Splits(Gs, Starts(F))
  BY PiecesSplit
<1>2. AbsenceFolded(F) = {Fold(F, G) : G \in Gs}
  BY FoldsAre
<1> HIDE DEF Gs
<1>3. \A x \in S : \E a \in F : x \in a
  BY DEF SplitsWell, Splits
<1>4. \A a \in F : Min(a) \in Starts(F) /\ a \subseteq S /\ a # {}
  BY DEF Starts, SplitsWell, Splits
<1>5. UNION AbsenceFolded(F) = S
  <2>1. ASSUME NEW x \in S PROVE \E G \in Gs : x \in Fold(F, G)
    <3>1. PICK a \in F : x \in a
      BY <1>3
    <3>2. PICK G \in Gs : Min(a) \in G
      BY <1>1, <1>4 DEF Splits
    <3> QED BY <3>1, <3>2 DEF Fold
  <2>2. \A G \in Gs : Fold(F, G) \subseteq S
    BY <1>4 DEF Fold
  <2> QED BY <1>2, <2>1, <2>2
<1>6. {} \notin AbsenceFolded(F)
  <2>1. ASSUME NEW G \in Gs PROVE Fold(F, G) # {}
    <3>0. G # {} /\ G \subseteq Starts(F)
      BY <1>1 DEF Splits
    <3>1. PICK m \in G : m \in Starts(F)
      BY <3>0
    <3>2. PICK a \in F : m = Min(a)
      BY <3>1 DEF Starts
    <3> QED BY <1>4, <3>1, <3>2 DEF Fold
  <2> QED BY <1>2, <2>1
<1>7. ASSUME NEW G \in Gs, NEW H \in Gs, NEW x, x \in Fold(F, G), x \in Fold(F, H) PROVE G = H
  <2>1. PICK a \in F : Min(a) \in G /\ x \in a
    BY <1>7 DEF Fold
  <2>2. PICK b \in F : Min(b) \in H /\ x \in b
    BY <1>7 DEF Fold
  <2>3. a = b
    BY <2>1, <2>2 DEF SplitsWell, Splits
  <2> QED BY <1>1, <2>1, <2>2, <2>3 DEF Splits
<1> QED BY <1>2, <1>5, <1>6, <1>7 DEF Splits

\* Of a fold, the span after one that is not its last meets it: the file is gone between the two.
LEMMA FoldMeets ==
  ASSUME NEW n \in Nat, NEW S, S \subseteq 1 .. n, NEW F, SplitsWell(F, S), NEW G \in Pieces(Starts(F), Met(F)),
         NEW a \in F, Min(a) \in G, NEW b \in F, Min(b) \in G, Min(a) < Min(b)
  PROVE  \E c \in F : Min(c) \in G /\ Meet(a, c)
<1>1. \A d \in F : Min(d) \in Starts(F) /\ Min(d) \in 1 .. n
  BY EndsOfSet DEF Starts
<1>2. Starts(F) \subseteq 1 .. n /\ Starts(F) \subseteq Nat
  BY <1>1 DEF Starts
<1>3. PICK k \in Starts(F) : Min(a) < k /\ k <= Min(b) /\ \A l \in Starts(F) : l <= Min(a) \/ k <= l
  BY <1>1, <1>2, NextExists
<1>4. k \in G
  <2>1. Min(a) <= k
    BY <1>1, <1>2, <1>3
  <2> QED BY <1>2, <1>3, <2>1, PiecesConvex
<1>5. <<Min(a), k>> \in Met(F)
  BY <1>2, <1>3, <1>4, PiecesLinked
<1>6. PICK e \in F \X F : Meet(e[1], e[2]) /\ <<Min(a), k>> = <<Min(e[1]), Min(e[2])>>
  BY <1>5 DEF Met
<1>7. e[1] \in F /\ e[2] \in F /\ Min(e[1]) = Min(a) /\ Min(e[2]) = k
  BY <1>6
<1>8. e[1] = a
  <2> DEFINE d == e[1]
  <2>1. d \in F /\ Min(d) = Min(a)
    BY <1>7
  <2> HIDE DEF d
  <2>2. d = a
    BY <2>1, OrderedByMin
  <2> QED BY <2>2 DEF d
<1> QED BY <1>4, <1>6, <1>7, <1>8

\* A fold is unbroken.
LEMMA FoldsExact ==
  ASSUME NEW n \in Nat, NEW S, S \subseteq 1 .. n, NEW F, SplitsWell(F, S)
  PROVE  SplitsWell(AbsenceFolded(F), S)
<1>1. ASSUME NEW G \in Pieces(Starts(F), Met(F)), NEW i \in Fold(F, G), NEW j \in Fold(F, G), i < j
      PROVE  i + 1 \in Fold(F, G) /\ log[i].after = log[i + 1].before
  <2>1. PICK a \in F : Min(a) \in G /\ i \in a
    BY DEF Fold
  <2>2. PICK b \in F : Min(b) \in G /\ j \in b
    BY DEF Fold
  <2>3. a \subseteq Nat /\ Max(a) \in a /\ i <= Max(a)
    BY EndsOfSet, <2>1
  <2>4. b \subseteq Nat
    BY EndsOfSet
  <2>5. i \in Nat /\ j \in Nat /\ Max(a) \in Nat
    BY <2>1, <2>2, <2>3, <2>4
  <2>6. CASE i < Max(a)
    <3>1. i + 1 \in a /\ log[i].after = log[i + 1].before
      BY <2>1, <2>3, <2>6 DEF SplitsWell, Unbroken
    <3> QED BY <2>1, <3>1 DEF Fold
  <2>7. CASE i = Max(a)
    <3>1. a # b
      <4> SUFFICES ASSUME a = b PROVE FALSE
        OBVIOUS
      <4>1. j <= Max(a)
        BY <2>2, EndsOfSet
      <4> QED BY <1>1, <2>5, <2>7, <4>1
    <3>2. Min(a) < Min(b)
      <4>1. Min(a) < Min(b) \/ Min(b) < Min(a)
        BY <3>1, OrderedByMin
      <4>2. Min(b) < Min(a) => j < i
        BY <2>1, <2>2, OrderedByMin
      <4> QED BY <1>1, <2>5, <4>1, <4>2
    <3>3. PICK c \in F : Min(c) \in G /\ Meet(a, c)
      BY <2>1, <2>2, <3>2, FoldMeets
    <3>4. Min(c) \in c
      BY EndsOfSet
    <3>5. Min(c) = i + 1 /\ log[i].after = log[i + 1].before
      BY <2>7, <3>3 DEF Meet, Adjacent, AfterOf, BeforeOf
    <3> QED BY <3>3, <3>4, <3>5 DEF Fold
  <2> QED BY <2>3, <2>5, <2>6, <2>7
<1> DEFINE Gs == Pieces(Starts(F), Met(F))
<1>2. AbsenceFolded(F) = {Fold(F, G) : G \in Gs}
  BY FoldsAre
<1>3. \A G \in Gs : Unbroken(Fold(F, G))
  BY <1>1 DEF Unbroken
<1> HIDE DEF Gs
<1> QED BY <1>2, <1>3, FoldsSplit DEF SplitsWell

-----------------------------------------------------------------------------
(* Spans in order.                                                         *)

\* A span's place among the others: how many begin before it.
Rank(F, a) == Cardinality({b \in F : Min(b) < Min(a)})

\* A split of finitely many ids is finite.
LEMMA SplitFinite ==
  ASSUME NEW n \in Nat, NEW S, S \subseteq 1 .. n, NEW F, SplitsWell(F, S)
  PROVE  IsFiniteSet(F) /\ Cardinality(F) \in Nat
<1> DEFINE f == [a \in F |-> Min(a)]
<1>1. ASSUME NEW a \in F PROVE f[a] \in 1 .. n
  <2>1. Min(a) \in a /\ a \subseteq S
    BY EndsOfSet
  <2> QED BY <2>1
<1>2. \A a, b \in F : f[a] = f[b] => a = b
  BY OrderedByMin
<1>3. f \in [F -> 1 .. n]
  <2>1. f = [a \in F |-> f[a]]
    OBVIOUS
  <2> HIDE DEF f
  <2> QED BY <1>1, <2>1
<1> HIDE DEF f
<1>4. f \in Injection(F, 1 .. n)
  BY <1>2, <1>3 DEF Injection, IsInjective
<1>5. IsFiniteSet(1 .. n)
  BY FS_Interval
<1> QED BY <1>4, <1>5, FS_Injection, FS_CardinalityType

\* Ranks are numbers below the count of the spans, and grow with the spans' places.
LEMMA RankIs ==
  ASSUME NEW n \in Nat, NEW S, S \subseteq 1 .. n, NEW F, SplitsWell(F, S), NEW a \in F
  PROVE  /\ Rank(F, a) \in Nat /\ Rank(F, a) < Cardinality(F)
         /\ \A b \in F : Min(a) < Min(b) => Rank(F, a) < Rank(F, b)
<1> DEFINE B(c) == {b \in F : Min(b) < Min(c)}
<1>1. IsFiniteSet(F) /\ Cardinality(F) \in Nat
  BY SplitFinite
<1>2. \A c \in F : Min(c) \in Nat
  <2>1. ASSUME NEW c \in F PROVE Min(c) \in Nat
    <3>1. Min(c) \in c /\ c \subseteq Nat
      BY EndsOfSet
    <3> QED BY <3>1
  <2> QED BY <2>1
<1>3. a \notin B(a) /\ B(a) \subseteq F
  BY <1>2
<1>4. ASSUME NEW b \in F, Min(a) < Min(b) PROVE B(a) \subseteq B(b) /\ a \in B(b) /\ B(b) \subseteq F
  BY <1>2, <1>4
<1> HIDE DEF B
<1>5. ASSUME NEW X, X \subseteq F, NEW Y, Y \subseteq X, Y # X
      PROVE  Cardinality(Y) < Cardinality(X) /\ Cardinality(Y) \in Nat
  <2>1. IsFiniteSet(X) /\ IsFiniteSet(Y) /\ Cardinality(Y) <= Cardinality(X) /\ Cardinality(Y) # Cardinality(X)
    <3>1. IsFiniteSet(X)
      BY <1>1, <1>5, FS_Subset
    <3> QED BY <1>5, <3>1, FS_Subset
  <2>2. Cardinality(Y) \in Nat /\ Cardinality(X) \in Nat
    BY <2>1, FS_CardinalityType
  <2> QED BY <2>1, <2>2
<1>6. Rank(F, a) \in Nat /\ Rank(F, a) < Cardinality(F)
  <2>1. B(a) # F
    BY <1>3
  <2> QED BY <1>3, <1>5, <2>1 DEF Rank, B
<1>7. ASSUME NEW b \in F, Min(a) < Min(b) PROVE Rank(F, a) < Rank(F, b)
  <2>1. B(a) # B(b) /\ B(a) \subseteq B(b) /\ B(b) \subseteq F
    BY <1>3, <1>4, <1>7
  <2> QED BY <1>5, <2>1 DEF Rank, B
<1> QED BY <1>6, <1>7

\* No two spans have the same rank.
LEMMA RankOne ==
  ASSUME NEW n \in Nat, NEW S, S \subseteq 1 .. n, NEW F, SplitsWell(F, S), NEW a \in F, NEW b \in F,
         Rank(F, a) <= Rank(F, b)
  PROVE  a = b \/ Min(a) < Min(b)
<1>1. Rank(F, a) \in Nat /\ Rank(F, b) \in Nat
  BY RankIs
<1>2. Min(b) < Min(a) => Rank(F, b) < Rank(F, a)
  BY RankIs
<1>3. a # b => Min(a) < Min(b) \/ Min(b) < Min(a)
  BY OrderedByMin
<1> QED BY <1>1, <1>2, <1>3

\* The place tells the span.
LEMMA RankSame ==
  ASSUME NEW n \in Nat, NEW S, S \subseteq 1 .. n, NEW F, SplitsWell(F, S), NEW a \in F, NEW b \in F,
         Rank(F, a) = Rank(F, b)
  PROVE  a = b
<1>1. Rank(F, a) \in Nat /\ Rank(F, b) \in Nat
  BY RankIs
<1>2. Min(a) < Min(b) => Rank(F, a) < Rank(F, b)
  BY RankIs
<1>3. Min(b) < Min(a) => Rank(F, b) < Rank(F, a)
  BY RankIs
<1>4. a # b => Min(a) < Min(b) \/ Min(b) < Min(a)
  BY OrderedByMin
<1> QED BY <1>1, <1>2, <1>3, <1>4

\* Every number below the count of the spans is a rank.
LEMMA RankOnto ==
  ASSUME NEW n \in Nat, NEW S, S \subseteq 1 .. n, NEW F, SplitsWell(F, S),
         NEW r \in Nat, r < Cardinality(F)
  PROVE  \E a \in F : Rank(F, a) = r
<1> DEFINE N == Cardinality(F)
           T == 0 .. N - 1
           f == [a \in F |-> Rank(F, a)]
<1>1. IsFiniteSet(F) /\ N \in Nat
  BY SplitFinite
<1>2. \A a \in F : Rank(F, a) \in T
  <2>1. \A a \in F : Rank(F, a) \in Nat /\ Rank(F, a) < N
    BY RankIs
  <2> HIDE DEF N
  <2> QED BY <1>1, <2>1
<1>3. \A a, b \in F : f[a] = f[b] => a = b
  <2>1. \A a, b \in F : Rank(F, a) = Rank(F, b) => a = b
    BY RankSame
  <2> QED BY <2>1
<1>4. f \in [F -> T]
  <2> HIDE DEF T
  <2> QED BY <1>2
<1>5. IsFiniteSet(T) /\ Cardinality(T) = N
  <2> HIDE DEF N
  <2>1. 0 \in Int /\ N - 1 \in Int /\ (IF 0 > N - 1 THEN 0 ELSE N - 1 - 0 + 1) = N
    BY <1>1
  <2> QED BY <2>1, FS_Interval
<1> HIDE DEF f, N
<1>6. r \in T
  BY <1>1 DEF N
<1> HIDE DEF T
<1>7. f \in Injection(F, T)
  BY <1>3, <1>4 DEF Injection, IsInjective
<1>8. f \in Surjection(F, T)
  BY <1>5, <1>7, FS_Injection DEF N
<1>9. PICK a \in F : f[a] = r
  BY <1>6, <1>8 DEF Surjection
<1> QED BY <1>9 DEF f

\* s is the sets of F, one after the other.
Ordered(s, F) ==
  /\ Len(s) \in Nat /\ DOMAIN s = 1 .. Len(s)
  /\ \A i \in 1 .. Len(s) : s[i] \in F
  /\ \A a \in F : \E i \in 1 .. Len(s) : s[i] = a
  /\ \A i, j \in 1 .. Len(s) : i < j => \A u \in s[i], v \in s[j] : u < v

\* InOrder puts each span in its place, and so lists them all in order.
LEMMA InOrderIs ==
  ASSUME NEW n \in Nat, NEW S, S \subseteq 1 .. n, NEW F, SplitsWell(F, S)
  PROVE  Ordered(InOrder(F), F)
<1> DEFINE N == Cardinality(F)
           s == InOrder(F)
<1>1. N \in Nat
  BY SplitFinite
<1>2. s = [i \in 1 .. N |-> CHOOSE a \in F : Rank(F, a) = i - 1]
  BY DEF InOrder, Rank
<1> HIDE DEF s
<1>3. ASSUME NEW i \in 1 .. N PROVE s[i] \in F /\ Rank(F, s[i]) = i - 1
  <2>1. i - 1 \in Nat /\ i - 1 < N
    BY <1>1
  <2>2. \E a \in F : Rank(F, a) = i - 1
    BY <2>1, RankOnto
  <2>3. s[i] = CHOOSE a \in F : Rank(F, a) = i - 1
    BY <1>2
  <2> QED BY <2>2, <2>3
<1>4. Len(s) = N /\ DOMAIN s = 1 .. N
  <2> HIDE DEF N
  <2>1. s = [i \in 1 .. N |-> s[i]]
    BY <1>2
  <2>2. s \in [1 .. N -> F]
    BY <1>3, <2>1
  <2>3. s \in Seq(F)
    BY <1>1, <2>2
  <2>4. DOMAIN s = 1 .. Len(s) /\ Len(s) \in Nat
    BY <2>3, LenProperties
  <2>5. DOMAIN s = 1 .. N
    BY <2>2
  <2> DEFINE l == Len(s)
             d == DOMAIN s
  <2>6. l = N
    <3>1. d = 1 .. l /\ d = 1 .. N /\ l \in Nat
      BY <2>4, <2>5
    <3> HIDE DEF l, d
    <3> QED BY <1>1, <3>1
  <2> QED BY <2>5, <2>6
<1>5. ASSUME NEW a \in F PROVE \E i \in 1 .. N : s[i] = a
  <2> DEFINE r == Rank(F, a)
             i == r + 1
  <2>1. r \in Nat /\ r < N
    BY RankIs
  <2> HIDE DEF r, N
  <2>2. i \in 1 .. N /\ i - 1 = r
    BY <1>1, <2>1
  <2>3. s[i] \in F /\ Rank(F, s[i]) = Rank(F, a)
    BY <1>3, <2>2 DEF r
  <2> DEFINE b == s[i]
  <2>4. b \in F /\ Rank(F, b) = Rank(F, a)
    BY <2>3
  <2> HIDE DEF b
  <2>5. b = a
    BY <2>4, RankSame
  <2>6. s[i] = a
    BY <2>5 DEF b
  <2> QED BY <2>2, <2>6
<1>6. ASSUME NEW i \in 1 .. N, NEW j \in 1 .. N, i < j, NEW u \in s[i], NEW v \in s[j] PROVE u < v
  <2> DEFINE a == s[i]
             b == s[j]
  <2>1. a \in F /\ b \in F /\ Rank(F, a) = i - 1 /\ Rank(F, b) = j - 1 /\ u \in a /\ v \in b
    BY <1>3, <1>6
  <2> HIDE DEF a, b, N
  <2>2. Rank(F, a) <= Rank(F, b) /\ Rank(F, a) # Rank(F, b)
    BY <1>1, <1>6, <2>1
  <2>3. Min(a) < Min(b)
    <3>1. a = b \/ Min(a) < Min(b)
      BY <2>1, <2>2, RankOne
    <3> QED BY <2>2, <3>1
  <2> QED BY <2>1, <2>3, OrderedByMin
<1> HIDE DEF N
<1>7. Ordered(s, F)
  BY <1>1, <1>3, <1>4, <1>5, <1>6 DEF Ordered
<1> QED BY <1>7 DEF s

-----------------------------------------------------------------------------
(* Chains that cancel out.                                                 *)

\* The last span of the unit that begins with the k-th.
LEMMA LastOfIs ==
  ASSUME NEW s, Len(s) \in Nat, NEW k \in 1 .. Len(s)
  PROVE  /\ LastOf(s, k) \in k .. Len(s)
         /\ IF Partners(s, k) = {} THEN LastOf(s, k) = k ELSE LastOf(s, k) > k
         /\ LastOf(s, k) > k => LastOf(s, k) \in Partners(s, k)
<1> DEFINE P == Partners(s, k)
<1>1. P \subseteq k + 1 .. Len(s)
  BY DEF Partners
<1>2. CASE P = {}
  BY <1>2 DEF LastOf
<1>3. CASE P # {}
  <2>1. P \subseteq Nat
    BY <1>1
  <2> HIDE DEF P
  <2>2. Min(P) \in P
    BY <1>3, <2>1, MinIs
  <2>3. LastOf(s, k) = Min(P)
    BY <1>3 DEF LastOf, P
  <2>4. LastOf(s, k) \in P /\ LastOf(s, k) \in k + 1 .. Len(s)
    BY <1>1, <2>2, <2>3
  <2> QED BY <1>3, <2>4 DEF P
<1> QED BY <1>2, <1>3

\* f[k] is what FoldChains makes of the spans from the k-th on.
IsChain(f, s) ==
  f = [k \in 1 .. Len(s) + 1 |-> IF k > Len(s) THEN {} ELSE {UnitAt(s, k)} \cup f[LastOf(s, k) + 1]]

\* There is such a function.
LEMMA ChainExists ==
  ASSUME NEW s, Len(s) \in Nat
  PROVE  \E f : IsChain(f, s)
<1> DEFINE n == Len(s)
           A(k) == {UnitAt(s, k)}
           L(k) == LastOf(s, k) + 1
           Is(f, k) == f = [i \in k .. n + 1 |-> IF i > n THEN {} ELSE A(i) \cup f[L(i)]]
           S == {k \in 0 .. n + 1 : k = 0 \/ \E f : Is(f, k)}
<1>0. \A k \in 1 .. n : L(k) \in k + 1 .. n + 1
  <2> SUFFICES ASSUME NEW k \in 1 .. n PROVE L(k) \in k + 1 .. n + 1
    OBVIOUS
  <2> DEFINE l == LastOf(s, k)
  <2>1. l \in k .. n
    BY LastOfIs
  <2> HIDE DEF l
  <2>2. l + 1 \in k + 1 .. n + 1
    BY <2>1
  <2> QED BY <2>2 DEF l
<1> HIDE DEF A, L
<1>1. n + 1 \in S
  <2> DEFINE h == [i \in n + 1 .. n + 1 |-> {}]
  <2>1. \A i \in n + 1 .. n + 1 : i > n
    OBVIOUS
  <2>2. h = [i \in n + 1 .. n + 1 |-> IF i > n THEN {} ELSE A(i) \cup h[L(i)]]
    BY <2>1
  <2>3. Is(h, n + 1)
    <3> HIDE DEF h
    <3> QED BY <2>2
  <2>4. \E f : Is(f, n + 1)
    <3> HIDE DEF h, Is
    <3> QED BY <2>3
  <2> QED BY <2>4
<1>2. ASSUME NEW k \in 0 .. n + 1, k > 0, k \in S PROVE k - 1 \in S
  <2> SUFFICES ASSUME k - 1 # 0 PROVE \E f : Is(f, k - 1)
    BY <1>2
  <2>1. PICK f : Is(f, k)
    BY <1>2
  <2> DEFINE j == k - 1
             g == [i \in j .. n + 1 |-> IF i = j THEN A(j) \cup f[L(j)] ELSE f[i]]
  <2>2. j \in 1 .. n /\ k = j + 1 /\ L(j) \in j + 1 .. n + 1
    <3>1. j \in 1 .. n /\ k = j + 1
      BY <1>2
    <3> QED BY <1>0, <3>1
  <2> HIDE DEF j
  <2>3. \A i \in j + 1 .. n + 1 : f[i] = IF i > n THEN {} ELSE A(i) \cup f[L(i)]
    BY <2>1, <2>2
  <2>4. \A i \in j .. n + 1 : g[i] = IF i > n THEN {} ELSE A(i) \cup g[L(i)]
    <3> SUFFICES ASSUME NEW i \in j .. n + 1 PROVE g[i] = IF i > n THEN {} ELSE A(i) \cup g[L(i)]
      OBVIOUS
    <3>0. \A l \in j + 1 .. n + 1 : g[l] = f[l]
      BY <2>2
    <3>1. CASE i = j
      <4>1. g[i] = A(j) \cup f[L(j)] /\ ~(i > n)
        BY <2>2, <3>1
      <4> HIDE DEF g
      <4> QED BY <2>2, <3>0, <3>1, <4>1
    <3>2. CASE i # j
      <4>1. i \in j + 1 .. n + 1
        BY <2>2, <3>2
      <4>2. ~(i > n) => L(i) \in j + 1 .. n + 1
        <5> SUFFICES ASSUME ~(i > n) PROVE L(i) \in j + 1 .. n + 1
          OBVIOUS
        <5>1. i \in 1 .. n
          BY <2>2, <4>1
        <5>2. L(i) \in i + 1 .. n + 1
          BY <1>0, <5>1
        <5> QED BY <2>2, <4>1, <5>2
      <4> HIDE DEF g
      <4> QED BY <2>3, <3>0, <4>1, <4>2
    <3> QED BY <3>1, <3>2
  <2>5. Is(g, j)
    <3>1. g = [i \in j .. n + 1 |-> g[i]]
      OBVIOUS
    <3> HIDE DEF g
    <3> QED BY <2>4, <3>1
  <2>6. \E h : Is(h, j)
    <3> HIDE DEF g, Is
    <3> QED BY <2>5
  <2> QED BY <2>6 DEF j
<1>3. 0 .. n + 1 \subseteq S
  <2>1. n + 1 \in Nat
    OBVIOUS
  <2> HIDE DEF S
  <2> QED BY <1>1, <1>2, <2>1, DownInd
<1>4. 1 \in S
  <2>1. 1 \in 0 .. n + 1
    OBVIOUS
  <2> HIDE DEF S
  <2> QED BY <1>3, <2>1
<1>5. PICK f : Is(f, 1)
  BY <1>4
<1> QED BY <1>5 DEF IsChain, A, L

\* FoldChains is what that function makes of all the spans in order.
LEMMA ChainsAre ==
  ASSUME NEW F, Len(InOrder(F)) \in Nat
  PROVE  \E f : IsChain(f, InOrder(F)) /\ FoldChains(F) = f[1]
<1> DEFINE s == InOrder(F)
           g == CHOOSE f : IsChain(f, s)
<1>1. IsChain(g, s)
  BY ChainExists
<1>2. FoldChains(F) = g[1]
  BY DEF FoldChains, IsChain
<1> QED BY <1>1, <1>2

-----------------------------------------------------------------------------
(* Units.                                                                  *)

\* What the spans from i to j hold.
Spanned(s, i, j) == UNION {s[k] : k \in i .. j}

\* A unit: its spans, joined one to the next, of which none but the last cancels the first.
LEMMA UnitIs ==
  ASSUME NEW s, Len(s) \in Nat, NEW k \in 1 .. Len(s)
  PROVE  /\ UnitAt(s, k).ids = Spanned(s, k, LastOf(s, k))
         /\ \A i \in k .. LastOf(s, k) - 1 : Joins(s[i], s[i + 1])
<1>1. UnitAt(s, k).ids = Spanned(s, k, LastOf(s, k))
  BY DEF UnitAt, Spanned
<1>2. ASSUME NEW i \in k .. LastOf(s, k) - 1 PROVE Joins(s[i], s[i + 1])
  <2>1. LastOf(s, k) \in k .. Len(s) /\ (LastOf(s, k) > k => LastOf(s, k) \in Partners(s, k))
    BY LastOfIs
  <2> DEFINE l == LastOf(s, k)
  <2>2. l \in k .. Len(s) /\ i \in k .. l - 1
    BY <2>1
  <2>3. l > k => l \in Partners(s, k)
    BY <2>1
  <2> HIDE DEF l
  <2>4. l > k
    BY <2>2
  <2>5. l \in Partners(s, k)
    BY <2>3, <2>4
  <2> QED BY <2>2, <2>5 DEF Partners
<1> QED BY <1>1, <1>2

\* Neighbouring spans that are joined make an unbroken set.
LEMMA JoinedExact ==
  ASSUME NEW n \in Nat, NEW S, S \subseteq 1 .. n, NEW F, SplitsWell(F, S), NEW s, Ordered(s, F),
         NEW k \in 1 .. Len(s), NEW l \in 1 .. Len(s), \A i \in k .. l - 1 : Joins(s[i], s[i + 1])
  PROVE  Unbroken(Spanned(s, k, l))
<1> SUFFICES ASSUME NEW x \in Spanned(s, k, l), NEW y \in Spanned(s, k, l), x < y
             PROVE  x + 1 \in Spanned(s, k, l) /\ log[x].after = log[x + 1].before
  BY DEF Unbroken
<1>0. Len(s) \in Nat /\ k \in Nat /\ l \in Nat /\ l <= Len(s) /\ 1 <= k
  BY DEF Ordered
<1>1. PICK i \in k .. l : x \in s[i]
  BY DEF Spanned
<1>2. PICK j \in k .. l : y \in s[j]
  BY DEF Spanned
<1> DEFINE a == s[i]
           b == s[j]
<1>3. a \in F /\ b \in F /\ i \in 1 .. Len(s) /\ j \in 1 .. Len(s)
  <2>1. i \in 1 .. Len(s) /\ j \in 1 .. Len(s)
    BY <1>0, <1>1, <1>2
  <2> QED BY <2>1 DEF Ordered
<1>4. x \in a /\ y \in b
  BY <1>1, <1>2
<1>5. j < i => y < x
  BY <1>1, <1>2, <1>3 DEF Ordered
<1>6. i = j => a = b
  OBVIOUS
<1> HIDE DEF a, b
<1>7. a \subseteq Nat /\ b \subseteq Nat /\ Max(a) \in a /\ x <= Max(a) /\ y \in Nat
  <2>1. a \subseteq Nat /\ b \subseteq Nat
    BY <1>3, EndsOfSet
  <2> QED BY <1>3, <1>4, <2>1, EndsOfSet
<1>8. CASE x < Max(a)
  <2>1. x + 1 \in a /\ log[x].after = log[x + 1].before
    BY <1>3, <1>4, <1>7, <1>8 DEF SplitsWell, Unbroken
  <2>2. a \subseteq Spanned(s, k, l)
    BY <1>1 DEF a, Spanned
  <2> QED BY <2>1, <2>2
<1>9. CASE x = Max(a)
  <2>1. i # j
    <3> SUFFICES ASSUME i = j PROVE FALSE
      OBVIOUS
    <3>1. y \in a
      BY <1>4, <1>6
    <3>2. y <= Max(a)
      BY <1>3, <3>1, EndsOfSet
    <3> QED BY <1>4, <1>7, <1>9, <3>2
  <2>2. i < j
    BY <1>1, <1>2, <1>4, <1>5, <1>7, <2>1
  <2>3. i \in k .. l - 1 /\ i + 1 \in 1 .. Len(s) /\ i + 1 \in k .. l
    BY <1>0, <1>1, <1>2, <2>2
  <2> DEFINE c == s[i + 1]
  <2>4. c \in F /\ Joins(a, c) /\ c \subseteq Spanned(s, k, l)
    BY <2>3 DEF Ordered, a, Spanned
  <2> HIDE DEF c
  <2>5. Min(c) \in c /\ Min(c) = x + 1 /\ log[x].after = log[x + 1].before
    BY <1>9, <2>4, EndsOfSet DEF Joins, Adjacent, AfterOf, BeforeOf
  <2> QED BY <2>4, <2>5
<1>10. x \in Nat /\ Max(a) \in Nat
  BY <1>4, <1>7
<1> QED BY <1>7, <1>8, <1>9, <1>10

\* What units hold, one by one, and that each is made of spans of s.
IdsOf(units) == {u.ids : u \in units}
MadeOf(units, s) == \A u \in units : \E k \in 1 .. Len(s) : u = UnitAt(s, k)

\* The units made of the spans from the k-th on are a split of what these hold, and each begins with one of them.
LEMMA ChainSplits ==
  ASSUME NEW n \in Nat, NEW S, S \subseteq 1 .. n, NEW F, SplitsWell(F, S), NEW s, Ordered(s, F),
         NEW f, IsChain(f, s)
  PROVE  SplitsWell(IdsOf(f[1]), S) /\ MadeOf(f[1], s)
<1> DEFINE m == Len(s)
           P(k) == /\ SplitsWell(IdsOf(f[k]), Spanned(s, k, m))
                   /\ \A u \in f[k] : \E j \in k .. m : u = UnitAt(s, j)
           K == {k \in 0 .. m + 1 : \A j \in k .. m + 1 : j = 0 \/ P(j)}
<1>0. m \in Nat
  BY DEF Ordered
<1>1. m + 1 \in K
  <2>1. f[m + 1] = {}
    BY <1>0 DEF IsChain
  <2>2. Spanned(s, m + 1, m) = {} /\ IdsOf({}) = {}
    BY <1>0 DEF Spanned, IdsOf
  <2>3. SplitsWell(IdsOf(f[m + 1]), Spanned(s, m + 1, m))
    BY <2>1, <2>2 DEF SplitsWell, Splits
  <2>4. P(m + 1)
    BY <2>1, <2>3
  <2> HIDE DEF P
  <2> QED BY <1>0, <2>4
<1>2. ASSUME NEW i \in 0 .. m + 1, i > 0, i \in K PROVE i - 1 \in K
  <2> SUFFICES ASSUME i - 1 > 0 PROVE P(i - 1)
    <3>1. \A j \in i - 1 .. m + 1 : j = i - 1 \/ j \in i .. m + 1
      BY <1>0
    <3>2. i - 1 \in 0 .. m + 1 /\ ~(i - 1 > 0) => i - 1 = 0
      BY <1>0, <1>2
    <3> HIDE DEF P
    <3> QED BY <1>0, <1>2, <3>1, <3>2
  <2> DEFINE k == i - 1
             l == LastOf(s, k)
  <2>1. k \in 1 .. m
    BY <1>0, <1>2
  <2>2. l \in k .. m /\ (\A j \in k .. l - 1 : Joins(s[j], s[j + 1])) /\ UnitAt(s, k).ids = Spanned(s, k, l)
    BY <1>0, <2>1, LastOfIs, UnitIs
  <2>3. f[k] = {UnitAt(s, k)} \cup f[l + 1]
    <3> DEFINE Body(j) == {UnitAt(s, j)} \cup f[LastOf(s, j) + 1]
    <3>1. \A j \in 1 .. m + 1 : f[j] = IF j > m THEN {} ELSE Body(j)
      BY DEF IsChain
    <3>2. \A j \in 1 .. m : j \in 1 .. m + 1 /\ ~(j > m)
      BY <1>0
    <3> HIDE DEF Body, m, k
    <3>3. f[k] = Body(k)
      BY <2>1, <3>1, <3>2
    <3> QED BY <3>3 DEF Body
  <2>4. i \in 0 .. m + 1 /\ i = k + 1
    BY <1>2
  <2> HIDE DEF k, l
  <2>5. l + 1 \in i .. m + 1 /\ l + 1 # 0 /\ l \in 1 .. m
    BY <1>0, <2>1, <2>2, <2>4
  <2>6. P(l + 1)
    <3> HIDE DEF P
    <3> QED BY <1>2, <2>5
  <2> DEFINE rest == Spanned(s, l + 1, m)
             here == Spanned(s, k, l)
  <2>7. Spanned(s, k, m) = here \cup rest
    <3>1. \A j : j \in k .. m <=> j \in k .. l \/ j \in l + 1 .. m
      BY <1>0, <2>1, <2>2
    <3> QED BY <3>1 DEF Spanned
  <2>8. here \cap rest = {}
    <3> SUFFICES ASSUME NEW x \in here, x \in rest PROVE FALSE
      OBVIOUS
    <3>1. PICK a \in k .. l : x \in s[a]
      BY DEF Spanned
    <3>2. PICK b \in l + 1 .. m : x \in s[b]
      BY DEF Spanned
    <3>3. a \in 1 .. m /\ b \in 1 .. m /\ a < b
      BY <1>0, <2>1, <2>2, <3>1, <3>2
    <3>4. x < x
      BY <3>1, <3>2, <3>3 DEF Ordered
    <3>5. x \in Nat
      <4>1. s[a] \in F
        BY <3>3 DEF Ordered
      <4>2. \A g \in F : g \subseteq S
        BY DEF SplitsWell, Splits
      <4> DEFINE c == s[a]
      <4> HIDE DEF c
      <4>3. c \subseteq S
        BY <4>1, <4>2 DEF c
      <4>4. x \in S
        BY <3>1, <4>3 DEF c
      <4> QED BY <4>4
    <3> QED BY <3>4, <3>5
  <2>9. here # {}
    <3>1. s[k] \in F /\ k \in k .. l
      BY <1>0, <2>1, <2>2 DEF Ordered
    <3>2. s[k] # {}
      BY <3>1 DEF SplitsWell, Splits
    <3> QED BY <3>1, <3>2 DEF Spanned
  <2>10. Unbroken(here)
    BY <2>1, <2>2, <2>5, JoinedExact
  <2>11. IdsOf(f[k]) = {here} \cup IdsOf(f[l + 1])
    BY <2>2, <2>3 DEF IdsOf
  <2> HIDE DEF here, rest
  <2>12. SplitsWell(IdsOf(f[k]), here \cup rest)
    BY <2>6, <2>8, <2>9, <2>10, <2>11 DEF SplitsWell, Splits, rest
  <2>13. \A u \in f[k] : \E j \in k .. m : u = UnitAt(s, j)
    <3>1. \A u \in f[l + 1] : \E j \in l + 1 .. m : u = UnitAt(s, j)
      BY <2>6
    <3>2. k \in k .. m /\ \A j \in l + 1 .. m : j \in k .. m
      BY <1>0, <2>1, <2>2
    <3> QED BY <2>3, <3>1, <3>2
  <2>14. P(k)
    BY <2>7, <2>12, <2>13
  <2> HIDE DEF P
  <2> QED BY <2>14 DEF k
<1>3. 0 .. m + 1 \subseteq K
  <2>1. m + 1 \in Nat
    BY <1>0
  <2> HIDE DEF K, m
  <2> QED BY <1>1, <1>2, <2>1, DownInd
<1>4. P(1)
  <2>1. 1 \in 0 .. m + 1 /\ 1 \in 1 .. m + 1 /\ 1 # 0
    BY <1>0
  <2> HIDE DEF P
  <2> QED BY <1>3, <2>1
<1>5. Spanned(s, 1, m) = S
  <2>1. \A x \in S : \E a \in F : x \in a
    BY DEF SplitsWell, Splits
  <2>2. \A a \in F : a \subseteq S
    BY DEF SplitsWell, Splits
  <2> QED BY <2>1, <2>2 DEF Spanned, Ordered
<1> QED BY <1>4, <1>5 DEF MadeOf

\* The units of the records of one status are a split of these into unbroken sets.
LEMMA UnitsExact ==
  ASSUME NEW n \in Nat, NEW mine, mine \subseteq 1 .. n
  PROVE  SplitsWell(GroupsOf(mine), mine)
<1> DEFINE F == AbsenceFolded(SpansOfAll(mine))
           s == InOrder(F)
<1>1. SplitsWell(F, mine)
  BY SpansExact, FoldsExact
<1>2. Ordered(s, F)
  BY <1>1, InOrderIs
<1>3. UnitsOf(mine) = FoldChains(F)
  BY DEF UnitsOf, SpansOfAll
<1>4. PICK f : IsChain(f, s) /\ FoldChains(F) = f[1]
  BY <1>2, ChainsAre DEF Ordered
<1>5. GroupsOf(mine) = IdsOf(f[1])
  BY <1>3, <1>4 DEF GroupsOf, IdsOf
<1> HIDE DEF F, s
<1> QED BY <1>1, <1>2, <1>4, <1>5, ChainSplits

-----------------------------------------------------------------------------
(* The records: what every step keeps of them.                             *)

\* What the ledger holds of the file.
Records == [before : Contents, after : Contents, ask : Nat]

\* The invariant: the records are a sequence, whatever their verdicts are and whatever is on disk.
LogInv == ask \in Nat /\ log \in Seq(Records)

\* At first there is none, or the one an older store wrote.
LEMMA LogInvInit == UnitsInit => LogInv
<1> SUFFICES ASSUME UnitsInit PROVE LogInv
  OBVIOUS
<1>1. BlobLess \in Records
  BY DEF BlobLess, Records, Contents
<1>2. <<>> \in Seq(Records) /\ <<BlobLess>> \in Seq(Records)
  BY <1>1
<1> QED BY <1>2 DEF UnitsInit, LogInv

\* A capture adds one, and nothing takes one away.
LEMMA LogInvStep == LogInv /\ [UnitsNext]_unitsVars => LogInv'
<1> SUFFICES ASSUME LogInv, [UnitsNext]_unitsVars PROVE LogInv'
  OBVIOUS
<1>1. ASSUME NEW to \in Contents, Capture(to) PROVE LogInv'
  <2> DEFINE e == [before |-> file, after |-> to, ask |-> ask]
  <2>1. file \in Contents
    BY <1>1 DEF Capture, Hops
  <2>2. e \in Records
    BY <2>1 DEF Records, LogInv
  <2>3. log' = Append(log, e) /\ ask' = ask
    BY <1>1 DEF Capture
  <2> HIDE DEF e
  <2> QED BY <2>2, <2>3, AppendProperties DEF LogInv
<1>2. ASSUME NEW to \in Foreign, OtherWrite(to) PROVE LogInv'
  BY <1>2 DEF OtherWrite, LogInv
<1>3. CASE NewAsk
  BY <1>3 DEF NewAsk, LogInv
<1>4. ASSUME NEW ids, NEW status, Decide(ids, status) PROVE LogInv'
  BY <1>4 DEF Decide, LogInv
<1>5. ASSUME NEW g, KeepGroup(g) PROVE LogInv'
  BY <1>4, <1>5 DEF KeepGroup
<1>6. ASSUME NEW g, UndoGroup(g) PROVE LogInv'
  BY <1>4, <1>6 DEF UndoGroup
<1>7. ASSUME NEW ids, UndoIds(ids) PROVE LogInv'
  <2>1. PICK r \in UndoScope(ids) : Decide(r.undone, "undone")
    BY <1>7 DEF UndoIds
  <2> QED BY <1>4, <2>1
<1>8. CASE UNCHANGED unitsVars
  BY <1>8 DEF unitsVars, LogInv
<1> QED BY <1>1, <1>2, <1>3, <1>5, <1>6, <1>7, <1>8 DEF UnitsNext

\* Whatever the records and their verdicts are, the units are exact.
LEMMA LogInvExact == LogInv => UnitsAreExact
<1> SUFFICES ASSUME LogInv, NEW status \in Statuses
             PROVE  LET groups == Groups(status)
                    IN  /\ UNION groups = Ids(status)
                        /\ \A g, h \in groups : g # h => g \cap h = {}
                        /\ \A g \in groups : \A i \in g :
                             i < Max(g) => i + 1 \in g /\ log[i].after = log[i + 1].before
  BY DEF UnitsAreExact
<1> DEFINE groups == Groups(status)
           mine == Ids(status)
<1>1. Len(log) \in Nat /\ mine \subseteq 1 .. Len(log)
  BY DEF LogInv, Ids
<1>2. groups = GroupsOf(mine)
  BY DEF Groups
<1> HIDE DEF groups, mine
<1>3. SplitsWell(groups, mine)
  BY <1>1, <1>2, UnitsExact
<1>4. UNION groups = mine /\ \A g, h \in groups : g # h => g \cap h = {}
  BY <1>3 DEF SplitsWell, Splits
<1>5. ASSUME NEW g \in groups, NEW i \in g, i < Max(g)
      PROVE  i + 1 \in g /\ log[i].after = log[i + 1].before
  <2>1. Max(g) \in g
    BY <1>1, <1>3, EndsOfSet
  <2>2. Unbroken(g)
    BY <1>3 DEF SplitsWell
  <2> QED BY <1>5, <2>1, <2>2 DEF Unbroken
<1> QED BY <1>4, <1>5 DEF groups, mine

\* Every edit is in one unit of its status, and a unit is an unbroken run of the file's records (computeUnits):
\* whatever was captured, decided or written behind the ledger's back, for every number of records.
THEOREM UnitsHold == UnitsSpec => []UnitsAreExact
<1> QED BY LogInvInit, LogInvStep, LogInvExact, PTL DEF UnitsSpec

-----------------------------------------------------------------------------
(* Rows: no two that tell one story.                                       *)

\* Two linked neighbours are in one piece.
LEMMA PieceHolds ==
  ASSUME NEW n \in Nat, NEW S, S \subseteq 1 .. n, NEW links, NEW i \in S, NEW k \in S, i < k,
         <<i, k>> \in links, \A l \in S : l <= i \/ k <= l,
         NEW P \in Pieces(S, links), i \in P, NEW Q \in Pieces(S, links), k \in Q
  PROVE  P = Q
<1>1. S \subseteq Nat
  OBVIOUS
<1>2. Max({l \in S : l < k}) = i
  <2> DEFINE T == {l \in S : l < k}
  <2>1. T \subseteq 1 .. n /\ T \subseteq Nat /\ i \in T
    BY <1>1
  <2>2. \A l \in T : l <= i
    <3> SUFFICES ASSUME NEW l \in S, l < k PROVE l <= i
      OBVIOUS
    <3> QED BY <1>1
  <2> HIDE DEF T
  <2>3. Max(T) \in T /\ i <= Max(T)
    BY <2>1, MaxIs
  <2>4. Max(T) \in Nat /\ i \in Nat /\ Max(T) <= i
    BY <2>1, <2>2, <2>3
  <2>5. Max(T) = i
    BY <2>3, <2>4
  <2> QED BY <2>5 DEF T
<1>3. k \notin Cuts(S, links)
  BY <1>2 DEF Cuts
<1>4. \A q \in Cuts(S, links) : q <= i <=> q <= k
  <2> SUFFICES ASSUME NEW q \in Cuts(S, links) PROVE q <= i <=> q <= k
    OBVIOUS
  <2>1. q \in S /\ q # k
    BY <1>3 DEF Cuts
  <2> QED BY <1>1, <2>1
<1>5. Piece(S, links, i) = Piece(S, links, k)
  BY <1>4 DEF Piece
<1>6. \A j \in S : j \in Piece(S, links, j) /\ Piece(S, links, j) \in Pieces(S, links)
  BY PiecesAre DEF Piece
<1>7. \A A, B \in Pieces(S, links) : A # B => A \cap B = {}
  BY PiecesSplit DEF Splits
<1>8. P = Piece(S, links, i) /\ Q = Piece(S, links, k)
  BY <1>6, <1>7
<1> QED BY <1>5, <1>8

\* Of a fold, the span before one that is not its first meets it.
LEMMA FoldMeetsBefore ==
  ASSUME NEW n \in Nat, NEW S, S \subseteq 1 .. n, NEW F, SplitsWell(F, S), NEW G \in Pieces(Starts(F), Met(F)),
         NEW a \in F, Min(a) \in G, NEW b \in F, Min(b) \in G, Min(a) < Min(b)
  PROVE  \E c \in F : Meet(c, b)
<1> DEFINE T == {x \in G : x < Min(b)}
<1>1. G \subseteq Starts(F)
  BY PiecesSplit DEF Splits
<1>2. \A d \in F : Min(d) \in Starts(F) /\ Min(d) \in 1 .. n
  BY EndsOfSet DEF Starts
<1>3. Starts(F) \subseteq 1 .. n
  BY <1>2 DEF Starts
<1>4. T \subseteq 1 .. n /\ T # {}
  BY <1>1, <1>3
<1>5. PICK x \in T : \A y \in T : y <= x
  <2> HIDE DEF T
  <2> QED BY <1>4, MaxIs
<1>6. PICK c \in F : Min(c) = x
  BY <1>1, <1>5 DEF Starts
<1>7. Min(c) \in G /\ Min(c) < Min(b)
  BY <1>5, <1>6
<1>8. PICK d \in F : Min(d) \in G /\ Meet(c, d)
  BY <1>7, FoldMeets
<1>9. Max(c) \in c /\ Min(b) \in b /\ c \subseteq Nat /\ \A y \in c : Min(c) <= y
  BY EndsOfSet
<1>10. Max(c) < Min(b)
  BY <1>7, <1>9, OrderedByMin
<1>11. Min(d) = Max(c) + 1
  BY <1>8 DEF Meet, Adjacent
<1>12. ~(Min(d) < Min(b))
  <2> SUFFICES ASSUME Min(d) < Min(b) PROVE FALSE
    OBVIOUS
  <2>1. Min(d) <= Min(c)
    BY <1>5, <1>6, <1>8
  <2>2. Min(c) \in c /\ Max(c) \in Nat
    BY <1>9, EndsOfSet
  <2>3. Min(c) <= Max(c) /\ Min(c) \in Nat
    BY <1>9, <2>2
  <2> QED BY <1>11, <2>1, <2>2, <2>3
<1>13. Min(d) = Min(b)
  <2>1. b \subseteq Nat
    BY EndsOfSet
  <2>2. Max(c) \in Nat /\ Min(b) \in Nat
    BY <1>9, <2>1
  <2> QED BY <1>10, <1>11, <1>12, <2>2
<1>14. d = b
  BY <1>13, OrderedByMin
<1> QED BY <1>8, <1>14

\* Spans that meet are folded into one.
LEMMA FoldHolds ==
  ASSUME NEW n \in Nat, NEW S, S \subseteq 1 .. n, NEW F, SplitsWell(F, S), NEW c \in F, NEW d \in F, Meet(c, d),
         NEW G \in Pieces(Starts(F), Met(F)), Min(c) \in G, NEW H \in Pieces(Starts(F), Met(F)), Min(d) \in H
  PROVE  G = H
<1>1. c \subseteq Nat /\ Min(c) \in c /\ Max(c) \in c /\ \A x \in c : Min(c) <= x /\ x <= Max(c)
  BY EndsOfSet
<1>2. <<Min(c), Min(d)>> \in Met(F)
  <2> DEFINE e == <<c, d>>
  <2>1. e \in {g \in F \X F : Meet(g[1], g[2])} /\ e[1] = c /\ e[2] = d
    OBVIOUS
  <2> HIDE DEF e
  <2> QED BY <2>1 DEF Met
<1>3. Starts(F) \subseteq 1 .. n /\ Min(c) \in Starts(F) /\ Min(d) \in Starts(F)
  <2>1. \A g \in F : Min(g) \in 1 .. n
    BY EndsOfSet
  <2> QED BY <2>1 DEF Starts
<1>4. \A x \in Starts(F) : x <= Min(c) \/ Min(d) <= x
  <2> SUFFICES ASSUME NEW g \in F, ~(Min(g) <= Min(c)), ~(Min(d) <= Min(g)) PROVE FALSE
    BY DEF Starts
  <2>0. g \subseteq Nat /\ Min(g) \in g /\ d \subseteq Nat /\ Min(d) \in d
    BY EndsOfSet
  <2>1. Min(g) \in Nat /\ Min(c) \in Nat /\ Min(d) \in Nat /\ Max(c) \in Nat /\ Min(g) \in g
    BY <1>1, <2>0
  <2>2. Min(c) < Min(g) /\ Min(g) < Min(d)
    BY <2>1
  <2>3. Max(c) < Min(g)
    BY <1>1, <2>1, <2>2, OrderedByMin
  <2>4. Min(d) = Max(c) + 1
    BY DEF Meet, Adjacent
  <2> QED BY <2>1, <2>2, <2>3, <2>4
<1>5. Min(c) < Min(d)
  <2>1. Min(d) = Max(c) + 1 /\ Min(c) <= Max(c) /\ Min(c) \in Nat /\ Max(c) \in Nat
    BY <1>1 DEF Meet, Adjacent
  <2> QED BY <2>1
<1> QED BY <1>2, <1>3, <1>4, <1>5, PieceHolds

\* Nothing that has to be folded is left when it is done.
LEMMA FoldedApart ==
  ASSUME NEW n \in Nat, NEW S, S \subseteq 1 .. n, NEW F, SplitsWell(F, S),
         NEW a \in AbsenceFolded(F), NEW b \in AbsenceFolded(F)
  PROVE  ~Meet(a, b)
<1> SUFFICES ASSUME Meet(a, b) PROVE FALSE
  OBVIOUS
<1>1. SplitsWell(AbsenceFolded(F), S)
  BY FoldsExact
<1>2. a \subseteq Nat /\ Min(a) \in a /\ Max(a) \in a /\ \A x \in a : Min(a) <= x /\ x <= Max(a)
  BY <1>1, EndsOfSet
<1>3. b \subseteq Nat /\ Min(b) \in b /\ Max(b) \in b /\ \A x \in b : Min(b) <= x /\ x <= Max(b)
  BY <1>1, EndsOfSet
<1>4. PICK G \in Pieces(Starts(F), Met(F)) : a = Fold(F, G)
  BY FoldsAre
<1>5. PICK H \in Pieces(Starts(F), Met(F)) : b = Fold(F, H)
  BY FoldsAre
<1>6. PICK c \in F : Min(c) \in G /\ Max(a) \in c
  BY <1>2, <1>4 DEF Fold
<1>7. PICK d \in F : Min(d) \in H /\ Min(b) \in d
  BY <1>3, <1>5 DEF Fold
<1>8. c \subseteq a /\ d \subseteq b
  BY <1>4, <1>5, <1>6, <1>7 DEF Fold
<1>9. c \subseteq Nat /\ Min(c) \in c /\ Max(c) \in c /\ \A x \in c : Min(c) <= x /\ x <= Max(c)
  BY EndsOfSet
<1>10. d \subseteq Nat /\ Min(d) \in d /\ Max(d) \in d /\ \A x \in d : Min(d) <= x /\ x <= Max(d)
  BY EndsOfSet
<1>11. Max(c) = Max(a) /\ Min(d) = Min(b)
  <2>1. Max(c) <= Max(a) /\ Max(a) <= Max(c) /\ Max(a) \in Nat /\ Max(c) \in Nat
    BY <1>2, <1>6, <1>8, <1>9
  <2>2. Min(d) <= Min(b) /\ Min(b) <= Min(d) /\ Min(b) \in Nat /\ Min(d) \in Nat
    BY <1>3, <1>7, <1>8, <1>10
  <2> QED BY <2>1, <2>2
<1>12. ~Inert(c)
  <2>1. CASE \E e \in F : Min(e) \in G /\ e # c
    <3>1. PICK e \in F : Min(e) \in G /\ e # c
      BY <2>1
    <3>2. Min(e) \in e /\ Min(e) \in a
      <4>1. Min(e) \in e
        BY EndsOfSet
      <4> QED BY <1>4, <3>1, <4>1 DEF Fold
    <3>3. ~(Min(c) < Min(e))
      <4> SUFFICES ASSUME Min(c) < Min(e) PROVE FALSE
        OBVIOUS
      <4>1. Max(c) < Min(e)
        BY <1>9, <3>2, OrderedByMin
      <4>2. Min(e) <= Max(a) /\ Min(e) \in Nat /\ Max(a) \in Nat
        BY <1>2, <3>2
      <4> QED BY <1>11, <4>1, <4>2
    <3>4. Min(e) < Min(c)
      BY <3>1, <3>3, OrderedByMin
    <3>5. PICK g \in F : Meet(g, c)
      BY <1>6, <3>1, <3>4, FoldMeetsBefore
    <3> QED BY <3>5 DEF Meet
  <2>2. CASE \A e \in F : Min(e) \in G => e = c
    <3>1. a = c
      BY <1>4, <1>6, <2>2 DEF Fold
    <3> QED BY <3>1 DEF Meet
  <2> QED BY <2>1, <2>2
<1>13. ~Inert(d)
  <2>1. CASE \E e \in F : Min(e) \in H /\ e # d
    <3>1. PICK e \in F : Min(e) \in H /\ e # d
      BY <2>1
    <3>2. Min(e) \in e /\ Min(e) \in b
      <4>1. Min(e) \in e
        BY EndsOfSet
      <4> QED BY <1>5, <3>1, <4>1 DEF Fold
    <3>3. Min(b) <= Min(e) /\ Min(e) \in Nat /\ Min(b) \in Nat
      BY <1>3, <3>2
    <3>4. Min(d) < Min(e)
      <4>1. Min(d) < Min(e) \/ Min(e) < Min(d)
        BY <3>1, OrderedByMin
      <4> QED BY <1>11, <3>3, <4>1
    <3>5. PICK g \in F : Min(g) \in H /\ Meet(d, g)
      BY <1>7, <3>1, <3>4, FoldMeets
    <3> QED BY <3>5 DEF Meet
  <2>2. CASE \A e \in F : Min(e) \in H => e = d
    <3>1. b = d
      BY <1>5, <1>7, <2>2 DEF Fold
    <3> QED BY <3>1 DEF Meet
  <2> QED BY <2>1, <2>2
<1>14. Meet(c, d)
  BY <1>11, <1>12, <1>13 DEF Meet, Adjacent, AfterOf, BeforeOf
<1>15. G = H
  BY <1>6, <1>7, <1>14, FoldHolds
<1>16. Min(b) = Max(a) + 1 /\ a = b
  BY <1>4, <1>5, <1>15 DEF Meet, Adjacent
<1>17. Min(a) <= Max(a) /\ Max(a) \in Nat /\ Min(a) \in Nat
  BY <1>2
<1> QED BY <1>16, <1>17

\* The ends of spans that lie one after the other.
LEMMA SpannedEnds ==
  ASSUME NEW n \in Nat, NEW S, S \subseteq 1 .. n, NEW F, SplitsWell(F, S), NEW s, Ordered(s, F),
         NEW k \in 1 .. Len(s), NEW l \in k .. Len(s)
  PROVE  Min(Spanned(s, k, l)) = Min(s[k]) /\ Max(Spanned(s, k, l)) = Max(s[l])
<1> DEFINE a == s[k]
           b == s[l]
           T == Spanned(s, k, l)
<1>0. Len(s) \in Nat /\ k \in k .. l /\ l \in k .. l /\ l \in 1 .. Len(s)
  BY DEF Ordered
<1>1. a \in F /\ b \in F /\ a \subseteq T /\ b \subseteq T
  BY <1>0 DEF Ordered, Spanned
<1>2. ASSUME NEW x \in T PROVE x \in S /\ (x \in a \/ \A u \in a : u < x) /\ (x \in b \/ \A u \in b : x < u)
  <2>1. PICK j \in k .. l : x \in s[j]
    BY DEF Spanned
  <2>2. j \in 1 .. Len(s) /\ (j = k \/ k < j) /\ (j = l \/ j < l)
    BY <1>0, <2>1
  <2> DEFINE c == s[j]
  <2>3. c \in F /\ x \in c /\ (j = k => c = a) /\ (j = l => c = b)
    BY <2>1, <2>2 DEF Ordered
  <2>4. k < j => \A u \in a : u < x
    BY <1>0, <2>1, <2>2 DEF Ordered
  <2>5. j < l => \A u \in b : x < u
    BY <1>0, <2>1, <2>2 DEF Ordered
  <2> HIDE DEF a, b, c
  <2>6. c \subseteq S
    BY <2>3, EndsOfSet
  <2> QED BY <2>2, <2>3, <2>4, <2>5, <2>6
<1> HIDE DEF a, b, T
<1>3. a \subseteq Nat /\ Min(a) \in a /\ \A x \in a : Min(a) <= x
  BY <1>1, EndsOfSet
<1>4. b \subseteq Nat /\ Max(b) \in b /\ \A x \in b : x <= Max(b)
  BY <1>1, EndsOfSet
<1>5. T \subseteq 1 .. n /\ T \subseteq Nat /\ T # {}
  <2>1. T \subseteq S /\ Min(a) \in T
    BY <1>1, <1>2, <1>3
  <2> QED BY <2>1
<1>6. Min(T) \in T /\ \A x \in T : Min(T) <= x
  BY <1>5, MinIs
<1>7. Max(T) \in T /\ \A x \in T : x <= Max(T)
  BY <1>5, MaxIs
<1>8. Min(T) = Min(a)
  <2>1. Min(T) <= Min(a) /\ Min(T) \in Nat /\ Min(a) \in Nat
    BY <1>1, <1>3, <1>5, <1>6
  <2>2. Min(a) <= Min(T)
    BY <1>2, <1>3, <1>6, <2>1
  <2> QED BY <2>1, <2>2
<1>9. Max(T) = Max(b)
  <2>1. Max(b) <= Max(T) /\ Max(T) \in Nat /\ Max(b) \in Nat
    BY <1>1, <1>4, <1>5, <1>7
  <2>2. Max(T) <= Max(b)
    BY <1>2, <1>4, <1>7, <2>1
  <2> QED BY <2>1, <2>2
<1> QED BY <1>8, <1>9 DEF a, b, T

\* A unit begins as its first span does, ends as its last does, and holds some content when these do.
LEMMA UnitEnds ==
  ASSUME NEW n \in Nat, NEW S, S \subseteq 1 .. n, NEW F, SplitsWell(F, S), NEW s, Ordered(s, F),
         NEW k \in 1 .. Len(s)
  PROVE  /\ Min(UnitAt(s, k).ids) = Min(s[k]) /\ Max(UnitAt(s, k).ids) = Max(s[LastOf(s, k)])
         /\ BeforeOf(UnitAt(s, k).ids) = BeforeOf(s[k]) /\ AfterOf(UnitAt(s, k).ids) = AfterOf(s[LastOf(s, k)])
         /\ ~Inert(UnitAt(s, k).ids) => ~Inert(s[k]) /\ ~Inert(s[LastOf(s, k)])
         /\ LastOf(s, k) > k => ~Inert(UnitAt(s, k).ids)
<1> DEFINE l == LastOf(s, k)
           T == Spanned(s, k, l)
<1>0. Len(s) \in Nat
  BY DEF Ordered
<1>1. l \in k .. Len(s) /\ UnitAt(s, k).ids = T /\ \A i \in k .. l - 1 : Joins(s[i], s[i + 1])
  BY <1>0, LastOfIs, UnitIs
<1> HIDE DEF l
<1>2. Min(T) = Min(s[k]) /\ Max(T) = Max(s[l])
  BY <1>1, SpannedEnds
<1>3. l = k => T = s[k]
  BY <1>0 DEF Spanned
<1>4. l > k => ~Inert(s[k]) /\ ~Inert(s[l])
  <2> SUFFICES ASSUME l > k PROVE ~Inert(s[k]) /\ ~Inert(s[l])
    OBVIOUS
  <2> DEFINE j == l - 1
  <2>1. k \in k .. l - 1 /\ j \in k .. l - 1 /\ j + 1 = l
    BY <1>0, <1>1
  <2> HIDE DEF j
  <2>2. Joins(s[k], s[k + 1]) /\ Joins(s[j], s[l])
    BY <1>1, <2>1
  <2> QED BY <2>2 DEF Joins
<1>5. s[k] \subseteq T
  <2>1. k \in k .. l
    BY <1>0, <1>1
  <2> QED BY <2>1 DEF Spanned
<1>6. l > k => ~Inert(T)
  BY <1>4, <1>5 DEF Inert
<1>7. l = k \/ l > k
  BY <1>0, <1>1
<1> HIDE DEF T
<1> QED BY <1>1, <1>2, <1>3, <1>4, <1>6, <1>7 DEF l, BeforeOf, AfterOf

\* A unit is said to cancel out when it does.
LEMMA UnitCancels ==
  ASSUME NEW n \in Nat, NEW S, S \subseteq 1 .. n, NEW F, SplitsWell(F, S), NEW s, Ordered(s, F),
         NEW k \in 1 .. Len(s)
  PROVE  UnitAt(s, k).cancelled <=> Cancels(UnitAt(s, k).ids)
<1> DEFINE l == LastOf(s, k)
           T == UnitAt(s, k).ids
<1>0. Len(s) \in Nat
  BY DEF Ordered
<1>1. l \in k .. Len(s) /\ (l > k => l \in Partners(s, k))
  BY <1>0, LastOfIs
<1>2. UnitAt(s, k).cancelled <=> (l > k \/ Cancels(T))
  BY DEF UnitAt
<1>3. BeforeOf(T) = BeforeOf(s[k]) /\ AfterOf(T) = AfterOf(s[l]) /\ (l > k => ~Inert(T))
  BY UnitEnds
<1> HIDE DEF l, T
<1>4. l > k => Cancels(T)
  BY <1>1, <1>3 DEF Partners, Cancels
<1> QED BY <1>2, <1>4 DEF T

\* Between two units the file is not gone.
LEMMA UnitsOfFiles ==
  ASSUME NEW n \in Nat, NEW S, S \subseteq 1 .. n, NEW F, SplitsWell(F, S), NEW s, Ordered(s, F),
         \A a, b \in F : ~Meet(a, b),
         NEW i \in 1 .. Len(s), NEW j \in 1 .. Len(s), NEW u, u = UnitAt(s, i).ids, NEW v, v = UnitAt(s, j).ids,
         Adjacent(u, v), AfterOf(u) = BeforeOf(v), ~Inert(u), ~Inert(v)
  PROVE  AfterOf(u) # Absent
<1> DEFINE l == LastOf(s, i)
           a == s[l]
           b == s[j]
<1>0. Len(s) \in Nat
  BY DEF Ordered
<1>1. l \in 1 .. Len(s)
  BY <1>0, LastOfIs
<1> HIDE DEF l
<1>2. a \in F /\ b \in F
  BY <1>1 DEF Ordered
<1>3. Max(u) = Max(a) /\ AfterOf(u) = AfterOf(a) /\ ~Inert(a)
  BY UnitEnds DEF l
<1>4. Min(v) = Min(b) /\ BeforeOf(v) = BeforeOf(b) /\ ~Inert(b)
  BY UnitEnds
<1> HIDE DEF a, b
<1>5. Adjacent(a, b)
  BY <1>3, <1>4 DEF Adjacent
<1> QED BY <1>2, <1>3, <1>4, <1>5 DEF Meet

\* The last id of a span and the next one are in units of which the second, if it is another, begins with it.
LEMMA UnitNext ==
  ASSUME NEW n \in Nat, NEW S, S \subseteq 1 .. n, NEW F, SplitsWell(F, S), NEW s, Ordered(s, F),
         NEW U, SplitsWell(IdsOf(U), S), MadeOf(U, s),
         NEW i \in 1 .. Len(s) - 1,
         NEW w \in U, Max(s[i]) \in w.ids, NEW z \in U, Max(s[i]) + 1 \in z.ids
  PROVE  \/ Joins(s[i], s[i + 1])
         \/ /\ Min(z.ids) = Max(w.ids) + 1
            /\ AfterOf(w.ids) = AfterOf(s[i]) /\ BeforeOf(z.ids) = BeforeOf(s[i + 1])
            /\ Min(s[i + 1]) = Max(s[i]) + 1
            /\ ~Inert(w.ids) => ~Inert(s[i])
            /\ ~Inert(z.ids) => ~Inert(s[i + 1])
<1> DEFINE a == s[i]
           x == Max(a)
<1>0. Len(s) \in Nat /\ i \in 1 .. Len(s) /\ i + 1 \in 1 .. Len(s)
  BY DEF Ordered
<1>1. a \in F
  BY <1>0 DEF Ordered
<1> HIDE DEF a
<1>2. a \subseteq Nat /\ x \in a /\ \A y \in a : y <= x
  BY <1>1, EndsOfSet
<1> HIDE DEF x
<1>3. x \in Nat
  BY <1>2
<1>4. PICK k \in 1 .. Len(s) : w = UnitAt(s, k)
  BY DEF MadeOf
<1> DEFINE l == LastOf(s, k)
<1>5. l \in k .. Len(s) /\ w.ids = Spanned(s, k, l) /\ \A j \in k .. l - 1 : Joins(s[j], s[j + 1])
  BY <1>0, <1>4, LastOfIs, UnitIs
<1>6. i \in k .. l
  <2> HIDE DEF l
  <2>1. PICK j \in k .. l : x \in s[j]
    BY <1>5 DEF Spanned, x, a
  <2>2. j \in 1 .. Len(s)
    BY <1>0, <1>5
  <2>3. ~(j < i) /\ ~(i < j)
    <3>1. j < i => x < x
      BY <1>0, <1>2, <2>1, <2>2 DEF Ordered, a
    <3>2. i < j => x < x
      BY <1>0, <1>2, <2>1, <2>2 DEF Ordered, a
    <3> QED BY <1>3, <3>1, <3>2
  <2>4. i = j
    BY <1>0, <2>2, <2>3
  <2> QED BY <2>1, <2>4
<1>7. i < l => Joins(s[i], s[i + 1])
  <2> SUFFICES ASSUME i < l PROVE i \in k .. l - 1
    BY <1>5
  <2> QED BY <1>0, <1>5, <1>6
<1>8. ASSUME i = l
      PROVE  /\ Min(z.ids) = Max(w.ids) + 1
             /\ AfterOf(w.ids) = AfterOf(s[i]) /\ BeforeOf(z.ids) = BeforeOf(s[i + 1])
             /\ Min(s[i + 1]) = Max(s[i]) + 1
             /\ ~Inert(w.ids) => ~Inert(s[i])
             /\ ~Inert(z.ids) => ~Inert(s[i + 1])
  <2> DEFINE b == s[i + 1]
             wi == w.ids
             zi == z.ids
  <2>0. b \in F /\ wi \in IdsOf(U) /\ zi \in IdsOf(U)
    BY <1>0 DEF Ordered, IdsOf
  <2>1. Max(wi) = x /\ AfterOf(wi) = AfterOf(a) /\ (~Inert(wi) => ~Inert(a))
    BY <1>4, <1>8, UnitEnds DEF x, a
  <2>2. PICK m \in 1 .. Len(s) : z = UnitAt(s, m)
    BY DEF MadeOf
  <2> DEFINE p == LastOf(s, m)
  <2>3. p \in m .. Len(s) /\ zi = Spanned(s, m, p)
    BY <1>0, <2>2, LastOfIs, UnitIs
  <2>4. PICK j \in m .. p : x + 1 \in s[j]
    BY <2>3 DEF Spanned, x, a
  <2> HIDE DEF p
  <2>5. j \in 1 .. Len(s)
    BY <1>0, <2>3, <2>4
  <2>6. i < j
    <3> SUFFICES ASSUME ~(i < j) PROVE FALSE
      OBVIOUS
    <3>1. j = i \/ j < i
      BY <1>0, <2>5
    <3>2. j = i => x + 1 <= x
      BY <1>2, <2>4 DEF a
    <3>3. j < i => x + 1 < x
      BY <1>0, <1>2, <2>4, <2>5 DEF Ordered, a
    <3> QED BY <1>3, <3>1, <3>2, <3>3
  <2> HIDE DEF b
  <2>7. b \subseteq Nat /\ Min(b) \in b /\ \A y \in b : Min(b) <= y
    BY <2>0, EndsOfSet
  <2>8. \A y \in b : x < y
    BY <1>0, <1>2 DEF Ordered, a, b
  <2>9. j = i + 1
    <3> SUFFICES ASSUME i + 1 < j PROVE FALSE
      BY <1>0, <2>5, <2>6
    <3>1. Min(b) < x + 1
      BY <1>0, <2>4, <2>5, <2>7 DEF Ordered, b
    <3>2. x < Min(b) /\ Min(b) \in Nat
      BY <2>7, <2>8
    <3> QED BY <1>3, <3>1, <3>2
  <2>10. x + 1 \in b
    BY <2>4, <2>9 DEF b
  <2>11. Min(b) = x + 1
    <3>1. x < Min(b) /\ Min(b) \in Nat /\ Min(b) <= x + 1
      BY <2>7, <2>8, <2>10
    <3> QED BY <1>3, <3>1
  <2>12. m = i + 1
    <3> SUFFICES ASSUME m # i + 1 PROVE FALSE
      OBVIOUS
    <3>1. i \in m .. p
      BY <1>0, <2>3, <2>4, <2>9
    <3>2. x \in zi
      BY <1>2, <2>3, <3>1 DEF Spanned, a
    <3>3. x \in wi /\ x + 1 \in zi
      BY DEF x, a
    <3> HIDE DEF wi, zi
    <3>4. wi = zi
      BY <2>0, <3>2, <3>3, SetsApart
    <3>5. x + 1 <= Max(wi)
      BY <2>0, <3>3, <3>4, EndsOfSet
    <3> QED BY <1>3, <2>1, <3>5
  <2>13. Min(zi) = Min(b) /\ BeforeOf(zi) = BeforeOf(b) /\ (~Inert(zi) => ~Inert(b))
    <3>1. zi = UnitAt(s, m).ids
      BY <2>2
    <3>2. b = s[m]
      BY <2>12 DEF b
    <3> HIDE DEF zi
    <3>3. Min(UnitAt(s, m).ids) = Min(s[m]) /\ BeforeOf(UnitAt(s, m).ids) = BeforeOf(s[m])
          /\ (~Inert(UnitAt(s, m).ids) => ~Inert(s[m]))
      BY UnitEnds
    <3> QED BY <3>1, <3>2, <3>3
  <2> HIDE DEF wi, zi
  <2>14. /\ Min(zi) = Max(wi) + 1 /\ AfterOf(wi) = AfterOf(a) /\ BeforeOf(zi) = BeforeOf(b) /\ Min(b) = x + 1
         /\ (~Inert(wi) => ~Inert(a)) /\ (~Inert(zi) => ~Inert(b))
    BY <2>1, <2>11, <2>13
  <2> QED BY <2>14 DEF a, b, x, wi, zi
<1>9. i < l \/ i = l
  <2> HIDE DEF l
  <2> QED BY <1>0, <1>5, <1>6
<1> QED BY <1>7, <1>8, <1>9

\* The units from u to v; that where one of them ends and one begins they are joined; no spans to fold.
UnitsBetween(U, u, v) == {w \in U : Min(u.ids) <= Min(w.ids) /\ Min(w.ids) <= Min(v.ids)}
JoinedFrom(U, u, v) ==
  \A x, y \in UnitsBetween(U, u, v) : Min(y.ids) = Max(x.ids) + 1
    => AfterOf(x.ids) = BeforeOf(y.ids) /\ ~Inert(x.ids) /\ ~Inert(y.ids)
NoneMeet(F) == \A a, b \in F : ~Meet(a, b)

\* As many ids as there are between the ends of two units: all of these are in units.
LEMMA UnitsCover ==
  ASSUME NEW n \in Nat, NEW S, S \subseteq 1 .. n, NEW U, SplitsWell(IdsOf(U), S), NEW u \in U, NEW v \in U,
         Max(v.ids) - Min(u.ids) + 1 = Cardinality(UNION {w.ids : w \in UnitsBetween(U, u, v)}),
         NEW x \in Nat, Min(u.ids) <= x, x <= Max(v.ids)
  PROVE  \E w \in UnitsBetween(U, u, v) : x \in w.ids
<1> DEFINE C == UNION {w.ids : w \in UnitsBetween(U, u, v)}
           lo == Min(u.ids)
           hi == Max(v.ids)
<1>0. \A w \in U : w.ids \in IdsOf(U)
  BY DEF IdsOf
<1>1. lo \in Nat /\ hi \in Nat
  <2> DEFINE a == u.ids
             b == v.ids
  <2>1. a \in IdsOf(U) /\ b \in IdsOf(U)
    BY <1>0
  <2> HIDE DEF a, b
  <2>2. a \subseteq Nat /\ Min(a) \in a
    BY <2>1, EndsOfSet
  <2>3. b \subseteq Nat /\ Max(b) \in b
    BY <2>1, EndsOfSet
  <2> QED BY <2>2, <2>3 DEF a, b
<1>2. ASSUME NEW w \in UnitsBetween(U, u, v), NEW y \in w.ids PROVE y \in lo .. hi
  <2> DEFINE a == w.ids
             b == v.ids
  <2>1. a \in IdsOf(U) /\ b \in IdsOf(U) /\ lo <= Min(a) /\ Min(a) <= Min(b) /\ y \in a /\ hi = Max(b)
    BY <1>0 DEF UnitsBetween
  <2> HIDE DEF a, b, lo, hi
  <2>2. a \subseteq Nat /\ Min(a) \in a /\ Min(a) <= y
    BY <2>1, EndsOfSet
  <2>3. b \subseteq Nat /\ Max(b) \in b /\ Min(b) \in b /\ \A z \in b : z <= Max(b)
    BY <2>1, EndsOfSet
  <2>4. y <= Max(b)
    <3>1. CASE a = b
      BY <2>1, <2>3, <3>1
    <3>2. CASE Min(a) < Min(b)
      <4>0. \A p \in a, q \in b : p < q
        BY <2>1, <3>2, OrderedByMin
      <4>1. y < Max(b)
        BY <2>1, <2>3, <4>0
      <4>2. y \in Nat /\ Max(b) \in Nat
        BY <2>1, <2>2, <2>3
      <4> QED BY <4>1, <4>2
    <3>3. Min(a) = Min(b) => a = b
      BY <2>1, OrderedByMin
    <3>4. Min(a) \in Nat /\ Min(b) \in Nat
      BY <2>2, <2>3
    <3> QED BY <2>1, <3>1, <3>2, <3>3, <3>4
  <2>5. y \in Nat /\ Min(a) \in Nat /\ hi = Max(b)
    BY <2>1, <2>2
  <2> QED BY <1>1, <2>1, <2>2, <2>4, <2>5
<1>3. C \subseteq lo .. hi
  BY <1>2
<1>4. Cardinality(C) = hi - lo + 1
  OBVIOUS
<1> HIDE DEF C, lo, hi
<1>5. IsFiniteSet(lo .. hi) /\ Cardinality(lo .. hi) = IF lo > hi THEN 0 ELSE hi - lo + 1
  <2>1. lo \in Int /\ hi \in Int
    BY <1>1
  <2> QED BY <2>1, FS_Interval
<1>6. lo <= x /\ x <= hi
  BY DEF lo, hi
<1>7. Cardinality(C) = Cardinality(lo .. hi) /\ x \in lo .. hi
  BY <1>1, <1>4, <1>5, <1>6
<1>8. C = lo .. hi
  BY <1>3, <1>5, <1>7, FS_Subset
<1>9. x \in C
  BY <1>7, <1>8
<1> QED BY <1>9 DEF C

\* In an unbroken chain of units none takes back what an earlier one, not cancelled, began with.
LEMMA NoTakeBack ==
  ASSUME NEW n \in Nat, NEW S, S \subseteq 1 .. n, NEW F, SplitsWell(F, S), NEW s, Ordered(s, F),
         NEW U, SplitsWell(IdsOf(U), S), MadeOf(U, s),
         NEW u \in U, NEW v \in U, ~u.cancelled, Min(u.ids) < Min(v.ids),
         Max(v.ids) - Min(u.ids) + 1 = Cardinality(UNION {w.ids : w \in UnitsBetween(U, u, v)}),
         JoinedFrom(U, u, v)
  PROVE  AfterOf(v.ids) # BeforeOf(u.ids)
<1> SUFFICES ASSUME AfterOf(v.ids) = BeforeOf(u.ids) PROVE FALSE
  OBVIOUS
<1>0. Len(s) \in Nat
  BY DEF Ordered
<1>1. PICK k \in 1 .. Len(s) : u = UnitAt(s, k)
  BY DEF MadeOf
<1>2. PICK m \in 1 .. Len(s) : v = UnitAt(s, m)
  BY DEF MadeOf
<1> DEFINE l == LastOf(s, m)
<1>3. l \in m .. Len(s)
  BY <1>0, LastOfIs
<1>4. Min(u.ids) = Min(s[k]) /\ BeforeOf(u.ids) = BeforeOf(s[k])
  <2>1. Min(UnitAt(s, k).ids) = Min(s[k]) /\ BeforeOf(UnitAt(s, k).ids) = BeforeOf(s[k])
    BY UnitEnds
  <2> QED BY <1>1, <2>1
<1>5. Min(v.ids) = Min(s[m]) /\ Max(v.ids) = Max(s[l]) /\ AfterOf(v.ids) = AfterOf(s[l])
  BY <1>2, UnitEnds
<1> HIDE DEF l
<1>6. \A j \in 1 .. Len(s) : s[j] \in F /\ s[j] \subseteq Nat /\ Min(s[j]) \in s[j] /\ Max(s[j]) \in s[j]
  <2> SUFFICES ASSUME NEW j \in 1 .. Len(s)
               PROVE  s[j] \in F /\ s[j] \subseteq Nat /\ Min(s[j]) \in s[j] /\ Max(s[j]) \in s[j]
    OBVIOUS
  <2> DEFINE a == s[j]
  <2>1. a \in F
    BY DEF Ordered
  <2> HIDE DEF a
  <2>2. a \subseteq Nat /\ Min(a) \in a /\ Max(a) \in a
    BY <2>1, EndsOfSet
  <2> QED BY <2>1, <2>2 DEF a
<1>7. k < m
  <2> SUFFICES ASSUME ~(k < m) PROVE FALSE
    OBVIOUS
  <2>1. k = m \/ m < k
    BY <1>0
  <2>2. Min(s[k]) \in Nat /\ Min(s[m]) \in Nat
    BY <1>6
  <2>3. m < k => Min(s[m]) < Min(s[k])
    BY <1>6 DEF Ordered
  <2> QED BY <1>4, <1>5, <2>1, <2>2, <2>3
<1>8. k \in 1 .. Len(s) /\ l \in 1 .. Len(s) /\ k < l /\ l \in k + 1 .. Len(s)
  BY <1>0, <1>3, <1>7
<1>9. ASSUME NEW i \in k .. l - 1 PROVE Joins(s[i], s[i + 1])
  <2>1. i \in 1 .. Len(s) - 1 /\ i \in 1 .. Len(s) /\ i < l /\ (i = k \/ k < i)
    BY <1>0, <1>8, <1>9
  <2> DEFINE a == s[i]
             x == Max(a)
  <2>2. a \in F /\ x \in a /\ a \subseteq Nat
    BY <1>6, <2>1
  <2>3. x < Max(s[l]) /\ Max(s[l]) \in Nat
    BY <1>6, <1>8, <2>1, <2>2 DEF Ordered
  <2>4. Min(s[k]) <= x /\ Min(s[k]) \in Nat
    <3>1. i = k => Min(a) <= x
      <4> HIDE DEF a
      <4> QED BY <2>2, EndsOfSet
    <3>2. k < i => Min(s[k]) < x
      BY <1>6, <1>8, <2>1, <2>2 DEF Ordered
    <3>3. Min(s[k]) \in Nat /\ x \in Nat
      BY <1>6, <2>2
    <3> QED BY <2>1, <3>1, <3>2, <3>3
  <2> HIDE DEF a, x
  <2>5. x \in Nat /\ x + 1 \in Nat /\ x <= Max(v.ids) /\ x + 1 <= Max(v.ids) /\ Min(u.ids) <= x /\ Min(u.ids) <= x + 1
    BY <1>4, <1>5, <2>2, <2>3, <2>4
  <2>6. PICK w \in UnitsBetween(U, u, v) : x \in w.ids
    BY <2>5, UnitsCover
  <2>7. PICK z \in UnitsBetween(U, u, v) : x + 1 \in z.ids
    BY <2>5, UnitsCover
  <2>8. w \in U /\ z \in U /\ Max(s[i]) \in w.ids /\ Max(s[i]) + 1 \in z.ids
    BY <2>6, <2>7 DEF UnitsBetween, x, a
  <2>9. \/ Joins(s[i], s[i + 1])
        \/ /\ Min(z.ids) = Max(w.ids) + 1
           /\ AfterOf(w.ids) = AfterOf(s[i]) /\ BeforeOf(z.ids) = BeforeOf(s[i + 1])
           /\ Min(s[i + 1]) = Max(s[i]) + 1
           /\ ~Inert(w.ids) => ~Inert(s[i])
           /\ ~Inert(z.ids) => ~Inert(s[i + 1])
    BY <2>1, <2>8, UnitNext
  <2>10. Min(z.ids) = Max(w.ids) + 1 => AfterOf(w.ids) = BeforeOf(z.ids) /\ ~Inert(w.ids) /\ ~Inert(z.ids)
    BY DEF JoinedFrom
  <2> QED BY <2>9, <2>10 DEF Joins, Adjacent
<1>10. l \in Partners(s, k)
  BY <1>4, <1>5, <1>8, <1>9 DEF Partners
<1>11. LastOf(s, k) > k
  BY <1>0, <1>10, LastOfIs
<1>12. u.cancelled
  BY <1>1, <1>11 DEF UnitAt
<1> QED BY <1>12

\* The units of some records, and the spans they are made of.
LEMMA UnitsMade ==
  ASSUME NEW n \in Nat, NEW mine, mine \subseteq 1 .. n
  PROVE  \E F, s : /\ SplitsWell(F, mine) /\ Ordered(s, F) /\ NoneMeet(F)
                   /\ SplitsWell(IdsOf(UnitsOf(mine)), mine) /\ MadeOf(UnitsOf(mine), s)
<1> DEFINE F == AbsenceFolded(SpansOfAll(mine))
           s == InOrder(F)
<1>1. SplitsWell(SpansOfAll(mine), mine)
  BY SpansExact
<1>2. SplitsWell(F, mine) /\ NoneMeet(F)
  BY <1>1, FoldsExact, FoldedApart DEF NoneMeet
<1>3. UnitsOf(mine) = FoldChains(F)
  BY DEF UnitsOf, SpansOfAll
<1> HIDE DEF F
<1>4. Ordered(s, F)
  BY <1>2, InOrderIs
<1>5. PICK f : IsChain(f, s) /\ FoldChains(F) = f[1]
  BY <1>4, ChainsAre DEF Ordered
<1> HIDE DEF s
<1>6. SplitsWell(IdsOf(f[1]), mine) /\ MadeOf(f[1], s)
  BY <1>2, <1>4, <1>5, ChainSplits
<1>7. UnitsOf(mine) = f[1]
  BY <1>3, <1>5
<1> QED BY <1>2, <1>4, <1>6, <1>7

\* Whatever the records and their verdicts are, the rows tell one story.
LEMMA LogInvRows == LogInv => RowsTellOneStory
<1> SUFFICES ASSUME LogInv PROVE RowsTellOneStory
  OBVIOUS
<1> DEFINE mine == Ids("pending")
           n == Len(log)
           U == UnitsOf(mine)
<1>1. n \in Nat /\ mine \subseteq 1 .. n
  BY DEF LogInv, Ids
<1> HIDE DEF n, mine
<1>2. PICK F, s : /\ SplitsWell(F, mine) /\ Ordered(s, F) /\ NoneMeet(F)
                  /\ SplitsWell(IdsOf(U), mine) /\ MadeOf(U, s)
  BY <1>1, UnitsMade
<1> HIDE DEF U
<1>3. ASSUME NEW u \in U PROVE u.cancelled <=> Cancels(u.ids)
  <2>1. PICK k \in 1 .. Len(s) : u = UnitAt(s, k)
    BY <1>2 DEF MadeOf
  <2> QED BY <1>1, <1>2, <2>1, UnitCancels
<1>4. ASSUME NEW u \in U, NEW v \in U, Adjacent(u.ids, v.ids), AfterOf(u.ids) = BeforeOf(v.ids), ~Inert(u.ids), ~Inert(v.ids)
      PROVE  AfterOf(u.ids) # Absent
  <2>1. PICK i \in 1 .. Len(s) : u = UnitAt(s, i)
    BY <1>2 DEF MadeOf
  <2>2. PICK j \in 1 .. Len(s) : v = UnitAt(s, j)
    BY <1>2 DEF MadeOf
  <2> DEFINE a == u.ids
             b == v.ids
  <2>3. a = UnitAt(s, i).ids /\ b = UnitAt(s, j).ids
        /\ Adjacent(a, b) /\ AfterOf(a) = BeforeOf(b) /\ ~Inert(a) /\ ~Inert(b)
    BY <1>4, <2>1, <2>2
  <2> HIDE DEF a, b
  <2>4. AfterOf(a) # Absent
    BY <1>1, <1>2, <2>3, UnitsOfFiles DEF NoneMeet
  <2> QED BY <2>4 DEF a
<1> DEFINE Joined(u, v) ==
             Adjacent(u.ids, v.ids) /\ AfterOf(u.ids) = BeforeOf(v.ids) /\ ~Inert(u.ids) /\ ~Inert(v.ids)
<1>5. ASSUME NEW u \in U, NEW v \in U, ~u.cancelled, Min(u.ids) < Min(v.ids),
             Max(v.ids) - Min(u.ids) + 1 = Cardinality(UNION {w.ids : w \in UnitsBetween(U, u, v)}),
             \A x, y \in UnitsBetween(U, u, v) : Min(y.ids) = Max(x.ids) + 1 => Joined(x, y)
      PROVE  AfterOf(v.ids) # BeforeOf(u.ids)
  <2>1. JoinedFrom(U, u, v)
    BY <1>5 DEF JoinedFrom
  <2>2. u \in U /\ v \in U /\ ~u.cancelled /\ Min(u.ids) < Min(v.ids)
        /\ Max(v.ids) - Min(u.ids) + 1 = Cardinality(UNION {w.ids : w \in UnitsBetween(U, u, v)})
    BY <1>5
  <2>3. SplitsWell(F, mine) /\ Ordered(s, F) /\ SplitsWell(IdsOf(U), mine) /\ MadeOf(U, s)
    BY <1>2
  <2> QED BY <1>1, <2>1, <2>2, <2>3, NoTakeBack
<1> QED BY <1>3, <1>4, <1>5 DEF RowsTellOneStory, UnitsBetween, U, mine

\* No row is about a file that is gone, no two rows of an unbroken chain take back one another, and a unit is
\* said to cancel out when it does (foldAbsence, foldChains): for every number of records and of lines.
THEOREM RowsHold == UnitsSpec => []RowsTellOneStory
<1> QED BY LogInvInit, LogInvStep, LogInvRows, PTL DEF UnitsSpec


-----------------------------------------------------------------------------
(* Splits told by which neighbours they hold together.                     *)

\* A set of F holds both.
Together(F, i, j) == \E s \in F : i \in s /\ j \in s

\* What is held together step by step is held together.
LEMMA TogetherChain ==
  ASSUME NEW S, NEW F, Splits(F, S), NEW i \in Nat, NEW j \in Nat, i < j,
         \A k \in i .. j - 1 : Together(F, k, k + 1)
  PROVE  Together(F, i, j)
<1> DEFINE K == {m \in Nat : i + m + 1 <= j => Together(F, i, i + m + 1)}
<1>1. 0 \in K
  <2>1. i \in i .. j - 1 /\ i + 0 + 1 = i + 1
    OBVIOUS
  <2> QED BY <2>1
<1>2. ASSUME NEW m \in Nat, m \in K PROVE m + 1 \in K
  <2> SUFFICES ASSUME i + (m + 1) + 1 <= j PROVE Together(F, i, i + (m + 1) + 1)
    OBVIOUS
  <2> DEFINE k == i + m + 1
  <2>1. k \in i .. j - 1 /\ k + 1 = i + (m + 1) + 1 /\ k <= j
    OBVIOUS
  <2>2. Together(F, i, k) /\ Together(F, k, k + 1)
    BY <1>2, <2>1
  <2> HIDE DEF k
  <2>3. Together(F, i, k + 1)
    BY <2>2 DEF Together, Splits
  <2> QED BY <2>1, <2>3
<1>3. Nat \subseteq K
  <2> HIDE DEF K
  <2> QED BY <1>1, <1>2, NatInd
<1> DEFINE m == j - i - 1
<1>4. m \in Nat /\ i + m + 1 = j
  OBVIOUS
<1>5. m \in K
  BY <1>3, <1>4
<1> HIDE DEF m
<1> QED BY <1>4, <1>5

\* What an unbroken set holds, it holds step by step.
LEMMA TogetherSteps ==
  ASSUME NEW S, S \subseteq Nat, NEW F, SplitsWell(F, S), NEW i, NEW j, Together(F, i, j), i < j
  PROVE  i \in Nat /\ j \in Nat /\ \A k \in i .. j - 1 : Together(F, k, k + 1)
<1>1. PICK s \in F : i \in s /\ j \in s
  BY DEF Together
<1>2. s \subseteq Nat /\ Unbroken(s)
  BY DEF SplitsWell, Splits
<1>3. i \in Nat /\ j \in Nat
  BY <1>1, <1>2
<1>4. ASSUME NEW k \in i .. j - 1 PROVE Together(F, k, k + 1)
  <2>1. k \in Nat /\ k + 1 \in Nat /\ i <= k /\ k <= j /\ i <= k + 1 /\ k + 1 <= j
    BY <1>3
  <2>2. k \in s /\ k + 1 \in s
    BY <1>1, <1>2, <2>1, UnbrokenConvex
  <2> QED BY <2>2 DEF Together
<1> QED BY <1>3, <1>4

\* One of two splits into unbroken sets is a part of the other if it holds the same neighbours together.
LEMMA SplitsIn ==
  ASSUME NEW S, S \subseteq Nat, NEW F, SplitsWell(F, S), NEW G, SplitsWell(G, S),
         \A k \in Nat : Together(F, k, k + 1) <=> Together(G, k, k + 1)
  PROVE  F \subseteq G
<1>0. Splits(F, S) /\ Splits(G, S)
  BY DEF SplitsWell
<1>1. \A i, j : Together(F, i, j) => i \in S /\ j \in S
  BY <1>0 DEF Together, Splits
<1>2. \A i, j : Together(G, i, j) => i \in S /\ j \in S
  BY <1>0 DEF Together, Splits
<1>3. ASSUME NEW i \in S, NEW j \in S, i < j, Together(F, i, j) PROVE Together(G, i, j)
  <2>1. i \in Nat /\ j \in Nat /\ \A k \in i .. j - 1 : Together(F, k, k + 1)
    BY <1>3, TogetherSteps
  <2>2. \A k \in i .. j - 1 : k \in Nat
    BY <2>1
  <2>3. \A k \in i .. j - 1 : Together(G, k, k + 1)
    BY <2>1, <2>2
  <2> QED BY <1>0, <1>3, <2>1, <2>3, TogetherChain
<1>4. ASSUME NEW i \in S, NEW j \in S, i < j, Together(G, i, j) PROVE Together(F, i, j)
  <2>1. i \in Nat /\ j \in Nat /\ \A k \in i .. j - 1 : Together(G, k, k + 1)
    BY <1>4, TogetherSteps
  <2>2. \A k \in i .. j - 1 : k \in Nat
    BY <2>1
  <2>3. \A k \in i .. j - 1 : Together(F, k, k + 1)
    BY <2>1, <2>2
  <2> QED BY <1>0, <1>4, <2>1, <2>3, TogetherChain
<1>5. \A i, j : (Together(F, i, j) <=> Together(F, j, i)) /\ (Together(G, i, j) <=> Together(G, j, i))
  BY DEF Together
<1>6. \A i \in S : Together(F, i, i) /\ Together(G, i, i)
  BY <1>0 DEF Together, Splits
<1>7. \A i, j \in S : Together(F, i, j) <=> Together(G, i, j)
  <2> SUFFICES ASSUME NEW i \in S, NEW j \in S PROVE Together(F, i, j) <=> Together(G, i, j)
    OBVIOUS
  <2>1. i \in Nat /\ j \in Nat
    OBVIOUS
  <2>2. i < j \/ j < i \/ i = j
    BY <2>1
  <2> QED BY <1>3, <1>4, <1>5, <1>6, <2>2
<1>8. ASSUME NEW a \in F PROVE a \in G
  <2>0. a # {} /\ a \subseteq S
    BY <1>0 DEF Splits
  <2>1. PICK x \in a : x \in S
    BY <2>0
  <2>2. PICK b \in G : x \in b
    BY <1>0, <2>1 DEF Splits
  <2>3. a \subseteq S /\ b \subseteq S
    BY <1>0 DEF Splits
  <2>4. \A y \in S : y \in a <=> Together(F, x, y)
    BY <1>0, <2>1 DEF Together, Splits
  <2>5. \A y \in S : y \in b <=> Together(G, x, y)
    BY <1>0, <2>2 DEF Together, Splits
  <2>6. a = b
    BY <1>7, <2>1, <2>3, <2>4, <2>5
  <2> QED BY <2>6
<1> QED BY <1>8

\* A split into unbroken sets is told by the neighbours it holds together.
LEMMA SplitsSame ==
  ASSUME NEW S, S \subseteq Nat, NEW F, SplitsWell(F, S), NEW G, SplitsWell(G, S),
         \A k \in Nat : Together(F, k, k + 1) <=> Together(G, k, k + 1)
  PROVE  F = G
<1>1. F \subseteq G
  BY SplitsIn
<1>2. \A k \in Nat : Together(G, k, k + 1) <=> Together(F, k, k + 1)
  OBVIOUS
<1>3. G \subseteq F
  BY <1>2, SplitsIn
<1> QED BY <1>1, <1>3

\* Of a split, without some of its sets, what is left is a split of what these do not hold.
LEMMA SplitLeft ==
  ASSUME NEW S, NEW F, SplitsWell(F, S), NEW R, R \subseteq F
  PROVE  SplitsWell(F \ R, S \ UNION R)
<1>1. \A a, b \in F : a # b => a \cap b = {}
  BY DEF SplitsWell, Splits
<1>2. UNION (F \ R) = S \ UNION R
  <2>1. \A x \in S : \E a \in F : x \in a
    BY DEF SplitsWell, Splits
  <2>2. \A a \in F : a \subseteq S
    BY DEF SplitsWell, Splits
  <2>3. \A a \in F \ R : \A x \in a : x \notin UNION R
    BY <1>1
  <2> QED BY <2>1, <2>2, <2>3
<1> QED BY <1>1, <1>2 DEF SplitsWell, Splits

\* The sets of F that are within one of R.
PartsOf(F, R) == {a \in F : \E b \in R : a \subseteq b}

\* Where a split is finer than another, some sets of this one hold what the parts of them do.
LEMMA PartsHold ==
  ASSUME NEW S, NEW F, Splits(F, S), NEW G, Splits(G, S), \A a \in F : \E b \in G : a \subseteq b,
         NEW R, R \subseteq G
  PROVE  /\ PartsOf(F, R) \subseteq F /\ UNION PartsOf(F, R) = UNION R
         /\ \A a \in F : \A b \in G : a \subseteq b => (a \in PartsOf(F, R) <=> b \in R)
<1>1. ASSUME NEW a \in F, NEW b \in G, NEW x \in a, x \in b PROVE a \subseteq b
  BY <1>1 DEF Splits
<1>2. UNION PartsOf(F, R) = UNION R
  <2>1. ASSUME NEW b \in R, NEW x \in b PROVE \E a \in PartsOf(F, R) : x \in a
    <3>1. PICK a \in F : x \in a
      BY <2>1 DEF Splits
    <3>2. a \subseteq b
      BY <1>1, <2>1, <3>1
    <3> QED BY <3>1, <3>2 DEF PartsOf
  <2> QED BY <2>1 DEF PartsOf
<1>3. ASSUME NEW a \in F, NEW b \in G, a \subseteq b, a \in PartsOf(F, R) PROVE b \in R
  <2>1. PICK c \in R : a \subseteq c
    BY <1>3 DEF PartsOf
  <2>0. a # {}
    BY DEF Splits
  <2>2. PICK x : x \in a
    BY <2>0
  <2> QED BY <1>3, <2>1, <2>2 DEF Splits
<1> QED BY <1>2, <1>3 DEF PartsOf

\* Two elements of a set of ids, with none between them, are in one piece of it when they are linked.
LEMMA PiecesMeet ==
  ASSUME NEW n \in Nat, NEW S, S \subseteq 1 .. n, NEW links, NEW k \in S, NEW l \in S, k < l,
         \A x \in S : x <= k \/ l <= x, <<k, l>> \in links
  PROVE  Together(Pieces(S, links), k, l)
<1>1. Splits(Pieces(S, links), S)
  BY PiecesSplit
<1>2. PICK P \in Pieces(S, links) : k \in P
  BY <1>1 DEF Splits
<1>3. PICK Q \in Pieces(S, links) : l \in Q
  BY <1>1 DEF Splits
<1>4. P = Q
  BY <1>2, <1>3, PieceHolds
<1> QED BY <1>2, <1>3, <1>4 DEF Together

\* Two neighbours in a set of ids are in one piece of it when they are linked, and only then.
LEMMA PiecesNext ==
  ASSUME NEW n \in Nat, NEW S, S \subseteq 1 .. n, NEW links, NEW k \in S, k + 1 \in S
  PROVE  Together(Pieces(S, links), k, k + 1) <=> <<k, k + 1>> \in links
<1>0. S \subseteq Nat /\ k < k + 1 /\ \A l \in S : l <= k \/ k + 1 <= l
  OBVIOUS
<1>1. ASSUME NEW P \in Pieces(S, links), k \in P, k + 1 \in P PROVE <<k, k + 1>> \in links
  BY <1>0, <1>1, PiecesLinked
<1>2. ASSUME <<k, k + 1>> \in links PROVE Together(Pieces(S, links), k, k + 1)
  <2> DEFINE l == k + 1
  <2>1. l \in S /\ k < l /\ (\A x \in S : x <= k \/ l <= x) /\ <<k, l>> \in links
    BY <1>0, <1>2
  <2> HIDE DEF l
  <2>2. Together(Pieces(S, links), k, l)
    BY <2>1, PiecesMeet
  <2> QED BY <2>2 DEF l
<1> QED BY <1>1, <1>2 DEF Together

-----------------------------------------------------------------------------
(* What is computed one place after the other.                             *)

\* A function each of whose values is made of the one before.
IsIterate(f, V, v, oneStep, a, b) ==
  f \in [a .. b -> V] /\ \A k \in a .. b : f[k] = IF k = a THEN v ELSE oneStep[<<k, f[k - 1]>>]

\* There is one.
LEMMA Iterates ==
  ASSUME NEW V, NEW v \in V, NEW oneStep \in [Nat \X V -> V], NEW a \in Nat, NEW b \in Nat
  PROVE  \E f : IsIterate(f, V, v, oneStep, a, b)
<1> DEFINE Is(f, m) == IsIterate(f, V, v, oneStep, a, a + m)
           K == {m \in Nat : \E f : Is(f, m)}
<1>1. 0 \in K
  <2> DEFINE f == [k \in a .. a + 0 |-> v]
  <2>1. f \in [a .. a + 0 -> V] /\ \A k \in a .. a + 0 : k = a /\ f[k] = v
    OBVIOUS
  <2> HIDE DEF f
  <2>2. Is(f, 0)
    BY <2>1 DEF IsIterate
  <2> HIDE DEF Is
  <2> QED BY <2>2
<1>2. ASSUME NEW m \in Nat, m \in K PROVE m + 1 \in K
  <2>1. PICK f : Is(f, m)
    BY <1>2
  <2> DEFINE n == a + m
             w == oneStep[<<n + 1, f[n]>>]
             g == [k \in a .. n + 1 |-> IF k = n + 1 THEN w ELSE f[k]]
  <2>2. n \in Nat /\ n \in a .. n /\ n + 1 = a + (m + 1)
    OBVIOUS
  <2> HIDE DEF n
  <2>3. f \in [a .. n -> V] /\ \A k \in a .. n : f[k] = IF k = a THEN v ELSE oneStep[<<k, f[k - 1]>>]
    BY <2>1 DEF n, IsIterate
  <2>4. w \in V
    BY <2>2, <2>3
  <2>5. g \in [a .. n + 1 -> V]
    <3> HIDE DEF w
    <3>1. \A k \in a .. n + 1 : k # n + 1 => k \in a .. n
      BY <2>2
    <3> QED BY <2>3, <2>4, <3>1
  <2>6. ASSUME NEW k \in a .. n + 1 PROVE g[k] = IF k = a THEN v ELSE oneStep[<<k, g[k - 1]>>]
    <3>1. CASE k = n + 1
      <4>1. k # a /\ k - 1 = n /\ n \in a .. n + 1 /\ n # n + 1
        BY <2>2, <3>1
      <4>2. g[n] = f[n]
        BY <4>1
      <4>3. g[k] = w
        BY <3>1
      <4> HIDE DEF g
      <4> QED BY <3>1, <4>1, <4>2, <4>3
    <3>2. CASE k # n + 1
      <4>1. k \in a .. n
        BY <2>2, <3>2
      <4>2. g[k] = f[k]
        BY <3>2
      <4>3. k # a => k - 1 \in a .. n + 1 /\ k - 1 # n + 1
        BY <2>2, <4>1
      <4>4. k # a => g[k - 1] = f[k - 1]
        BY <4>3
      <4> HIDE DEF g
      <4> QED BY <2>3, <4>1, <4>2, <4>4
    <3> QED BY <3>1, <3>2
  <2> HIDE DEF g
  <2>7. Is(g, m + 1)
    BY <2>2, <2>5, <2>6 DEF IsIterate
  <2> HIDE DEF Is
  <2> QED BY <2>7
<1>3. Nat \subseteq K
  <2> HIDE DEF K
  <2> QED BY <1>1, <1>2, NatInd
<1>4. CASE b < a
  <2> DEFINE f == [k \in a .. b |-> v]
  <2>1. a .. b = {} /\ f \in [a .. b -> V]
    BY <1>4
  <2> HIDE DEF f
  <2> QED BY <2>1 DEF IsIterate
<1>5. CASE a <= b
  <2> DEFINE m == b - a
  <2>1. m \in Nat /\ a + m = b
    BY <1>5
  <2>2. PICK f : Is(f, m)
    <3> HIDE DEF m, Is
    <3> QED BY <1>3, <2>1
  <2> HIDE DEF m
  <2> QED BY <2>1, <2>2
<1> QED BY <1>4, <1>5

-----------------------------------------------------------------------------
(* The lines of an edit that are left when a later one comes.              *)

HopsOf(run) == [i \in run |-> Hop(i)]

\* The lines of all hops.
KeptLines(hop) == {p[2] : p \in hop.keep}
HopLines == (UNION {Hop(k).added : k \in Nat}) \cup (UNION {KeptLines(Hop(k)) : k \in Nat})

\* f is how a's lines are carried from hop to hop.
IsTracked(f, hops, a, b) ==
  f = [k \in a + 1 .. b |->
         IF k = a + 1 THEN hops[a].added
         ELSE IF k - 1 \in DOMAIN hops THEN Carried(hops[k - 1], f[k - 1]) ELSE f[k - 1]]

\* There is such a function.
LEMMA TrackedIs ==
  ASSUME NEW run, run \subseteq Nat, NEW a \in run, NEW b \in Nat, a < b
  PROVE  \E f : IsTracked(f, HopsOf(run), a, b) /\ Tracked(HopsOf(run), a, b) = f[b]
<1> DEFINE V == SUBSET HopLines
           hops == HopsOf(run)
           oneStep == [p \in Nat \X V |-> IF p[1] - 1 \in run THEN Carried(hops[p[1] - 1], p[2]) ELSE p[2]]
           v == hops[a].added
<1>1. DOMAIN hops = run /\ \A k \in run : hops[k] = Hop(k) /\ k \in Nat
  BY DEF HopsOf
<1> HIDE DEF hops
<1>2. v \in V
  BY <1>1 DEF HopLines
<1>3. \A k \in run : \A lines : Carried(hops[k], lines) \in V
  <2> SUFFICES ASSUME NEW k \in run, NEW lines PROVE Carried(hops[k], lines) \subseteq HopLines
    OBVIOUS
  <2>1. hops[k] = Hop(k) /\ k \in Nat
    BY <1>1
  <2>2. KeptLines(Hop(k)) \subseteq HopLines
    BY <2>1 DEF HopLines
  <2>3. Carried(hops[k], lines) \subseteq KeptLines(Hop(k))
    BY <2>1 DEF Carried, KeptLines
  <2> QED BY <2>2, <2>3
<1>4. oneStep \in [Nat \X V -> V]
  <2> HIDE DEF V
  <2> QED BY <1>3
<1>5. \A k \in Nat, x \in V : oneStep[<<k, x>>] = IF k - 1 \in run THEN Carried(hops[k - 1], x) ELSE x
  <2> HIDE DEF V
  <2> QED OBVIOUS
<1> HIDE DEF V, oneStep, v
<1>6. PICK f \in [a + 1 .. b -> V] : \A k \in a + 1 .. b : f[k] = IF k = a + 1 THEN v ELSE oneStep[<<k, f[k - 1]>>]
  <2> DEFINE c == a + 1
  <2>1. c \in Nat
    BY <1>1
  <2> HIDE DEF c
  <2>2. \E f : IsIterate(f, V, v, oneStep, c, b)
    BY <1>2, <1>4, <2>1, Iterates
  <2> QED BY <2>2 DEF c, IsIterate
<1>7. ASSUME NEW k \in a + 1 .. b
      PROVE  f[k] = IF k = a + 1 THEN hops[a].added
                    ELSE IF k - 1 \in DOMAIN hops THEN Carried(hops[k - 1], f[k - 1]) ELSE f[k - 1]
  <2>1. a \in Nat /\ k \in Nat
    BY <1>1
  <2>2. CASE k = a + 1
    BY <1>6, <2>2 DEF v
  <2>3. CASE k # a + 1
    <3>1. k - 1 \in a + 1 .. b
      BY <2>1, <2>3
    <3>2. f[k - 1] \in V
      BY <3>1
    <3>3. oneStep[<<k, f[k - 1]>>] = IF k - 1 \in run THEN Carried(hops[k - 1], f[k - 1]) ELSE f[k - 1]
      BY <1>5, <2>1, <3>2
    <3> QED BY <1>1, <1>6, <2>3, <3>3
  <2> QED BY <2>2, <2>3
<1>8. IsTracked(f, hops, a, b)
  BY <1>6, <1>7 DEF IsTracked
<1> DEFINE g == CHOOSE h : IsTracked(h, hops, a, b)
<1>9. IsTracked(g, hops, a, b)
  BY <1>8
<1>10. Tracked(hops, a, b) = g[b]
  BY DEF Tracked, IsTracked
<1> QED BY <1>9, <1>10 DEF hops

\* Only the hops from the earlier to the later matter.
LEMMA TrackedSame ==
  ASSUME NEW run, run \subseteq Nat, NEW a \in run, NEW b \in Nat, a < b, a .. b - 1 \subseteq run
  PROVE  Tracked(HopsOf(run), a, b) = Tracked(HopsOf(Nat), a, b)
<1>0. a \in Nat /\ DOMAIN HopsOf(run) = run /\ DOMAIN HopsOf(Nat) = Nat
  BY DEF HopsOf
<1>1. PICK f : IsTracked(f, HopsOf(run), a, b) /\ Tracked(HopsOf(run), a, b) = f[b]
  BY TrackedIs
<1>2. PICK g : IsTracked(g, HopsOf(Nat), a, b) /\ Tracked(HopsOf(Nat), a, b) = g[b]
  <2>1. Nat \subseteq Nat /\ a \in Nat
    BY <1>0
  <2> QED BY <2>1, TrackedIs
<1>3. \A k \in a .. b - 1 : HopsOf(run)[k] = HopsOf(Nat)[k] /\ k \in run /\ k \in Nat
  BY <1>0 DEF HopsOf
<1> DEFINE K == {m \in Nat : a + 1 + m <= b => f[a + 1 + m] = g[a + 1 + m]}
<1>4. \A k \in a + 1 .. b : f[k] = IF k = a + 1 THEN HopsOf(run)[a].added
                ELSE IF k - 1 \in DOMAIN HopsOf(run) THEN Carried(HopsOf(run)[k - 1], f[k - 1]) ELSE f[k - 1]
  BY <1>1 DEF IsTracked
<1>5. \A k \in a + 1 .. b : g[k] = IF k = a + 1 THEN HopsOf(Nat)[a].added
                ELSE IF k - 1 \in DOMAIN HopsOf(Nat) THEN Carried(HopsOf(Nat)[k - 1], g[k - 1]) ELSE g[k - 1]
  BY <1>2 DEF IsTracked
<1>6. 0 \in K
  <2>1. a \in a .. b - 1 /\ a + 1 \in a + 1 .. b /\ a + 1 + 0 = a + 1
    BY <1>0
  <2> QED BY <1>3, <1>4, <1>5, <2>1
<1>7. ASSUME NEW m \in Nat, m \in K PROVE m + 1 \in K
  <2> SUFFICES ASSUME a + 1 + (m + 1) <= b PROVE f[a + 1 + (m + 1)] = g[a + 1 + (m + 1)]
    OBVIOUS
  <2> DEFINE k == a + 1 + (m + 1)
             j == a + 1 + m
  <2>1. k \in a + 1 .. b /\ k # a + 1 /\ k - 1 = j /\ j \in a .. b - 1 /\ j <= b
    BY <1>0
  <2>2. f[j] = g[j]
    BY <1>7, <2>1
  <2> HIDE DEF k, j
  <2>3. f[k] = Carried(HopsOf(run)[j], f[j])
    BY <1>0, <1>3, <1>4, <2>1
  <2>4. g[k] = Carried(HopsOf(Nat)[j], g[j])
    BY <1>0, <1>3, <1>5, <2>1
  <2>5. f[k] = g[k]
    BY <1>3, <2>1, <2>2, <2>3, <2>4
  <2> QED BY <2>5 DEF k
<1>8. Nat \subseteq K
  <2> HIDE DEF K
  <2> QED BY <1>6, <1>7, NatInd
<1> DEFINE m == b - a - 1
<1>9. m \in Nat /\ a + 1 + m = b
  BY <1>0
<1>10. m \in K
  BY <1>8, <1>9
<1> HIDE DEF m
<1>11. f[b] = g[b]
  BY <1>9, <1>10
<1> QED BY <1>1, <1>2, <1>11

\* So whether two edits share code does not depend on the run they are looked at in.
LEMMA SameCodeSame ==
  ASSUME NEW run, run \subseteq Nat, NEW a \in run, NEW b \in run, a < b, a .. b \subseteq run
  PROVE  SameCode(HopsOf(run), a, b) <=> SameCode(HopsOf(Nat), a, b)
<1>1. a \in Nat /\ b \in Nat
  OBVIOUS
<1>2. a .. b - 1 \subseteq run
  BY <1>1
<1>3. Tracked(HopsOf(run), a, b) = Tracked(HopsOf(Nat), a, b)
  BY <1>1, <1>2, TrackedSame
<1>4. HopsOf(run)[a] = HopsOf(Nat)[a] /\ HopsOf(run)[b] = HopsOf(Nat)[b]
  BY <1>1 DEF HopsOf
<1> QED BY <1>3, <1>4 DEF SameCode

-----------------------------------------------------------------------------
(* Components: edits that share code, put together one after the other.    *)

\* The components that the next edit joins, and what it makes of them.
Joined(run, P, b) == {C \in P : \E a \in C : SameCode(HopsOf(run), a, b)}
NextParts(run, P, b) ==
  IF b \in run THEN (P \ Joined(run, P, b)) \cup {{b} \cup UNION Joined(run, P, b)} ELSE P

\* The components of a run are what is left when all its edits have joined.
LEMMA PartsAre ==
  ASSUME NEW n \in Nat, NEW run, run \subseteq 1 .. n, run # {}
  PROVE  \E f : /\ f[0] = {} /\ \A b \in 1 .. Max(run) : f[b] = NextParts(run, f[b - 1], b)
                /\ ComponentsOf(run) = f[Max(run)]
<1> DEFINE N == Max(run)
           V == SUBSET SUBSET run
           oneStep == [p \in Nat \X V |-> NextParts(run, p[2], p[1])]
           Is(f) == f = [b \in 0 .. N |-> IF b = 0 THEN {} ELSE NextParts(run, f[b - 1], b)]
<1>1. N \in Nat
  <2>1. N \in run
    BY MaxIs
  <2>2. run \subseteq Nat
    OBVIOUS
  <2> HIDE DEF N
  <2> QED BY <2>1, <2>2
<1> HIDE DEF N
<1>2. \A b, P : P \in V => NextParts(run, P, b) \in V
  BY DEF NextParts, Joined
<1> HIDE DEF V
<1>3. oneStep \in [Nat \X V -> V] /\ \A b \in Nat, P \in V : oneStep[<<b, P>>] = NextParts(run, P, b)
  BY <1>2
<1>4. {} \in V
  BY DEF V
<1> HIDE DEF oneStep
<1>5. PICK f : IsIterate(f, V, {}, oneStep, 0, N)
  BY <1>1, <1>3, <1>4, Iterates
<1>6. f \in [0 .. N -> V] /\ \A b \in 0 .. N : f[b] = IF b = 0 THEN {} ELSE oneStep[<<b, f[b - 1]>>]
  BY <1>5 DEF IsIterate
<1>7. ASSUME NEW b \in 0 .. N PROVE f[b] = IF b = 0 THEN {} ELSE NextParts(run, f[b - 1], b)
  <2>1. b # 0 => b - 1 \in 0 .. N /\ b \in Nat
    BY <1>1
  <2>2. b # 0 => f[b - 1] \in V
    BY <1>6, <2>1
  <2> QED BY <1>3, <1>6, <2>1, <2>2
<1>8. Is(f)
  BY <1>6, <1>7
<1> DEFINE g == CHOOSE h : Is(h)
<1>9. Is(g)
  BY <1>8
<1>10. ComponentsOf(run) = g[N]
  BY DEF ComponentsOf, NextParts, Joined, HopsOf, N
<1> HIDE DEF g
<1>11. g[0] = {} /\ \A b \in 1 .. N : g[b] = NextParts(run, g[b - 1], b)
  <2>1. \A b \in 0 .. N : g[b] = IF b = 0 THEN {} ELSE NextParts(run, g[b - 1], b)
    BY <1>9
  <2> HIDE DEF Is
  <2>2. 0 \in 0 .. N /\ \A b \in 1 .. N : b \in 0 .. N /\ b # 0
    BY <1>1
  <2> QED BY <2>1, <2>2
<1> QED BY <1>10, <1>11 DEF N

\* Two edits of the run that share code stand on the two sides of the place after i.
Crossed(run, i) == \E a, c \in run : a <= i /\ i < c /\ SameCode(HopsOf(run), a, c)

\* The components of the edits up to b: what shares code is together, and nothing else makes them reach over a place.
PartsUpTo(P, run, b) ==
  /\ \A C \in P : C # {} /\ C \subseteq run /\ \A x \in C : x <= b
  /\ \A x \in run : x <= b => \E C \in P : x \in C
  /\ \A a, c \in run : a < c /\ c <= b /\ SameCode(HopsOf(run), a, c) => Together(P, a, c)
  /\ \A C \in P : \A p, q \in C, i \in Nat : p <= i /\ i < q => Crossed(run, i)

\* The next edit of the run joins.
LEMMA PartsJoin ==
  ASSUME NEW run, run \subseteq Nat, NEW b \in Nat, NEW P, PartsUpTo(P, run, b), b + 1 \in run
  PROVE  PartsUpTo(NextParts(run, P, b + 1), run, b + 1)
<1> DEFINE d == b + 1
           J == Joined(run, P, d)
           D == {d} \cup UNION J
           Q == NextParts(run, P, d)
<1>1. d \in run /\ d \in Nat /\ b < d
  OBVIOUS
<1>2. \A x \in run : x <= d <=> x <= b \/ x = d
  OBVIOUS
<1> HIDE DEF d
<1>3. Q = (P \ J) \cup {D}
  BY <1>1 DEF NextParts
<1>4. J \subseteq P /\ \A C \in J : \E a \in C : SameCode(HopsOf(run), a, d)
  BY DEF Joined
<1>5. \A C \in P : (\E a \in C : SameCode(HopsOf(run), a, d)) => C \in J
  BY DEF Joined
<1> HIDE DEF J, Q
<1>6. \A C \in P : \E E \in Q : C \subseteq E
  BY <1>3
<1>7. \A C \in P : C # {} /\ C \subseteq run /\ \A x \in C : x <= b
  BY DEF PartsUpTo
<1>8. \A C \in Q : C # {} /\ C \subseteq run /\ \A x \in C : x <= d
  <2>1. \A C \in P : \A x \in C : x <= d
    BY <1>2, <1>7
  <2>2. D # {} /\ D \subseteq run /\ \A x \in D : x <= d
    BY <1>1, <1>2, <1>4, <1>7, <2>1
  <2> HIDE DEF D
  <2> QED BY <1>3, <1>7, <2>1, <2>2
<1>9. \A x \in run : x <= d => \E C \in Q : x \in C
  <2>1. \A x \in run : x <= b => \E C \in P : x \in C
    BY DEF PartsUpTo
  <2>2. d \in D /\ D \in Q
    BY <1>3
  <2> QED BY <1>2, <1>6, <2>1, <2>2
<1>10. ASSUME NEW a \in run, NEW c \in run, a < c, c <= d, SameCode(HopsOf(run), a, c) PROVE Together(Q, a, c)
  <2>1. CASE c <= b
    <3>1. Together(P, a, c)
      BY <1>10, <2>1 DEF PartsUpTo
    <3> QED BY <1>6, <3>1 DEF Together
  <2>2. CASE c = d
    <3>1. a <= b
      BY <1>10, <2>2 DEF d
    <3>2. PICK C \in P : a \in C
      BY <3>1 DEF PartsUpTo
    <3>3. C \in J
      BY <1>5, <1>10, <2>2, <3>2
    <3>4. a \in D /\ d \in D /\ D \in Q
      BY <1>3, <3>2, <3>3
    <3> QED BY <2>2, <3>4 DEF Together
  <2> QED BY <1>2, <1>10, <2>1, <2>2
<1>11. ASSUME NEW p \in D, NEW q \in D, NEW i \in Nat, p <= i, i < q PROVE Crossed(run, i)
  <2>1. i < d
    <3>1. q \in run /\ q <= d
      BY <1>3, <1>8
    <3>2. q \in Nat
      BY <3>1
    <3> QED BY <1>1, <1>11, <3>1, <3>2
  <2>2. p # d
    BY <1>1, <1>11, <2>1
  <2>3. PICK C \in J : p \in C
    BY <2>2
  <2>4. PICK a \in C : SameCode(HopsOf(run), a, d)
    BY <1>4
  <2>5. C \in P /\ a \in run /\ p \in run
    BY <1>4, <1>7, <2>3
  <2>6. a \in Nat
    BY <2>5
  <2>7. CASE a <= i
    BY <1>1, <2>1, <2>4, <2>5, <2>7 DEF Crossed
  <2>8. CASE i < a
    BY <1>11, <2>3, <2>5, <2>8 DEF PartsUpTo
  <2> QED BY <2>6, <2>7, <2>8
<1>12. \A C \in Q : \A p, q \in C, i \in Nat : p <= i /\ i < q => Crossed(run, i)
  <2>1. \A C \in P : \A p, q \in C, i \in Nat : p <= i /\ i < q => Crossed(run, i)
    BY DEF PartsUpTo
  <2>2. \A p, q \in D, i \in Nat : p <= i /\ i < q => Crossed(run, i)
    BY <1>11
  <2> HIDE DEF D
  <2> QED BY <1>3, <2>1, <2>2
<1>13. PartsUpTo(Q, run, d)
  BY <1>8, <1>9, <1>10, <1>12 DEF PartsUpTo
<1> QED BY <1>13 DEF Q, d

\* The components of a run: what shares code is together, and nothing else makes them reach over a place.
LEMMA ComponentsAre ==
  ASSUME NEW n \in Nat, NEW run, run \subseteq 1 .. n, run # {}
  PROVE  PartsUpTo(ComponentsOf(run), run, Max(run))
<1> DEFINE N == Max(run)
<1>0. N \in Nat
  <2>1. N \in run
    BY MaxIs
  <2>2. run \subseteq Nat
    OBVIOUS
  <2> HIDE DEF N
  <2> QED BY <2>1, <2>2
<1>1. PICK f : /\ f[0] = {} /\ \A b \in 1 .. N : f[b] = NextParts(run, f[b - 1], b)
               /\ ComponentsOf(run) = f[N]
  BY PartsAre
<1> HIDE DEF N
<1> DEFINE K == {b \in Nat : b <= N => PartsUpTo(f[b], run, b)}
<1>2. run \subseteq Nat /\ \A x \in run : ~(x <= 0)
  OBVIOUS
<1>3. 0 \in K
  <2>1. PartsUpTo({}, run, 0)
    <3>1. \A a, c \in run : ~(c <= 0)
      BY <1>2
    <3> QED BY <1>2, <3>1 DEF PartsUpTo
  <2> QED BY <1>1, <2>1
<1>4. ASSUME NEW b \in Nat, b \in K PROVE b + 1 \in K
  <2> SUFFICES ASSUME b + 1 <= N PROVE PartsUpTo(f[b + 1], run, b + 1)
    OBVIOUS
  <2> DEFINE d == b + 1
  <2>1. d \in 1 .. N /\ d - 1 = b /\ b <= N
    BY <1>0
  <2> HIDE DEF d
  <2>2. f[d] = NextParts(run, f[b], d) /\ PartsUpTo(f[b], run, b)
    BY <1>1, <1>4, <2>1
  <2>3. CASE d \in run
    BY <1>2, <2>2, <2>3, PartsJoin DEF d
  <2>4. CASE d \notin run
    <3>1. f[d] = f[b]
      BY <2>2, <2>4 DEF NextParts
    <3>2. \A x \in run : x <= d <=> x <= b
      BY <1>2, <2>4 DEF d
    <3> DEFINE P == f[b]
    <3>3. PartsUpTo(P, run, b)
      BY <2>2
    <3> HIDE DEF P
    <3>4. PartsUpTo(P, run, d)
      BY <3>2, <3>3 DEF PartsUpTo
    <3> QED BY <3>1, <3>4 DEF P, d
  <2> QED BY <2>3, <2>4
<1>5. Nat \subseteq K
  <2> HIDE DEF K
  <2> QED BY <1>3, <1>4, NatInd
<1>6. PartsUpTo(f[N], run, N)
  BY <1>0, <1>5
<1> QED BY <1>1, <1>6 DEF N

-----------------------------------------------------------------------------
(* Spans are told by the edits that share code.                            *)

\* Two neighbours of a run are in one span of it when code is shared over the place between them.
LEMMA SpansOfNext ==
  ASSUME NEW n \in Nat, NEW run, run \subseteq 1 .. n, NEW k \in run, k + 1 \in run
  PROVE  Together(SpansOf(run), k, k + 1) <=> Crossed(run, k)
<1> DEFINE Cs == ComponentsOf(run)
           links == UNION {(Min(C) .. Max(C)) \X (Min(C) .. Max(C)) : C \in Cs}
<1>0. run \subseteq Nat /\ k \in Nat /\ run # {}
  OBVIOUS
<1>1. PartsUpTo(Cs, run, Max(run))
  BY <1>0, ComponentsAre
<1>2. SpansOf(run) = Pieces(run, links)
  BY DEF SpansOf
<1> HIDE DEF Cs
<1>3. <<k, k + 1>> \in links <=> \E C \in Cs : k \in Min(C) .. Max(C) /\ k + 1 \in Min(C) .. Max(C)
  OBVIOUS
<1> HIDE DEF links
<1>4. Together(SpansOf(run), k, k + 1) <=> <<k, k + 1>> \in links
  BY <1>2, PiecesNext
<1>5. \A C \in Cs : C \subseteq run /\ C # {}
  BY <1>1 DEF PartsUpTo
<1>6. ASSUME NEW C \in Cs
      PROVE  Min(C) \in C /\ Max(C) \in C /\ Min(C) \in Nat /\ Max(C) \in Nat /\ \A x \in C : Min(C) <= x /\ x <= Max(C)
  <2>1. C \subseteq 1 .. n /\ C \subseteq Nat /\ C # {}
    BY <1>0, <1>5
  <2>2. Min(C) \in C /\ \A x \in C : Min(C) <= x
    BY <2>1, MinIs
  <2>3. Max(C) \in C /\ \A x \in C : x <= Max(C)
    BY <2>1, MaxIs
  <2> QED BY <2>1, <2>2, <2>3
<1>7. ASSUME NEW C \in Cs, k \in Min(C) .. Max(C), k + 1 \in Min(C) .. Max(C) PROVE Crossed(run, k)
  <2>1. Min(C) \in C /\ Max(C) \in C /\ Min(C) \in Nat /\ Max(C) \in Nat
    BY <1>6
  <2>2. Min(C) <= k /\ k < Max(C)
    BY <1>0, <1>7, <2>1
  <2>3. \A p, q \in C, i \in Nat : p <= i /\ i < q => Crossed(run, i)
    BY <1>1 DEF PartsUpTo
  <2> QED BY <1>0, <2>1, <2>2, <2>3
<1>8. ASSUME Crossed(run, k) PROVE \E C \in Cs : k \in Min(C) .. Max(C) /\ k + 1 \in Min(C) .. Max(C)
  <2>1. PICK a \in run, c \in run : a <= k /\ k < c /\ SameCode(HopsOf(run), a, c)
    BY <1>8 DEF Crossed
  <2>2. a \in Nat /\ c \in Nat /\ a < c
    BY <1>0, <2>1
  <2>3. c <= Max(run)
    BY <1>0, MaxIs
  <2>4. Together(Cs, a, c)
    BY <1>1, <2>1, <2>2, <2>3 DEF PartsUpTo
  <2>5. PICK C \in Cs : a \in C /\ c \in C
    BY <2>4 DEF Together
  <2>6. Min(C) <= a /\ c <= Max(C) /\ Min(C) \in Nat /\ Max(C) \in Nat
    BY <1>6, <2>5
  <2>7. k \in Min(C) .. Max(C) /\ k + 1 \in Min(C) .. Max(C)
    BY <1>0, <2>1, <2>2, <2>6
  <2> QED BY <2>7
<1> QED BY <1>3, <1>4, <1>7, <1>8

\* Two neighbours are in one run when the second follows the first.
LEMMA RunsNext ==
  ASSUME NEW n \in Nat, NEW mine, mine \subseteq 1 .. n, NEW k \in mine, k + 1 \in mine
  PROVE  Together(RunsOf(mine), k, k + 1) <=> Follows(k, k + 1)
<1> DEFINE links == {e \in mine \X mine : Follows(e[1], e[2])}
<1>1. RunsOf(mine) = Pieces(mine, links)
  BY DEF RunsOf
<1>2. <<k, k + 1>> \in links <=> Follows(k, k + 1)
  OBVIOUS
<1> HIDE DEF links
<1> QED BY <1>1, <1>2, PiecesNext

\* Edits of mine from a to b that follow one another, of which the last shares code with the first.
Edge(mine, a, b) ==
  /\ a \in Nat /\ b \in Nat /\ a < b /\ a .. b \subseteq mine
  /\ \A j \in a .. b - 1 : Follows(j, j + 1)
  /\ SameCode(HopsOf(Nat), a, b)

\* Two edits of a run that share code are such.
LEMMA RunEdge ==
  ASSUME NEW n \in Nat, NEW mine, mine \subseteq 1 .. n, NEW run \in RunsOf(mine), NEW a \in run, NEW b \in run, a < b
  PROVE  a .. b \subseteq run /\ \A j \in a .. b - 1 : Follows(j, j + 1)
<1>1. SplitsWell(RunsOf(mine), mine)
  BY RunsExact
<1>2. run \subseteq mine /\ Unbroken(run)
  BY <1>1 DEF SplitsWell, Splits
<1>3. run \subseteq Nat /\ a \in Nat /\ b \in Nat
  BY <1>2
<1>4. ASSUME NEW j \in a .. b PROVE j \in run
  <2>1. j \in Nat /\ a <= j /\ j <= b
    BY <1>3
  <2> QED BY <1>2, <1>3, <2>1, UnbrokenConvex
<1>5. ASSUME NEW j \in a .. b - 1 PROVE Follows(j, j + 1)
  <2>1. j \in a .. b /\ j + 1 \in a .. b
    BY <1>3
  <2>2. j \in run /\ j + 1 \in run
    BY <1>4, <2>1
  <2>3. j \in mine /\ j + 1 \in mine /\ Together(RunsOf(mine), j, j + 1)
    BY <1>2, <2>2 DEF Together
  <2> QED BY <2>3, RunsNext
<1> QED BY <1>4, <1>5

\* Edits that follow one another are in one run.
LEMMA FollowRun ==
  ASSUME NEW n \in Nat, NEW mine, mine \subseteq 1 .. n, NEW a \in Nat, NEW b \in Nat, a < b, a .. b \subseteq mine,
         \A j \in a .. b - 1 : Follows(j, j + 1)
  PROVE  \E run \in RunsOf(mine) : a .. b \subseteq run
<1>1. Splits(RunsOf(mine), mine)
  BY RunsExact DEF SplitsWell
<1>2. ASSUME NEW j \in a .. b - 1 PROVE Together(RunsOf(mine), j, j + 1)
  <2>1. j \in mine /\ j + 1 \in mine /\ Follows(j, j + 1)
    BY <1>2
  <2> QED BY <2>1, RunsNext
<1>3. Together(RunsOf(mine), a, b)
  BY <1>1, <1>2, TogetherChain
<1>4. PICK run \in RunsOf(mine) : a \in run /\ b \in run
  BY <1>3 DEF Together
<1>5. a .. b \subseteq run
  BY <1>4, RunEdge
<1> QED BY <1>5

\* Two neighbours are in one span when such edits are on the two sides of the place between them.
LEMMA SpansNext ==
  ASSUME NEW n \in Nat, NEW mine, mine \subseteq 1 .. n, NEW k \in Nat
  PROVE  Together(SpansOfAll(mine), k, k + 1) <=> \E a, b \in Nat : Edge(mine, a, b) /\ a <= k /\ k < b
<1>0. mine \subseteq Nat
  OBVIOUS
<1>1. Splits(RunsOf(mine), mine)
  BY RunsExact DEF SplitsWell
<1>2. \A run \in RunsOf(mine) : run \subseteq mine
  BY <1>1 DEF Splits
<1>3. ASSUME Together(SpansOfAll(mine), k, k + 1)
      PROVE  \E a, b \in Nat : Edge(mine, a, b) /\ a <= k /\ k < b
  <2>1. PICK s \in SpansOfAll(mine) : k \in s /\ k + 1 \in s
    BY <1>3 DEF Together
  <2>2. PICK run \in RunsOf(mine) : s \in SpansOf(run)
    BY <2>1 DEF SpansOfAll
  <2>3. run \subseteq 1 .. n /\ run \subseteq Nat
    BY <1>0, <1>2
  <2>4. s \subseteq run
    <3>1. \A links : Splits(Pieces(run, links), run)
      BY PiecesSplit
    <3>2. Splits(SpansOf(run), run)
      BY <3>1 DEF SpansOf
    <3> QED BY <2>2, <3>2 DEF Splits
  <2>5. k \in run /\ k + 1 \in run
    BY <2>1, <2>4
  <2>6. Crossed(run, k)
    BY <2>1, <2>2, <2>3, <2>5, SpansOfNext DEF Together
  <2>7. PICK a \in run, b \in run : a <= k /\ k < b /\ SameCode(HopsOf(run), a, b)
    BY <2>6 DEF Crossed
  <2>8. a \in Nat /\ b \in Nat /\ a < b
    BY <2>3, <2>7
  <2>9. a .. b \subseteq run /\ \A j \in a .. b - 1 : Follows(j, j + 1)
    BY <2>8, RunEdge
  <2>10. SameCode(HopsOf(Nat), a, b)
    BY <2>3, <2>7, <2>8, <2>9, SameCodeSame
  <2>11. Edge(mine, a, b)
    BY <1>2, <2>8, <2>9, <2>10 DEF Edge
  <2> QED BY <2>7, <2>8, <2>11
<1>4. ASSUME NEW a \in Nat, NEW b \in Nat, Edge(mine, a, b), a <= k, k < b PROVE Together(SpansOfAll(mine), k, k + 1)
  <2>1. PICK run \in RunsOf(mine) : a .. b \subseteq run
    BY <1>4, FollowRun DEF Edge
  <2>2. run \subseteq 1 .. n /\ run \subseteq Nat
    BY <1>0, <1>2
  <2>3. a \in run /\ b \in run /\ k \in run /\ k + 1 \in run
    <3>1. a \in a .. b /\ b \in a .. b /\ k \in a .. b /\ k + 1 \in a .. b
      BY <1>4
    <3> QED BY <2>1, <3>1
  <2>4. SameCode(HopsOf(run), a, b)
    BY <1>4, <2>1, <2>2, <2>3, SameCodeSame DEF Edge
  <2>5. Crossed(run, k)
    BY <1>4, <2>3, <2>4 DEF Crossed
  <2>6. Together(SpansOf(run), k, k + 1)
    BY <2>2, <2>3, <2>5, SpansOfNext
  <2> QED BY <2>6 DEF Together, SpansOfAll
<1> QED BY <1>3, <1>4

\* So they are all in one span.
LEMMA EdgeTogether ==
  ASSUME NEW n \in Nat, NEW mine, mine \subseteq 1 .. n, NEW a, NEW b, Edge(mine, a, b),
         NEW s \in SpansOfAll(mine), NEW k \in a .. b, k \in s
  PROVE  a .. b \subseteq s
<1>0. a \in Nat /\ b \in Nat /\ a < b
  BY DEF Edge
<1>1. Splits(SpansOfAll(mine), mine)
  BY SpansExact DEF SplitsWell
<1>2. ASSUME NEW i \in a .. b, NEW j \in a .. b, i < j PROVE Together(SpansOfAll(mine), i, j)
  <2>1. i \in Nat /\ j \in Nat
    BY <1>0
  <2>2. ASSUME NEW x \in i .. j - 1 PROVE Together(SpansOfAll(mine), x, x + 1)
    <3>1. x \in Nat /\ a <= x /\ x < b
      BY <1>0, <2>1
    <3> QED BY <1>0, <3>1, SpansNext
  <2> QED BY <1>1, <1>2, <2>1, <2>2, TogetherChain
<1>3. ASSUME NEW j \in a .. b PROVE j \in s
  <2>1. j < k \/ k < j \/ j = k
    BY <1>0
  <2>2. j = k \/ Together(SpansOfAll(mine), k, j)
    BY <1>2, <2>1 DEF Together
  <2> QED BY <1>1, <2>2 DEF Together, Splits
<1> QED BY <1>3

\* Without whole spans, what is left has the other spans.
LEMMA SpansLeft ==
  ASSUME NEW n \in Nat, NEW mine, mine \subseteq 1 .. n, NEW R, R \subseteq SpansOfAll(mine)
  PROVE  SpansOfAll(mine \ UNION R) = SpansOfAll(mine) \ R
<1> DEFINE F == SpansOfAll(mine)
           left == mine \ UNION R
           G == SpansOfAll(left)
<1>1. left \subseteq 1 .. n /\ left \subseteq mine /\ left \subseteq Nat
  <2>1. left \subseteq mine /\ mine \subseteq Nat
    OBVIOUS
  <2> HIDE DEF left
  <2> QED BY <2>1
<1>2. SplitsWell(F, mine)
  BY SpansExact
<1>3. SplitsWell(F \ R, left)
  BY <1>2, SplitLeft
<1>4. SplitsWell(G, left)
  BY <1>1, SpansExact
<1>5. ASSUME NEW k \in Nat, Together(G, k, k + 1) PROVE Together(F \ R, k, k + 1)
  <2>1. PICK a \in Nat, b \in Nat : Edge(left, a, b) /\ a <= k /\ k < b
    BY <1>1, <1>5, SpansNext
  <2>2. Edge(mine, a, b)
    BY <1>1, <2>1 DEF Edge
  <2>3. Together(F, k, k + 1)
    BY <2>1, <2>2, SpansNext
  <2>4. k \in left
    BY <1>4, <1>5 DEF Together, SplitsWell, Splits
  <2> HIDE DEF F
  <2> QED BY <2>3, <2>4 DEF Together
<1>6. ASSUME NEW k \in Nat, Together(F \ R, k, k + 1) PROVE Together(G, k, k + 1)
  <2>1. PICK s \in F \ R : k \in s /\ k + 1 \in s
    BY <1>6 DEF Together
  <2>2. Together(F, k, k + 1)
    BY <2>1 DEF Together
  <2>3. PICK a \in Nat, b \in Nat : Edge(mine, a, b) /\ a <= k /\ k < b
    BY <2>2, SpansNext
  <2>4. k \in a .. b
    BY <2>3
  <2>5. a .. b \subseteq s
    BY <2>1, <2>3, <2>4, EdgeTogether
  <2>6. s \subseteq left
    BY <1>3, <2>1 DEF SplitsWell, Splits
  <2>7. Edge(left, a, b)
    BY <2>3, <2>5, <2>6 DEF Edge
  <2> QED BY <1>1, <2>3, <2>7, SpansNext
<1>7. \A k \in Nat : Together(G, k, k + 1) <=> Together(F \ R, k, k + 1)
  BY <1>5, <1>6
<1> HIDE DEF F, G, left
<1>8. G = F \ R
  BY <1>1, <1>3, <1>4, <1>7, SplitsSame
<1> QED BY <1>8 DEF F, G, left

-----------------------------------------------------------------------------
(* Folds are told by the spans that meet.                                  *)

\* Each span is in a fold.
LEMMA FoldsFiner ==
  ASSUME NEW n \in Nat, NEW S, S \subseteq 1 .. n, NEW F, SplitsWell(F, S), NEW a \in F
  PROVE  \E G \in Pieces(Starts(F), Met(F)) : Min(a) \in G /\ a \subseteq Fold(F, G) /\ Fold(F, G) \in AbsenceFolded(F)
<1>1. Splits(Pieces(Starts(F), Met(F)), Starts(F))
  BY PiecesSplit
<1>2. Min(a) \in Starts(F)
  BY DEF Starts
<1>3. PICK G \in Pieces(Starts(F), Met(F)) : Min(a) \in G
  BY <1>1, <1>2 DEF Splits
<1>4. a \subseteq Fold(F, G)
  BY <1>3 DEF Fold
<1>5. Fold(F, G) \in AbsenceFolded(F)
  BY FoldsAre
<1> QED BY <1>3, <1>4, <1>5

\* Two neighbours are in one fold when they are in one span, or the file is gone between two spans there.
LEMMA FoldsNext ==
  ASSUME NEW n \in Nat, NEW S, S \subseteq 1 .. n, NEW F, SplitsWell(F, S), NEW k \in Nat
  PROVE  Together(AbsenceFolded(F), k, k + 1) <=> Together(F, k, k + 1) \/ \E a, b \in F : Max(a) = k /\ Meet(a, b)
<1>1. ASSUME Together(AbsenceFolded(F), k, k + 1), ~Together(F, k, k + 1)
      PROVE  \E a, b \in F : Max(a) = k /\ Meet(a, b)
  <2>1. PICK A \in AbsenceFolded(F) : k \in A /\ k + 1 \in A
    BY <1>1 DEF Together
  <2>2. PICK G \in Pieces(Starts(F), Met(F)) : A = Fold(F, G)
    BY FoldsAre
  <2>3. PICK a \in F : Min(a) \in G /\ k \in a
    BY <2>1, <2>2 DEF Fold
  <2>4. PICK b \in F : Min(b) \in G /\ k + 1 \in b
    BY <2>1, <2>2 DEF Fold
  <2>5. a # b
    BY <1>1, <2>3, <2>4 DEF Together
  <2>6. Min(a) < Min(b)
    <3>1. Min(a) < Min(b) \/ Min(b) < Min(a)
      BY <2>5, OrderedByMin
    <3>2. Min(b) < Min(a) => \A u \in b, v \in a : u < v
      BY <2>3, <2>4, OrderedByMin
    <3>3. ~(k + 1 < k)
      OBVIOUS
    <3> QED BY <2>3, <2>4, <3>1, <3>2, <3>3
  <2>7. PICK c \in F : Meet(a, c)
    BY <2>3, <2>4, <2>6, FoldMeets
  <2>8. a \subseteq Nat /\ Max(a) \in a /\ k <= Max(a)
    BY <2>3, EndsOfSet
  <2>9. Max(a) < k + 1
    <3>1. \A u \in a, v \in b : u < v
      BY <2>3, <2>4, <2>6, OrderedByMin
    <3> QED BY <2>4, <2>8, <3>1
  <2>10. Max(a) = k
    <3>1. Max(a) \in Nat
      BY <2>8
    <3> QED BY <2>8, <2>9, <3>1
  <2> QED BY <2>7, <2>10
<1>2. ASSUME Together(F, k, k + 1) PROVE Together(AbsenceFolded(F), k, k + 1)
  <2>1. PICK a \in F : k \in a /\ k + 1 \in a
    BY <1>2 DEF Together
  <2>2. PICK A \in AbsenceFolded(F) : a \subseteq A
    BY FoldsFiner
  <2> QED BY <2>1, <2>2 DEF Together
<1>3. ASSUME NEW a \in F, NEW b \in F, Max(a) = k, Meet(a, b) PROVE Together(AbsenceFolded(F), k, k + 1)
  <2>1. PICK G \in Pieces(Starts(F), Met(F)) : Min(a) \in G /\ a \subseteq Fold(F, G) /\ Fold(F, G) \in AbsenceFolded(F)
    BY FoldsFiner
  <2>2. PICK H \in Pieces(Starts(F), Met(F)) : Min(b) \in H /\ b \subseteq Fold(F, H) /\ Fold(F, H) \in AbsenceFolded(F)
    BY FoldsFiner
  <2>3. G = H
    BY <1>3, <2>1, <2>2, FoldHolds
  <2>4. Max(a) \in a /\ Min(b) \in b
    BY EndsOfSet
  <2>5. k \in a /\ k + 1 \in b
    BY <1>3, <2>4 DEF Meet, Adjacent
  <2> QED BY <2>1, <2>2, <2>3, <2>5 DEF Together
<1> QED BY <1>1, <1>2, <1>3

\* Without whole folds, what is left has the other folds.
LEMMA FoldsLeft ==
  ASSUME NEW n \in Nat, NEW S, S \subseteq 1 .. n, NEW F, SplitsWell(F, S), NEW R, R \subseteq AbsenceFolded(F)
  PROVE  AbsenceFolded(F \ PartsOf(F, R)) = AbsenceFolded(F) \ R
<1> DEFINE A == AbsenceFolded(F)
           P == PartsOf(F, R)
           E == F \ P
           B == AbsenceFolded(E)
           left == S \ UNION R
<1>1. left \subseteq 1 .. n /\ left \subseteq Nat
  <2>1. left \subseteq S /\ S \subseteq Nat
    OBVIOUS
  <2> HIDE DEF left
  <2> QED BY <2>1
<1>2. SplitsWell(A, S)
  BY FoldsExact
<1>3. \A a \in F : \E b \in A : a \subseteq b
  BY FoldsFiner
<1>4. P \subseteq F /\ UNION P = UNION R /\ \A a \in F : \A b \in A : a \subseteq b => (a \in P <=> b \in R)
  <2>1. Splits(F, S) /\ Splits(A, S)
    BY <1>2 DEF SplitsWell
  <2>2. R \subseteq A
    OBVIOUS
  <2> HIDE DEF A
  <2>3. P \subseteq F /\ UNION P = UNION R
    BY <1>3, <2>1, <2>2, PartsHold
  <2>4. ASSUME NEW a \in F, NEW b \in A, a \subseteq b PROVE a \in P <=> b \in R
    BY <1>3, <2>1, <2>2, <2>4, PartsHold
  <2> QED BY <2>3, <2>4
<1> HIDE DEF A, P
<1>5. SplitsWell(A \ R, left)
  BY <1>2, SplitLeft DEF A
<1>6. SplitsWell(E, left)
  <2>1. SplitsWell(F \ P, S \ UNION P)
    BY <1>4, SplitLeft
  <2> QED BY <1>4, <2>1
<1>7. SplitsWell(B, left)
  <2> HIDE DEF E, left
  <2> QED BY <1>1, <1>6, FoldsExact
<1>8. E \subseteq F
  OBVIOUS
<1>9. ASSUME NEW k \in Nat, Together(B, k, k + 1) PROVE Together(A \ R, k, k + 1)
  <2>1. Together(E, k, k + 1) \/ \E a, b \in E : Max(a) = k /\ Meet(a, b)
    <3> HIDE DEF E, left
    <3> QED BY <1>1, <1>6, <1>9, FoldsNext
  <2>2. Together(F, k, k + 1) \/ \E a, b \in F : Max(a) = k /\ Meet(a, b)
    BY <2>1 DEF Together
  <2>3. Together(A, k, k + 1)
    BY <2>2, FoldsNext DEF A
  <2>4. k \in left
    BY <1>7, <1>9 DEF Together, SplitsWell, Splits
  <2> QED BY <2>3, <2>4 DEF Together
<1>10. ASSUME NEW k \in Nat, Together(A \ R, k, k + 1) PROVE Together(B, k, k + 1)
  <2>1. PICK b \in A \ R : k \in b /\ k + 1 \in b
    BY <1>10 DEF Together
  <2>2. ASSUME NEW a \in F, k \in a \/ k + 1 \in a PROVE a \in E
    <3>1. PICK c \in A : a \subseteq c
      BY <1>3
    <3>2. c = b
      BY <1>2, <2>1, <2>2, <3>1, SetsApart
    <3> QED BY <1>4, <2>1, <3>1, <3>2
  <2>3. Together(F, k, k + 1) \/ \E a, c \in F : Max(a) = k /\ Meet(a, c)
    <3>1. Together(A, k, k + 1)
      BY <2>1 DEF Together
    <3> QED BY <3>1, FoldsNext DEF A
  <2>4. Together(F, k, k + 1) => Together(E, k, k + 1)
    BY <2>2 DEF Together
  <2>5. ASSUME NEW a \in F, NEW c \in F, Max(a) = k, Meet(a, c) PROVE a \in E /\ c \in E
    <3>1. Max(a) \in a /\ Min(c) \in c
      BY EndsOfSet
    <3>2. k \in a /\ k + 1 \in c
      BY <2>5, <3>1 DEF Meet, Adjacent
    <3> QED BY <2>2, <3>2
  <2>6. Together(E, k, k + 1) \/ \E a, c \in E : Max(a) = k /\ Meet(a, c)
    <3> HIDE DEF E
    <3> QED BY <2>3, <2>4, <2>5
  <2> HIDE DEF E, left
  <2> QED BY <1>1, <1>6, <2>6, FoldsNext
<1>11. \A k \in Nat : Together(B, k, k + 1) <=> Together(A \ R, k, k + 1)
  BY <1>9, <1>10
<1> HIDE DEF B, left
<1>12. B = A \ R
  BY <1>1, <1>5, <1>7, <1>11, SplitsSame
<1> QED BY <1>12 DEF A, B, P

-----------------------------------------------------------------------------
(* A chain of spans is the same chain in any list that has them.           *)

\* b comes after the i-th.
IsNext(s, i, b) == i + 1 \in 1 .. Len(s) /\ s[i + 1] = b

\* The set that begins where one of the list ends is the next of the list.
LEMMA NextInOrder ==
  ASSUME NEW n \in Nat, NEW S, S \subseteq 1 .. n, NEW F, SplitsWell(F, S), NEW s, Ordered(s, F),
         NEW i \in 1 .. Len(s), NEW b \in F, Adjacent(s[i], b)
  PROVE  IsNext(s, i, b)
<1> DEFINE a == s[i]
           x == Max(a)
           y == Min(b)
<1>1. Len(s) \in Nat /\ a \in F /\ y = x + 1
  BY DEF Ordered, Adjacent
<1>2. x \in a /\ y \in b /\ x \in Nat /\ y \in Nat
  <2> HIDE DEF a
  <2>1. x \in a /\ a \subseteq Nat
    BY <1>1, EndsOfSet
  <2>2. y \in b /\ b \subseteq Nat
    BY EndsOfSet
  <2> HIDE DEF x, y
  <2> QED BY <2>1, <2>2
<1>3. PICK j \in 1 .. Len(s) : s[j] = b
  BY DEF Ordered
<1>4. j # i
  <2> SUFFICES ASSUME j = i PROVE FALSE
    OBVIOUS
  <2>1. b = a
    BY <1>3
  <2> HIDE DEF a
  <2>2. x \in b /\ \A z \in b : Min(b) <= z
    BY <1>2, <2>1, EndsOfSet
  <2>3. y <= x
    BY <2>2
  <2> HIDE DEF x, y
  <2> QED BY <1>1, <1>2, <2>3
<1>5. ~(j < i)
  <2> SUFFICES ASSUME j < i PROVE FALSE
    OBVIOUS
  <2>1. \A u \in s[j], v \in s[i] : u < v
    BY DEF Ordered
  <2>2. y < x
    BY <1>2, <1>3, <2>1
  <2> HIDE DEF x, y
  <2> QED BY <1>1, <1>2, <2>2
<1>6. ~(i + 1 < j)
  <2> SUFFICES ASSUME i + 1 < j PROVE FALSE
    OBVIOUS
  <2>1. i + 1 \in 1 .. Len(s)
    BY <1>1
  <2> DEFINE c == s[i + 1]
             z == Min(c)
  <2>2. c \in F
    BY <2>1 DEF Ordered
  <2>3. (\A u \in s[i], v \in c : u < v) /\ (\A u \in c, v \in s[j] : u < v)
    <3>1. i < i + 1
      BY <1>1
    <3> QED BY <2>1, <3>1 DEF Ordered
  <2>4. z \in c /\ z \in Nat
    <3> HIDE DEF c
    <3>1. z \in c /\ c \subseteq Nat
      BY <2>2, EndsOfSet
    <3> QED BY <3>1
  <2>5. x < z /\ z < y
    BY <1>2, <1>3, <2>3, <2>4
  <2> HIDE DEF x, y, z
  <2> QED BY <1>1, <1>2, <2>4, <2>5
<1>7. j = i + 1
  BY <1>1, <1>4, <1>5, <1>6
<1> QED BY <1>3, <1>7 DEF IsNext

\* s from the k-th on and t from the j-th on list the same sets, d beyond these.
Alike(s, t, k, j, d) ==
  k + d \in 1 .. Len(s) /\ j + d \in 1 .. Len(t) /\ \A i \in 0 .. d : s[k + i] = t[j + i]

\* A chain of s is a chain of t when t has its sets.
LEMMA ChainAlike ==
  ASSUME NEW n \in Nat, NEW S, S \subseteq 1 .. n, NEW E, SplitsWell(E, S),
         NEW s, Len(s) \in Nat, NEW t, Ordered(t, E), NEW k \in 1 .. Len(s), NEW j \in 1 .. Len(t), s[k] = t[j],
         NEW d \in Nat, k + d <= Len(s),
         \A i \in k .. k + d - 1 : Joins(s[i], s[i + 1]), \A i \in k .. k + d : s[i] \in E
  PROVE  Alike(s, t, k, j, d)
<1> DEFINE P(i) == i <= d => j + i \in 1 .. Len(t) /\ s[k + i] = t[j + i]
<1>1. P(0)
  OBVIOUS
<1>2. ASSUME NEW i \in Nat, P(i) PROVE P(i + 1)
  <2> SUFFICES ASSUME i + 1 <= d PROVE j + (i + 1) \in 1 .. Len(t) /\ s[k + (i + 1)] = t[j + (i + 1)]
    OBVIOUS
  <2>1. i <= d /\ k + i \in k .. k + d - 1 /\ k + (i + 1) \in k .. k + d
    OBVIOUS
  <2>2. k + (i + 1) = (k + i) + 1 /\ j + (i + 1) = (j + i) + 1
    OBVIOUS
  <2> DEFINE p == k + i
  <2>3. PICK q \in 1 .. Len(t) : q = j + i /\ s[p] = t[q]
    BY <1>2, <2>1
  <2>4. Joins(s[p], s[p + 1]) /\ s[p + 1] \in E
    BY <2>1, <2>2
  <2> DEFINE b == s[p + 1]
  <2>5. b \in E /\ Adjacent(t[q], b)
    BY <2>3, <2>4 DEF Joins
  <2> HIDE DEF P, p, b
  <2>6. IsNext(t, q, b)
    BY <2>5, NextInOrder
  <2> QED BY <2>2, <2>3, <2>6 DEF IsNext, p, b
<1> HIDE DEF P
<1>3. \A i \in Nat : P(i)
  <2> DEFINE K == {i \in Nat : P(i)}
  <2>1. 0 \in K /\ \A i \in Nat : i \in K => i + 1 \in K
    BY <1>1, <1>2
  <2> HIDE DEF K
  <2>2. Nat \subseteq K
    BY <2>1, NatInd
  <2> QED BY <2>2 DEF K
<1>4. ASSUME NEW i \in 0 .. d PROVE j + i \in 1 .. Len(t) /\ s[k + i] = t[j + i]
  BY <1>3 DEF P
<1>5. d \in 0 .. d /\ k + d \in 1 .. Len(s)
  OBVIOUS
<1> QED BY <1>4, <1>5 DEF Alike

\* What cancels the first in s does in t.
LEMMA PartnerAlike ==
  ASSUME NEW s, Len(s) \in Nat, NEW t, Len(t) \in Nat, NEW k \in 1 .. Len(s), NEW j \in 1 .. Len(t),
         NEW d \in Nat, Alike(s, t, k, j, d), k + d \in Partners(s, k)
  PROVE  j + d \in Partners(t, j)
<1>1. k + d \in k + 1 .. Len(s) /\ AfterOf(s[k + d]) = BeforeOf(s[k])
      /\ \A i \in k .. k + d - 1 : Joins(s[i], s[i + 1])
  BY DEF Partners
<1>2. s[k + d] = t[j + d] /\ s[k] = t[j]
  <2>1. d \in 0 .. d /\ 0 \in 0 .. d /\ k + 0 = k /\ j + 0 = j
    OBVIOUS
  <2>2. \A i \in 0 .. d : s[k + i] = t[j + i]
    BY DEF Alike
  <2> QED BY <2>1, <2>2
<1>3. j + d \in j + 1 .. Len(t)
  BY <1>1 DEF Alike
<1>4. ASSUME NEW i \in j .. j + d - 1 PROVE Joins(t[i], t[i + 1])
  <2> DEFINE p == i - j
             q == k + p
  <2>1. p \in 0 .. d /\ p + 1 \in 0 .. d /\ j + p = i /\ j + (p + 1) = i + 1 /\ k + (p + 1) = q + 1
    OBVIOUS
  <2>2. q \in k .. k + d - 1
    OBVIOUS
  <2>3. s[k + p] = t[j + p] /\ s[k + (p + 1)] = t[j + (p + 1)]
    <3> HIDE DEF p, q
    <3> QED BY <2>1 DEF Alike
  <2>4. s[q] = t[i] /\ s[q + 1] = t[i + 1]
    BY <2>1, <2>3
  <2> HIDE DEF q
  <2> QED BY <1>1, <2>2, <2>4
<1> QED BY <1>1, <1>2, <1>3, <1>4 DEF Partners

\* A unit ends with the first of the later spans that cancels its first.
LEMMA LastLeast ==
  ASSUME NEW s, Len(s) \in Nat, NEW k \in 1 .. Len(s), NEW j \in Partners(s, k)
  PROVE  k < LastOf(s, k) /\ LastOf(s, k) <= j
<1> DEFINE P == Partners(s, k)
<1>1. P \subseteq Nat /\ P # {}
  BY DEF Partners
<1>2. LastOf(s, k) = Min(P)
  BY <1>1 DEF LastOf
<1>3. j \in P
  OBVIOUS
<1> HIDE DEF P
<1>4. Min(P) <= j
  BY <1>1, <1>3, MinIs
<1> QED BY <1>1, <1>2, <1>4, LastOfIs DEF P

\* g is a unit of s, and all the spans of the unit that begins with the k-th are in E.
UnitOf(g, s) == \E j \in 1 .. Len(s) : g = UnitAt(s, j).ids
SpansIn(s, k, E) == \A i \in k .. LastOf(s, k) : s[i] \in E

\* A unit of s is a unit of t when t has its spans, and no others than s.
LEMMA UnitAlike ==
  ASSUME NEW n \in Nat, NEW S, S \subseteq 1 .. n, NEW F, SplitsWell(F, S), NEW s, Ordered(s, F),
         NEW Q, Q \subseteq 1 .. n, NEW E, SplitsWell(E, Q), E \subseteq F, NEW t, Ordered(t, E),
         NEW k \in 1 .. Len(s), SpansIn(s, k, E)
  PROVE  UnitOf(UnitAt(s, k).ids, t)
<1> DEFINE l == LastOf(s, k)
<1>1. Len(s) \in Nat /\ Len(t) \in Nat
  BY DEF Ordered
<1>2. l \in k .. Len(s) /\ (l > k => l \in Partners(s, k)) /\ (\A i \in k .. l - 1 : Joins(s[i], s[i + 1]))
      /\ UnitAt(s, k).ids = Spanned(s, k, l)
  BY <1>1, LastOfIs, UnitIs
<1>3. (\A i \in k .. l : s[i] \in E) /\ (\A p \in Partners(s, k) : k < l /\ l <= p)
  BY <1>1, LastLeast DEF SpansIn
<1> HIDE DEF l
<1>4. PICK j \in 1 .. Len(t) : t[j] = s[k]
  <2>1. s[k] \in E
    BY <1>1, <1>2, <1>3
  <2> QED BY <2>1 DEF Ordered
<1> DEFINE m == LastOf(t, j)
           d == l - k
           e == m - j
<1>5. m \in j .. Len(t) /\ (m > j => m \in Partners(t, j)) /\ (\A i \in j .. m - 1 : Joins(t[i], t[i + 1]))
      /\ UnitAt(t, j).ids = Spanned(t, j, m)
  BY <1>1, LastOfIs, UnitIs
<1>6. \A p \in Partners(t, j) : j < m /\ m <= p
  BY <1>1, LastLeast
<1> HIDE DEF m
<1>7. d \in Nat /\ k + d = l /\ e \in Nat /\ j + e = m
  BY <1>1, <1>2, <1>5
<1>8. \A i \in j .. m : t[i] \in F
  <2>1. j .. m \subseteq 1 .. Len(t)
    BY <1>1, <1>5
  <2> QED BY <2>1 DEF Ordered
<1> HIDE DEF d, e
<1>9. Alike(s, t, k, j, d)
  <2>1. k + d <= Len(s) /\ (\A i \in k .. k + d - 1 : Joins(s[i], s[i + 1])) /\ \A i \in k .. k + d : s[i] \in E
    BY <1>1, <1>2, <1>3, <1>7
  <2> QED BY <1>1, <1>4, <1>7, <2>1, ChainAlike
<1>10. Alike(t, s, j, k, e)
  <2>1. j + e <= Len(t) /\ (\A i \in j .. j + e - 1 : Joins(t[i], t[i + 1])) /\ \A i \in j .. j + e : t[i] \in F
    BY <1>1, <1>5, <1>7, <1>8
  <2> QED BY <1>1, <1>4, <1>7, <2>1, ChainAlike
<1>11. l > k => m > j /\ m <= j + d
  <2> SUFFICES ASSUME l > k PROVE m > j /\ m <= j + d
    OBVIOUS
  <2>1. k + d \in Partners(s, k)
    BY <1>2, <1>7
  <2>2. j + d \in Partners(t, j)
    BY <1>1, <1>7, <1>9, <2>1, PartnerAlike
  <2> QED BY <1>5, <1>6, <2>2
<1>12. m > j => l > k /\ l <= k + e
  <2> SUFFICES ASSUME m > j PROVE l > k /\ l <= k + e
    OBVIOUS
  <2>1. j + e \in Partners(t, j)
    BY <1>5, <1>7
  <2>2. k + e \in Partners(s, k)
    BY <1>1, <1>7, <1>10, <2>1, PartnerAlike
  <2> QED BY <1>2, <1>3, <2>2
<1>13. d = e
  BY <1>1, <1>2, <1>5, <1>7, <1>11, <1>12
<1>14. Spanned(s, k, l) = Spanned(t, j, m)
  <2>1. ASSUME NEW i \in k .. l PROVE i - k + j \in j .. m /\ t[i - k + j] = s[i]
    <3> DEFINE p == i - k
    <3>1. p \in 0 .. d /\ k + p = i /\ j + p = i - k + j /\ j + p \in j .. m
      BY <1>1, <1>2, <1>5, <1>7, <1>13
    <3> HIDE DEF p
    <3>2. s[k + p] = t[j + p]
      BY <1>9, <3>1 DEF Alike
    <3> QED BY <3>1, <3>2
  <2>2. ASSUME NEW i \in j .. m PROVE i - j + k \in k .. l /\ s[i - j + k] = t[i]
    <3> DEFINE p == i - j
    <3>1. p \in 0 .. e /\ j + p = i /\ k + p = i - j + k /\ k + p \in k .. l
      BY <1>1, <1>2, <1>5, <1>7, <1>13
    <3> HIDE DEF p
    <3>2. t[j + p] = s[k + p]
      BY <1>10, <3>1 DEF Alike
    <3> QED BY <3>1, <3>2
  <2>3. Spanned(s, k, l) \subseteq Spanned(t, j, m)
    BY <2>1 DEF Spanned
  <2>4. Spanned(t, j, m) \subseteq Spanned(s, k, l)
    BY <2>2 DEF Spanned
  <2> QED BY <2>3, <2>4
<1> QED BY <1>2, <1>5, <1>14 DEF UnitOf

-----------------------------------------------------------------------------
(* Decided units, and the others.                                          *)

\* A set of G that begins where one of H does is that one.
ByStart(G, H) == \A g \in G, h \in H : Min(g) = Min(h) => g = h

\* Of two splits of one set, the first is within the second when that is true of them.
LEMMA SameStarts ==
  ASSUME NEW n \in Nat, NEW S, S \subseteq 1 .. n, NEW G, SplitsWell(G, S), NEW H, SplitsWell(H, S), ByStart(G, H)
  PROVE  G \subseteq H
<1> DEFINE Bad == {Min(g) : g \in G \ H}
<1> SUFFICES ASSUME G \ H # {} PROVE FALSE
  OBVIOUS
<1>1. Bad \subseteq Nat
  <2>1. ASSUME NEW g \in G PROVE Min(g) \in Nat
    <3>1. Min(g) \in g /\ g \subseteq Nat
      BY EndsOfSet
    <3> QED BY <3>1
  <2> QED BY <2>1
<1>2. Bad # {}
  OBVIOUS
<1> HIDE DEF Bad
<1>3. Min(Bad) \in Bad /\ \A x \in Bad : Min(Bad) <= x
  BY <1>1, <1>2, MinIs
<1>4. PICK g \in G \ H : Min(g) = Min(Bad)
  BY <1>3 DEF Bad
<1>5. Min(g) \in g /\ Min(g) \in Nat /\ g \subseteq S
  <2>1. Min(g) \in g /\ g \subseteq Nat /\ g \subseteq S
    BY EndsOfSet
  <2> QED BY <2>1
<1>6. PICK h \in H : Min(g) \in h
  BY <1>5 DEF SplitsWell, Splits
<1>7. Min(h) < Min(g) /\ Min(h) \in h /\ Min(h) \in S
  <2>1. Min(h) \in h /\ h \subseteq S /\ h \subseteq Nat /\ Min(h) <= Min(g)
    BY <1>6, EndsOfSet
  <2>2. Min(g) # Min(h)
    BY <1>4, <1>6 DEF ByStart
  <2>3. Min(h) \in Nat
    BY <2>1
  <2> QED BY <1>5, <2>1, <2>2, <2>3
<1>8. PICK c \in G : Min(h) \in c
  BY <1>7 DEF SplitsWell, Splits
<1>9. Min(c) <= Min(h) /\ Min(c) \in Nat /\ Min(h) \in Nat
  <2>1. Min(c) <= Min(h) /\ Min(c) \in c /\ c \subseteq Nat
    BY <1>8, EndsOfSet
  <2> QED BY <1>8, <2>1
<1>10. c \in H
  <2> SUFFICES ASSUME c \notin H PROVE FALSE
    OBVIOUS
  <2>1. Min(c) \in Bad
    BY DEF Bad
  <2>2. Min(g) <= Min(c)
    BY <1>3, <1>4, <2>1
  <2> QED BY <1>5, <1>7, <1>9, <2>2
<1>11. c = h
  BY <1>7, <1>8, <1>10, SetsApart
<1>12. Min(g) \in c
  BY <1>6, <1>11
<1>13. c = g
  BY <1>5, <1>12, SetsApart
<1> QED BY <1>10, <1>13

\* Each set of G is a unit of t.
UnitsAll(G, t) == \A g \in G : UnitOf(g, t)

\* A set is split into units of t in one way only.
LEMMA SameUnits ==
  ASSUME NEW n \in Nat, NEW S, S \subseteq 1 .. n, NEW F, SplitsWell(F, S), NEW t, Ordered(t, F),
         NEW G, SplitsWell(G, S), UnitsAll(G, t), NEW H, SplitsWell(H, S), UnitsAll(H, t)
  PROVE  G = H
<1>1. ASSUME NEW g \in G, NEW h \in H, Min(g) = Min(h) PROVE g = h
  <2>1. PICK i \in 1 .. Len(t) : g = UnitAt(t, i).ids
    BY DEF UnitsAll, UnitOf
  <2>2. PICK j \in 1 .. Len(t) : h = UnitAt(t, j).ids
    BY DEF UnitsAll, UnitOf
  <2> DEFINE a == t[i]
             b == t[j]
  <2>3. a \in F /\ b \in F
    BY DEF Ordered
  <2>4. Min(a) = Min(b)
    <3>1. Min(UnitAt(t, i).ids) = Min(a)
      BY UnitEnds
    <3>2. Min(UnitAt(t, j).ids) = Min(b)
      BY UnitEnds
    <3> QED BY <1>1, <2>1, <2>2, <3>1, <3>2
  <2>5. ASSUME i < j \/ j < i PROVE FALSE
    <3>1. (\A u \in a, v \in b : u < v) \/ (\A u \in a, v \in b : v < u)
      BY <2>5 DEF Ordered
    <3> HIDE DEF a, b
    <3>2. Min(a) \in a /\ Min(b) \in b /\ a \subseteq Nat
      BY <2>3, EndsOfSet
    <3>3. Min(a) \in Nat
      BY <3>2
    <3> QED BY <2>4, <3>1, <3>2, <3>3
  <2>6. i = j
    <3>1. Len(t) \in Nat
      BY DEF Ordered
    <3> QED BY <2>5, <3>1
  <2> QED BY <2>1, <2>2, <2>6
<1>2. ByStart(G, H) /\ ByStart(H, G)
  <2>1. \A g \in G, h \in H : Min(g) = Min(h) => g = h
    BY <1>1
  <2> QED BY <2>1 DEF ByStart
<1>3. G \subseteq H /\ H \subseteq G
  BY <1>2, SameStarts
<1> QED BY <1>3

\* Each span is within a unit.
LEMMA UnitsFiner ==
  ASSUME NEW S, NEW F, SplitsWell(F, S), NEW s, Ordered(s, F), NEW G, SplitsWell(G, S), UnitsAll(G, s), NEW a \in F
  PROVE  \E g \in G : a \subseteq g
<1>1. a # {} /\ a \subseteq S
  BY DEF SplitsWell, Splits
<1>2. PICK x \in a : x \in S
  BY <1>1
<1>3. PICK g \in G : x \in g
  BY <1>2 DEF SplitsWell, Splits
<1>4. PICK k \in 1 .. Len(s) : g = UnitAt(s, k).ids
  BY DEF UnitsAll, UnitOf
<1>5. Len(s) \in Nat
  BY DEF Ordered
<1>6. g = Spanned(s, k, LastOf(s, k)) /\ LastOf(s, k) \in k .. Len(s)
  BY <1>4, <1>5, LastOfIs, UnitIs
<1>7. PICK i \in k .. LastOf(s, k) : x \in s[i]
  BY <1>3, <1>6 DEF Spanned
<1>8. i \in 1 .. Len(s)
  BY <1>5, <1>6
<1>9. s[i] = a
  <2> DEFINE b == s[i]
  <2>1. b \in F /\ x \in b
    BY <1>7, <1>8 DEF Ordered
  <2> HIDE DEF b
  <2>2. b = a
    BY <2>1, SetsApart
  <2> QED BY <2>2 DEF b
<1>10. a \subseteq g
  BY <1>6, <1>9 DEF Spanned
<1> QED BY <1>10

\* G splits S into units of the folds F, of which s is the list.
UnitsFrom(G, F, s, S) == SplitsWell(F, S) /\ Ordered(s, F) /\ SplitsWell(G, S) /\ UnitsAll(G, s)

\* A is B without R.
Without(A, B, R) == A = B \ R

\* Without whole units, what is left has the other units.
LEMMA ChainsLeft ==
  ASSUME NEW n \in Nat, NEW S, S \subseteq 1 .. n, NEW F, NEW s, NEW G, UnitsFrom(G, F, s, S),
         NEW R, R \subseteq G, NEW E, Without(E, F, PartsOf(F, R)), NEW left, Without(left, S, UNION R),
         NEW t, NEW H, UnitsFrom(H, E, t, left)
  PROVE  Without(H, G, R)
<1> DEFINE P == PartsOf(F, R)
           K == G \ R
<1>0. /\ SplitsWell(F, S) /\ Ordered(s, F) /\ SplitsWell(G, S) /\ UnitsAll(G, s)
      /\ SplitsWell(E, left) /\ Ordered(t, E) /\ SplitsWell(H, left) /\ UnitsAll(H, t)
  BY DEF UnitsFrom
<1>1. left = S \ UNION R /\ left \subseteq 1 .. n /\ E = F \ P /\ E \subseteq F
  BY DEF Without
<1>2. \A a \in F : \E g \in G : a \subseteq g
  BY <1>0, UnitsFiner
<1>3. Splits(F, S) /\ Splits(G, S)
  BY <1>0 DEF SplitsWell
<1>4. ASSUME NEW a \in F, NEW g \in G, a \subseteq g PROVE a \in P <=> g \in R
  BY <1>2, <1>3, <1>4, PartsHold
<1> HIDE DEF P
<1>5. SplitsWell(K, left)
  BY <1>0, <1>1, SplitLeft
<1>6. ASSUME NEW g \in K PROVE UnitOf(g, t)
  <2>1. PICK k \in 1 .. Len(s) : g = UnitAt(s, k).ids
    BY <1>0 DEF UnitsAll, UnitOf
  <2>2. Len(s) \in Nat
    BY <1>0 DEF Ordered
  <2>3. g = Spanned(s, k, LastOf(s, k)) /\ LastOf(s, k) \in k .. Len(s)
    BY <2>1, <2>2, LastOfIs, UnitIs
  <2>4. ASSUME NEW i \in k .. LastOf(s, k) PROVE s[i] \in E
    <3>1. i \in 1 .. Len(s)
      BY <2>2, <2>3
    <3>2. s[i] \in F
      BY <1>0, <3>1 DEF Ordered
    <3>3. s[i] \subseteq g
      BY <2>3 DEF Spanned
    <3> DEFINE b == s[i]
    <3>4. b \in F /\ b \subseteq g /\ g \in G /\ g \notin R
      BY <3>2, <3>3
    <3> HIDE DEF b
    <3>5. b \notin P
      BY <1>4, <3>4
    <3> QED BY <1>1, <3>4, <3>5 DEF b
  <2> HIDE DEF K
  <2>5. SplitsWell(F, S) /\ Ordered(s, F)
    BY <1>0
  <2>6. SplitsWell(E, left) /\ Ordered(t, E)
    BY <1>0
  <2>7. UnitOf(UnitAt(s, k).ids, t)
    <3>1. SpansIn(s, k, E)
      BY <2>4 DEF SpansIn
    <3> QED BY <1>1, <2>5, <2>6, <3>1, UnitAlike
  <2> QED BY <2>1, <2>7
<1>7. UnitsAll(K, t)
  BY <1>6 DEF UnitsAll, UnitOf
<1> HIDE DEF K
<1>8. H = K
  BY <1>0, <1>1, <1>5, <1>7, SameUnits
<1> QED BY <1>8 DEF K, Without

\* The folds of some records.
FoldsOf(mine) == AbsenceFolded(SpansOfAll(mine))

\* These folds are in order, and the units are made of them.
LEMMA GroupsMade ==
  ASSUME NEW n \in Nat, NEW mine, mine \subseteq 1 .. n
  PROVE  UnitsFrom(GroupsOf(mine), FoldsOf(mine), InOrder(FoldsOf(mine)), mine)
<1> DEFINE F == FoldsOf(mine)
           s == InOrder(F)
<1>1. SplitsWell(F, mine)
  BY SpansExact, FoldsExact DEF FoldsOf
<1>2. UnitsOf(mine) = FoldChains(F)
  BY DEF UnitsOf, SpansOfAll, FoldsOf
<1> HIDE DEF F
<1>3. Ordered(s, F)
  BY <1>1, InOrderIs
<1>4. PICK f : IsChain(f, s) /\ FoldChains(F) = f[1]
  BY <1>3, ChainsAre DEF Ordered
<1> HIDE DEF s
<1>5. SplitsWell(IdsOf(f[1]), mine) /\ MadeOf(f[1], s)
  BY <1>1, <1>3, <1>4, ChainSplits
<1>6. GroupsOf(mine) = IdsOf(f[1])
  BY <1>2, <1>4 DEF GroupsOf, IdsOf
<1>7. UnitsAll(GroupsOf(mine), s)
  BY <1>5, <1>6 DEF MadeOf, IdsOf, UnitsAll, UnitOf
<1>8. UnitsFrom(GroupsOf(mine), F, s, mine)
  BY <1>1, <1>3, <1>5, <1>6, <1>7 DEF UnitsFrom
<1> QED BY <1>8 DEF F, s

\* Without whole units, the records have the other units.
LEMMA GroupsLeft ==
  ASSUME NEW n \in Nat, NEW mine, mine \subseteq 1 .. n, NEW R, R \subseteq GroupsOf(mine)
  PROVE  GroupsOf(mine \ UNION R) = GroupsOf(mine) \ R
<1> DEFINE spans == SpansOfAll(mine)
           F == FoldsOf(mine)
           G == GroupsOf(mine)
           P == PartsOf(F, R)
           Q == PartsOf(spans, P)
           left == mine \ UNION R
           s == InOrder(F)
           t == InOrder(FoldsOf(left))
           H == GroupsOf(left)
<1>1. SplitsWell(spans, mine)
  BY SpansExact
<1>0. UnitsFrom(G, F, s, mine)
  BY GroupsMade
<1>2. SplitsWell(F, mine) /\ Ordered(s, F) /\ SplitsWell(G, mine) /\ UnitsAll(G, s)
  BY <1>0 DEF UnitsFrom
<1>3. left \subseteq 1 .. n
  OBVIOUS
<1>4. UnitsFrom(H, FoldsOf(left), t, left)
  <2> HIDE DEF left
  <2> QED BY <1>3, GroupsMade
<1>5. \A a \in spans : \E b \in F : a \subseteq b
  <2>1. ASSUME NEW a \in spans PROVE \E b \in AbsenceFolded(spans) : a \subseteq b
    <3> HIDE DEF spans
    <3> QED BY <1>1, FoldsFiner
  <2> QED BY <2>1 DEF FoldsOf
<1> HIDE DEF s, t, H
<1>6. \A a \in F : \E g \in G : a \subseteq g
  <2> HIDE DEF F, G
  <2> QED BY <1>2, UnitsFiner
<1>7. R \subseteq G
  OBVIOUS
<1>8. P \subseteq F /\ UNION P = UNION R
  <2>1. Splits(F, mine) /\ Splits(G, mine)
    BY <1>2 DEF SplitsWell
  <2> HIDE DEF F, G
  <2> QED BY <1>6, <1>7, <2>1, PartsHold
<1>9. Q \subseteq spans /\ UNION Q = UNION P
  <2>1. Splits(F, mine) /\ Splits(spans, mine)
    BY <1>1, <1>2 DEF SplitsWell
  <2> HIDE DEF F, spans, P
  <2> QED BY <1>5, <1>8, <2>1, PartsHold
<1>10. FoldsOf(left) = F \ P
  <2>1. SpansOfAll(left) = spans \ Q
    <3>1. left = mine \ UNION Q
      BY <1>8, <1>9
    <3> HIDE DEF left, Q
    <3> QED BY <1>9, <3>1, SpansLeft
  <2>2. AbsenceFolded(spans \ PartsOf(spans, P)) = AbsenceFolded(spans) \ P
    <3>1. P \subseteq AbsenceFolded(spans)
      BY <1>8 DEF FoldsOf
    <3> HIDE DEF spans, P
    <3> QED BY <1>1, <3>1, FoldsLeft
  <2> QED BY <2>1, <2>2 DEF FoldsOf
<1> HIDE DEF F, G
<1>11. H = G \ R
  <2> DEFINE E == F \ PartsOf(F, R)
  <2>1. UnitsFrom(H, E, t, left) /\ Without(left, mine, UNION R) /\ Without(E, F, PartsOf(F, R))
    BY <1>4, <1>10 DEF Without
  <2> HIDE DEF E, left, P, Q, spans
  <2>2. Without(H, G, R)
    BY <1>0, <1>7, <2>1, ChainsLeft
  <2> QED BY <2>2 DEF Without
<1> QED BY <1>11 DEF H, G

\* Whatever the records and their verdicts are, deciding some units leaves the others.
LEMMA LogInvOthers == LogInv => DecidingLeavesOthers
<1> SUFFICES ASSUME LogInv, NEW decided \in SUBSET Groups("pending")
             PROVE  GroupsOf(Ids("pending") \ UNION decided) = Groups("pending") \ decided
  BY DEF DecidingLeavesOthers
<1> DEFINE mine == Ids("pending")
           n == Len(log)
<1>1. n \in Nat /\ mine \subseteq 1 .. n
  BY DEF LogInv, Ids
<1>2. decided \subseteq GroupsOf(mine)
  BY DEF Groups
<1> HIDE DEF n, mine
<1>3. GroupsOf(mine \ UNION decided) = GroupsOf(mine) \ decided
  BY <1>1, <1>2, GroupsLeft
<1> QED BY <1>3 DEF Groups, mine

\* Deciding whole units, one or several, leaves the other pending ones as they are (computeUnits): nobody's
\* rows change under a decision about something else, for every number of records and of lines.
THEOREM DecisionsKeepOthers == UnitsSpec => []DecidingLeavesOthers
<1> QED BY LogInvInit, LogInvStep, LogInvOthers, PTL DEF UnitsSpec

-----------------------------------------------------------------------------
(* The lines that unitDeps carries through the file.                       *)

\* The lines of a that are left when b comes, whatever runs there are.
LeftOf(a, b) == Tracked(HopsOf(Nat), a, b)

\* How they are carried does not depend on how far.
LEMMA TrackedAgree ==
  ASSUME NEW a \in Nat, NEW b \in Nat, NEW c \in Nat, b <= c, NEW f, IsTracked(f, HopsOf(Nat), a, b),
         NEW g, IsTracked(g, HopsOf(Nat), a, c)
  PROVE  \A k \in a + 1 .. b : f[k] = g[k]
<1> DEFINE Body(h, k) == IF k = a + 1 THEN Hop(a).added ELSE Carried(Hop(k - 1), h[k - 1])
           K == {m \in Nat : a + 1 + m <= b => f[a + 1 + m] = g[a + 1 + m]}
<1>1. \A k \in a + 1 .. c : HopsOf(Nat)[a] = Hop(a) /\ HopsOf(Nat)[k - 1] = Hop(k - 1) /\ k - 1 \in DOMAIN HopsOf(Nat)
  BY DEF HopsOf
<1>2. \A k \in a + 1 .. b : f[k] = Body(f, k)
  BY <1>1 DEF IsTracked
<1>3. \A k \in a + 1 .. c : g[k] = Body(g, k)
  BY <1>1 DEF IsTracked
<1>4. 0 \in K
  <2> SUFFICES ASSUME a + 1 + 0 <= b PROVE f[a + 1 + 0] = g[a + 1 + 0]
    OBVIOUS
  <2>1. a + 1 \in a + 1 .. b /\ a + 1 \in a + 1 .. c /\ a + 1 + 0 = a + 1
    OBVIOUS
  <2> QED BY <1>2, <1>3, <2>1
<1>5. ASSUME NEW m \in Nat, m \in K PROVE m + 1 \in K
  <2> SUFFICES ASSUME a + 1 + (m + 1) <= b PROVE f[a + 1 + (m + 1)] = g[a + 1 + (m + 1)]
    OBVIOUS
  <2> DEFINE k == a + 1 + (m + 1)
             j == a + 1 + m
  <2>1. k \in a + 1 .. b /\ k \in a + 1 .. c /\ k # a + 1 /\ k - 1 = j /\ j <= b
    OBVIOUS
  <2>2. f[j] = g[j]
    BY <1>5, <2>1
  <2> HIDE DEF k, j
  <2>3. f[k] = Carried(Hop(j), f[j]) /\ g[k] = Carried(Hop(j), g[j])
    BY <1>2, <1>3, <2>1
  <2>4. f[k] = g[k]
    BY <2>2, <2>3
  <2> QED BY <2>4 DEF k
<1>6. Nat \subseteq K
  <2> HIDE DEF K
  <2> QED BY <1>4, <1>5, NatInd
<1>7. ASSUME NEW k \in a + 1 .. b PROVE f[k] = g[k]
  <2> DEFINE m == k - a - 1
  <2>1. m \in Nat /\ a + 1 + m = k /\ k <= b
    OBVIOUS
  <2> HIDE DEF m
  <2>2. m \in K
    BY <1>6, <2>1
  <2> QED BY <2>1, <2>2
<1> QED BY <1>7

\* At first all it produced, then what each hop leaves of them.
LEMMA LeftNext ==
  ASSUME NEW a \in Nat
  PROVE  LeftOf(a, a + 1) = Hop(a).added /\ \A b \in Nat : a < b => LeftOf(a, b + 1) = Carried(Hop(b), LeftOf(a, b))
<1>0. Nat \subseteq Nat
  OBVIOUS
<1>1. \A k \in Nat : HopsOf(Nat)[k] = Hop(k) /\ k \in DOMAIN HopsOf(Nat)
  BY DEF HopsOf
<1>2. LeftOf(a, a + 1) = Hop(a).added
  <2> DEFINE b == a + 1
  <2>1. b \in Nat /\ a < b /\ b \in a + 1 .. b
    OBVIOUS
  <2>2. b = a + 1
    OBVIOUS
  <2> HIDE DEF b
  <2>3. PICK f : IsTracked(f, HopsOf(Nat), a, b) /\ Tracked(HopsOf(Nat), a, b) = f[b]
    BY <1>0, <2>1, TrackedIs
  <2>4. f[b] = HopsOf(Nat)[a].added
    BY <2>1, <2>2, <2>3 DEF IsTracked
  <2> QED BY <1>1, <2>2, <2>3, <2>4 DEF LeftOf
<1>3. ASSUME NEW b \in Nat, a < b PROVE LeftOf(a, b + 1) = Carried(Hop(b), LeftOf(a, b))
  <2> DEFINE c == b + 1
  <2>1. c \in Nat /\ a < c /\ c \in a + 1 .. c /\ c # a + 1 /\ c - 1 = b /\ b <= c /\ b \in a + 1 .. b
    BY <1>3
  <2> HIDE DEF c
  <2>2. PICK f : IsTracked(f, HopsOf(Nat), a, b) /\ Tracked(HopsOf(Nat), a, b) = f[b]
    BY <1>0, <1>3, TrackedIs
  <2>3. PICK g : IsTracked(g, HopsOf(Nat), a, c) /\ Tracked(HopsOf(Nat), a, c) = g[c]
    BY <1>0, <2>1, TrackedIs
  <2>4. g[c] = Carried(HopsOf(Nat)[b], g[b])
    BY <1>1, <2>1, <2>3 DEF IsTracked
  <2>5. f[b] = g[b]
    BY <2>1, <2>2, <2>3, TrackedAgree
  <2>6. LeftOf(a, c) = Carried(Hop(b), LeftOf(a, b))
    BY <1>1, <2>2, <2>3, <2>4, <2>5 DEF LeftOf
  <2> QED BY <2>6 DEF c
<1> QED BY <1>2, <1>3

\* f is what unitDeps carries, each edit standing for itself.
Ones == [i \in DOMAIN log |-> i]
CarriedOn(i, carried) ==
  IF ~Chained(i - 1, i) THEN {}
  ELSE {<<Ones[i - 1], l>> : l \in Hop(i - 1).added}
       \cup UNION {{<<c[1], l>> : l \in Carried(Hop(i - 1), {c[2]})} : c \in carried}
IsOwners(f) == f = [i \in 1 .. Len(log) |-> IF i = 1 THEN {} ELSE CarriedOn(i, f[i - 1])]

\* Owners is such a function.
LEMMA OwnersAre == ASSUME LogInv PROVE IsOwners(Owners(Ones))
<1> DEFINE n == Len(log)
           V == SUBSET (Nat \X HopLines)
           oneStep == [p \in Nat \X V |-> IF p[1] \in 2 .. n THEN CarriedOn(p[1], p[2]) ELSE {}]
<1>1. n \in Nat /\ DOMAIN log = 1 .. n
  BY DEF LogInv
<1>2. {} \in V
  OBVIOUS
<1>3. ASSUME NEW i \in 2 .. n, NEW carried \in V PROVE CarriedOn(i, carried) \in V
  <2> DEFINE h == Hop(i - 1)
             fresh == {<<Ones[i - 1], l>> : l \in h.added}
             moved == UNION {{<<c[1], l>> : l \in Carried(h, {c[2]})} : c \in carried}
  <2>1. i - 1 \in Nat /\ Ones[i - 1] = i - 1
    BY <1>1 DEF Ones
  <2>2. h.added \subseteq HopLines /\ KeptLines(h) \subseteq HopLines
    BY <2>1 DEF HopLines
  <2>3. \A lines : Carried(h, lines) \subseteq KeptLines(h)
    BY DEF Carried, KeptLines
  <2>4. CarriedOn(i, carried) \subseteq fresh \cup moved
    BY DEF CarriedOn
  <2>5. \A c \in carried : c[1] \in Nat
    OBVIOUS
  <2> HIDE DEF h
  <2>6. fresh \subseteq Nat \X HopLines
    BY <2>1, <2>2
  <2>7. moved \subseteq Nat \X HopLines
    <3>1. ASSUME NEW c \in carried, NEW l \in Carried(h, {c[2]}) PROVE <<c[1], l>> \in Nat \X HopLines
      <4>1. l \in HopLines
        BY <2>2, <2>3
      <4> QED BY <2>5, <4>1
    <3>2. ASSUME NEW p \in moved PROVE p \in Nat \X HopLines
      <4>1. PICK c \in carried : p \in {<<c[1], l>> : l \in Carried(h, {c[2]})}
        OBVIOUS
      <4>2. PICK l \in Carried(h, {c[2]}) : p = <<c[1], l>>
        BY <4>1
      <4> QED BY <3>1, <4>2
    <3> HIDE DEF moved
    <3> QED BY <3>2
  <2> HIDE DEF fresh, moved
  <2> QED BY <2>4, <2>6, <2>7
<1> HIDE DEF V, n
<1>4. oneStep \in [Nat \X V -> V]
  BY <1>2, <1>3
<1>5. \A i \in Nat, x \in V : oneStep[<<i, x>>] = IF i \in 2 .. n THEN CarriedOn(i, x) ELSE {}
  OBVIOUS
<1> HIDE DEF oneStep
<1>6. PICK f : IsIterate(f, V, {}, oneStep, 1, n)
  <2>1. 1 \in Nat
    OBVIOUS
  <2> QED BY <1>1, <1>2, <1>4, <2>1, Iterates
<1>7. f \in [1 .. n -> V] /\ \A i \in 1 .. n : f[i] = IF i = 1 THEN {} ELSE oneStep[<<i, f[i - 1]>>]
  BY <1>6 DEF IsIterate
<1>8. ASSUME NEW i \in 1 .. n PROVE f[i] = IF i = 1 THEN {} ELSE CarriedOn(i, f[i - 1])
  <2> SUFFICES ASSUME i # 1 PROVE f[i] = CarriedOn(i, f[i - 1])
    BY <1>7
  <2>1. i \in 2 .. n /\ i - 1 \in 1 .. n /\ i \in Nat
    BY <1>1
  <2>2. f[i - 1] \in V
    BY <1>7, <2>1
  <2>3. oneStep[<<i, f[i - 1]>>] = CarriedOn(i, f[i - 1])
    BY <1>5, <2>1, <2>2
  <2> QED BY <1>7, <2>3
<1>9. IsOwners(f)
  BY <1>7, <1>8 DEF IsOwners, n
<1> DEFINE g == CHOOSE h : IsOwners(h)
<1>10. IsOwners(g)
  BY <1>9
<1>11. Owners(Ones) = g
  BY DEF Owners, IsOwners, CarriedOn
<1> QED BY <1>10, <1>11

\* What it finds of one edit in another is left of that one.
LEMMA OwnersLeft ==
  ASSUME LogInv, NEW i \in 1 .. Len(log), NEW o \in Owners(Ones)[i]
  PROVE  o[1] \in Nat /\ o[1] < i /\ o[2] \in LeftOf(o[1], i)
<1> DEFINE n == Len(log)
           f == Owners(Ones)
           Found(p, k) == p[1] \in Nat /\ p[1] < k /\ p[2] \in LeftOf(p[1], k)
           K == {m \in Nat : m + 1 <= n => \A p \in f[m + 1] : Found(p, m + 1)}
<1>1. n \in Nat /\ DOMAIN log = 1 .. n
  BY DEF LogInv
<1>2. IsOwners(f)
  BY OwnersAre
<1> HIDE DEF f
<1>3. \A k \in 1 .. n : f[k] = IF k = 1 THEN {} ELSE CarriedOn(k, f[k - 1])
  BY <1>2 DEF IsOwners
<1> HIDE DEF n
<1>4. 0 \in K
  <2>1. 1 <= n => f[1] = {}
    BY <1>1, <1>3
  <2> QED BY <2>1
<1>5. ASSUME NEW m \in Nat, m \in K PROVE m + 1 \in K
  <2> SUFFICES ASSUME m + 1 + 1 <= n, NEW p \in f[m + 1 + 1] PROVE Found(p, m + 1 + 1)
    OBVIOUS
  <2> DEFINE j == m + 1
             k == m + 1 + 1
  <2>1. j \in Nat /\ k = j + 1 /\ k - 1 = j /\ k # 1 /\ k \in 1 .. n /\ j \in DOMAIN log /\ j <= n
    BY <1>1
  <2>2. \A c \in f[j] : Found(c, j)
    BY <1>5, <2>1
  <2>3. p \in f[k]
    OBVIOUS
  <2> HIDE DEF j, k, Found
  <2>4. p \in CarriedOn(k, f[j])
    BY <1>3, <2>1, <2>3
  <2>5. \/ \E l \in Hop(j).added : p = <<Ones[j], l>>
        \/ \E c \in f[j] : \E l \in Carried(Hop(j), {c[2]}) : p = <<c[1], l>>
    BY <2>1, <2>4 DEF CarriedOn
  <2>6. ASSUME NEW l \in Hop(j).added, p = <<Ones[j], l>> PROVE Found(p, k)
    <3>1. Ones[j] = j
      BY <2>1 DEF Ones
    <3>2. l \in LeftOf(j, k)
      BY <2>1, LeftNext
    <3> QED BY <2>1, <2>6, <3>1, <3>2 DEF Found
  <2>7. ASSUME NEW c \in f[j], NEW l \in Carried(Hop(j), {c[2]}), p = <<c[1], l>> PROVE Found(p, k)
    <3> DEFINE a == c[1]
               x == c[2]
    <3>1. a \in Nat /\ a < j /\ x \in LeftOf(a, j)
      BY <2>2 DEF Found
    <3>2. l \in Carried(Hop(j), {x}) /\ p = <<a, l>>
      BY <2>7
    <3> HIDE DEF a, x
    <3>3. l \in Carried(Hop(j), LeftOf(a, j))
      BY <3>1, <3>2 DEF Carried
    <3>4. LeftOf(a, k) = Carried(Hop(j), LeftOf(a, j))
      BY <2>1, <3>1, LeftNext
    <3>5. a < k
      BY <2>1, <3>1
    <3> QED BY <3>1, <3>2, <3>3, <3>4, <3>5 DEF Found
  <2>8. Found(p, k)
    BY <2>5, <2>6, <2>7
  <2> QED BY <2>8 DEF k
<1>6. Nat \subseteq K
  <2> HIDE DEF K
  <2> QED BY <1>4, <1>5, NatInd
<1>7. i - 1 \in Nat /\ i - 1 + 1 = i /\ i <= n
  BY <1>1 DEF n
<1>8. \A p \in f[i] : Found(p, i)
  BY <1>6, <1>7
<1> QED BY <1>8 DEF f

\* Each span of the records is within a unit of them.
LEMMA SpanInUnit ==
  ASSUME NEW n \in Nat, NEW mine, mine \subseteq 1 .. n, NEW s \in SpansOfAll(mine)
  PROVE  \E g \in GroupsOf(mine) : s \subseteq g
<1> DEFINE spans == SpansOfAll(mine)
           F == FoldsOf(mine)
           G == GroupsOf(mine)
           t == InOrder(F)
<1>1. SplitsWell(spans, mine)
  BY SpansExact
<1>2. SplitsWell(F, mine) /\ Ordered(t, F) /\ SplitsWell(G, mine) /\ UnitsAll(G, t)
  BY GroupsMade DEF UnitsFrom
<1>3. PICK b \in AbsenceFolded(spans) : s \subseteq b
  <2>1. s \in spans
    OBVIOUS
  <2> HIDE DEF spans
  <2> QED BY <1>1, <2>1, FoldsFiner
<1>4. b \in F
  BY <1>3 DEF FoldsOf
<1> HIDE DEF F, G, t
<1>5. PICK g \in G : b \subseteq g
  BY <1>2, <1>4, UnitsFiner
<1> QED BY <1>3, <1>5 DEF G

\* Whatever the records and their verdicts are, edits of one run that share a line are in one unit.
LEMMA LogInvOneDecision == LogInv => OneCodeOneDecision
<1> SUFFICES ASSUME LogInv, NEW run \in RunsOf(Ids("pending")), NEW i \in run, NEW o \in Owners(Ones)[i],
                    o[1] \in run, o[2] \in Hop(i).changed
             PROVE  \E g \in Groups("pending") : {o[1], i} \subseteq g
  BY DEF OneCodeOneDecision, Ones
<1> DEFINE mine == Ids("pending")
           n == Len(log)
           a == o[1]
<1>1. n \in Nat /\ mine \subseteq 1 .. n
  BY DEF LogInv, Ids
<1>2. run \in RunsOf(mine)
  OBVIOUS
<1> HIDE DEF mine
<1>3. run \subseteq mine
  <2>1. SplitsWell(RunsOf(mine), mine)
    BY <1>1, RunsExact
  <2> QED BY <1>2, <2>1 DEF SplitsWell, Splits
<1>4. i \in 1 .. n /\ i \in Nat
  BY <1>1, <1>3
<1>5. a \in Nat /\ a < i /\ o[2] \in LeftOf(a, i)
  BY <1>4, OwnersLeft
<1>6. a \in run
  OBVIOUS
<1> HIDE DEF a, n
<1>7. a .. i \subseteq run /\ \A j \in a .. i - 1 : Follows(j, j + 1)
  BY <1>1, <1>2, <1>5, <1>6, RunEdge
<1>8. SameCode(HopsOf(Nat), a, i)
  <2>1. HopsOf(Nat)[i] = Hop(i)
    BY <1>4 DEF HopsOf
  <2>2. o[2] \in Tracked(HopsOf(Nat), a, i) \cap HopsOf(Nat)[i].changed
    BY <1>5, <2>1 DEF LeftOf
  <2> QED BY <2>2 DEF SameCode
<1>9. Edge(mine, a, i)
  BY <1>3, <1>4, <1>5, <1>7, <1>8 DEF Edge
<1>10. PICK s \in SpansOfAll(mine) : a \in s
  <2>1. Splits(SpansOfAll(mine), mine) /\ a \in mine
    BY <1>1, <1>3, <1>6, SpansExact DEF SplitsWell
  <2> QED BY <2>1 DEF Splits
<1>11. a \in a .. i /\ i \in a .. i
  BY <1>4, <1>5
<1>12. a .. i \subseteq s
  BY <1>1, <1>9, <1>10, <1>11, EdgeTogether
<1>13. PICK g \in GroupsOf(mine) : s \subseteq g
  BY <1>1, SpanInUnit
<1>14. {a, i} \subseteq g
  BY <1>11, <1>12, <1>13
<1> QED BY <1>13, <1>14 DEF Groups, mine, a

\* Two edits of one ask, with nothing between them but edits of it that are pending too, are one decision when
\* the later changed a line of the earlier (componentsOf, unitDeps): for every number of records and of lines.
THEOREM OneDecision == UnitsSpec => []OneCodeOneDecision
<1> QED BY LogInvInit, LogInvStep, LogInvOneDecision, PTL DEF UnitsSpec

=============================================================================
