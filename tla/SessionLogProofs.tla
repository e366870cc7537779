-------------------------- MODULE SessionLogProofs --------------------------
(***************************************************************************)
(* Machine-checked proofs about SessionLog, for logs of any length and any *)
(* number of front ends.  What a log is read as is computed line by line,  *)
(* so the lemmas about it go by induction over its lines; what is shown by *)
(* induction is a set of lengths or of logs.  KeptInv gives the types and  *)
(* that a log is read as captured edits, in order, each with an id of its  *)
(* own.  LogIInv adds that what a repair is about to drop are phantoms;    *)
(* the refinement of ReviewLedger needs it.  An append starts from the     *)
(* lines that end in a newline (Ended); what is read of them is part of    *)
(* what is read of the log (EndedReads).  The sessions are constants:      *)
(* StableIdsHold, AnswersItsIdHolds and RedoRemembersHolds are about those *)
(* whose ids increase where phantoms may be dropped (Whole), and           *)
(* LedgerIsKept about those that besides have one front end, no rule and   *)
(* no append cut short there (Tidy).  LogRekeyed.cfg, LogGlued.cfg and     *)
(* LogStale.cfg show what comes of others.                                 *)
(***************************************************************************)
EXTENDS SessionLog, TLAPS, SequenceTheorems, FiniteSetTheorems, WellFoundedInduction

-----------------------------------------------------------------------------
(* Induction, over numbers and over sequences: what is to be shown is that *)
(* a set holds them all.                                                   *)

\* A set of naturals has a least element.
LEMMA MinIsLeast ==
  ASSUME NEW S, S \subseteq Nat, S # {}
  PROVE  Min(S) \in S /\ \A y \in S : Min(S) <= y
<1> DEFINE Below == {1 .. k : k \in S}
           Sub == StrictSubsetOrdering(Nat)
<1>1. Below \subseteq FiniteSubsetsOf(Nat) /\ Below # {}
  <2>1. ASSUME NEW k \in S PROVE 1 .. k \in FiniteSubsetsOf(Nat)
    <3>1. k \in Int /\ 1 .. k \subseteq Nat
      OBVIOUS
    <3> QED BY <3>1, FS_Interval DEF FiniteSubsetsOf
  <2> QED BY <2>1
<1>2. PICK X \in Below : \A Y \in Below : <<Y, X>> \notin Sub
  <2> HIDE DEF Below, Sub
  <2> QED BY <1>1, WFMin, FS_StrictSubsetOrderingWellFounded DEF Sub
<1>3. PICK x \in S : X = 1 .. x
  OBVIOUS
<1>4. ASSUME NEW y \in S PROVE x <= y
  <2> SUFFICES ASSUME y < x PROVE FALSE
    BY <1>3
  <2>1. 1 .. y \subseteq 1 .. x /\ x \in 1 .. x /\ x \notin 1 .. y
    OBVIOUS
  <2>2. <<1 .. y, X>> \in Sub
    BY <2>1, <1>1, <1>3 DEF StrictSubsetOrdering
  <2> QED BY <2>2, <1>2
<1> QED BY <1>4 DEF Min

\* A set of ids up to a bound has a greatest element: the least of its bounds.
LEMMA MaxIsGreatest ==
  ASSUME NEW n \in Nat, NEW S, S \subseteq 0 .. n, S # {}
  PROVE  Max(S) \in S /\ \A y \in S : Max(S) >= y
<1> DEFINE Up == {k \in Nat : \A y \in S : k >= y}
<1>1. n \in Up
  OBVIOUS
<1>2. Up # {} /\ Up \subseteq Nat
  BY <1>1
<1>3. Min(Up) \in Up /\ \A k \in Up : Min(Up) <= k
  BY <1>2, MinIsLeast
<1>4. Min(Up) \in S
  <2> SUFFICES ASSUME Min(Up) \notin S PROVE FALSE
    OBVIOUS
  <2>1. \A y \in S : Min(Up) - 1 >= y /\ Min(Up) - 1 \in Nat
    BY <1>3
  <2>2. Min(Up) - 1 \in Up
    BY <2>1, <1>3
  <2> QED BY <2>2, <1>3
<1> QED BY <1>3, <1>4 DEF Max

\* A set that holds 0 and with a number the next holds every number.
LEMMA NatInd ==
  ASSUME NEW S, 0 \in S, \A n \in Nat : n \in S => n + 1 \in S
  PROVE  Nat \subseteq S
<1> DEFINE Out == Nat \ S
<1> SUFFICES ASSUME Out # {} PROVE FALSE
  OBVIOUS
<1>1. Out \subseteq Nat
  OBVIOUS
<1>2. Min(Out) \in Out /\ \A k \in Out : Min(Out) <= k
  <2> HIDE DEF Out
  <2> QED BY <1>1, MinIsLeast
<1>3. PICK m \in Out : \A k \in Out : m <= k
  <2> HIDE DEF Out
  <2> QED BY <1>2
<1>4. m - 1 \in Nat /\ m - 1 \notin Out
  BY <1>3
<1> QED BY <1>3, <1>4

\* A set that holds the empty sequence and with a sequence each of those one longer holds every sequence.
LEMMA SeqInd ==
  ASSUME NEW V, NEW S, <<>> \in S,
         \A s \in Seq(V), x \in V : s \in S => Append(s, x) \in S
  PROVE  Seq(V) \subseteq S
<1> DEFINE N == {n \in Nat : \A s \in Seq(V) : Len(s) = n => s \in S}
<1>1. 0 \in N
  BY LenProperties, EmptySeq
<1>2. ASSUME NEW n \in Nat, n \in N PROVE n + 1 \in N
  <2> SUFFICES ASSUME NEW s \in Seq(V), Len(s) = n + 1 PROVE s \in S
    OBVIOUS
  <2>1. PICK t \in Seq(V), x \in V : s = Append(t, x)
    BY SequenceEmptyOrAppend, EmptySeq
  <2>2. Len(t) = n
    BY <2>1, AppendProperties, LenProperties
  <2> QED BY <2>1, <2>2, <1>2
<1>3. Nat \subseteq N
  <2> HIDE DEF N
  <2> QED BY <1>1, <1>2, NatInd
<1> QED BY <1>3, LenProperties

-----------------------------------------------------------------------------
(* The elements of a sequence that are in a set.                           *)

\* What the recursion of Only says of the function it defines.
IsOnly(f, s, A) ==
  f = [n \in 0 .. Len(s) |->
         IF n = 0 THEN <<>> ELSE IF s[n] \in A THEN Append(f[n - 1], s[n]) ELSE f[n - 1]]

\* There is such a function.
LEMMA OnlyExists ==
  ASSUME NEW V, NEW A, NEW s \in Seq(V)
  PROVE  \E f : IsOnly(f, s, A)
<1> DEFINE S == {t \in Seq(V) : \E f : IsOnly(f, t, A)}
<1>1. <<>> \in S
  <2>1. IsOnly([n \in {0} |-> <<>>], <<>>, A)
    BY EmptySeq DEF IsOnly
  <2> QED BY <2>1, EmptySeq
<1>2. ASSUME NEW t \in Seq(V), NEW x \in V, t \in S PROVE Append(t, x) \in S
  <2>1. PICK f : IsOnly(f, t, A)
    BY <1>2
  <2> DEFINE k == Len(t)
             u == Append(t, x)
             last == IF x \in A THEN Append(f[k], x) ELSE f[k]
             g == [n \in 0 .. k + 1 |-> IF n = k + 1 THEN last ELSE f[n]]
  <2>2. k \in Nat /\ u \in Seq(V) /\ Len(u) = k + 1 /\ u[k + 1] = x /\ \A i \in 1 .. k : u[i] = t[i]
    BY AppendProperties, LenProperties
  <2>3. \A n \in 0 .. k :
          f[n] = IF n = 0 THEN <<>> ELSE IF t[n] \in A THEN Append(f[n - 1], t[n]) ELSE f[n - 1]
    BY <2>1 DEF IsOnly
  <2> HIDE DEF k, u
  <2>4. \A n \in 0 .. k + 1 :
          g[n] = IF n = 0 THEN <<>> ELSE IF u[n] \in A THEN Append(g[n - 1], u[n]) ELSE g[n - 1]
    <3> SUFFICES ASSUME NEW n \in 0 .. k + 1
                 PROVE  g[n] = IF n = 0 THEN <<>> ELSE IF u[n] \in A THEN Append(g[n - 1], u[n]) ELSE g[n - 1]
      OBVIOUS
    <3>1. CASE n = k + 1
      BY <3>1, <2>2
    <3>2. CASE n # k + 1
      <4>1. n \in 0 .. k /\ g[n] = f[n] /\ (n # 0 => g[n - 1] = f[n - 1] /\ u[n] = t[n])
        BY <3>2, <2>2
      <4> QED BY <4>1, <2>3
    <3> QED BY <3>1, <3>2
  <2>5. IsOnly(g, u, A)
    BY <2>2, <2>4 DEF IsOnly
  <2> QED BY <2>2, <2>5 DEF u
<1>3. Seq(V) \subseteq S
  <2> HIDE DEF S
  <2> QED BY <1>1, <1>2, SeqInd
<1> QED BY <1>3

\* The function that Only stands for.
LEMMA OnlyByFunction ==
  ASSUME NEW V, NEW A, NEW s \in Seq(V)
  PROVE  \E f : IsOnly(f, s, A) /\ Only(s, A) = f[Len(s)]
<1> DEFINE f == CHOOSE g : IsOnly(g, s, A)
<1>1. IsOnly(f, s, A)
  BY OnlyExists
<1>2. Only(s, A) = f[Len(s)]
  BY DEF Only, IsOnly
<1> QED BY <1>1, <1>2

\* Nothing is left of no elements.
LEMMA OnlyOfEmpty ==
  ASSUME NEW A
  PROVE  Only(<<>>, A) = <<>>
<1>1. <<>> \in Seq({}) /\ Len(<<>>) = 0
  BY EmptySeq
<1>2. PICK f : IsOnly(f, <<>>, A) /\ Only(<<>>, A) = f[0]
  BY <1>1, OnlyByFunction
<1> QED BY <1>2 DEF IsOnly

\* A further element is left, behind the others, when it is in the set.
LEMMA OnlyOfAppend ==
  ASSUME NEW V, NEW A, NEW s \in Seq(V), NEW x \in V
  PROVE  Only(Append(s, x), A) = IF x \in A THEN Append(Only(s, A), x) ELSE Only(s, A)
<1> DEFINE k == Len(s)
           u == Append(s, x)
<1>1. k \in Nat /\ u \in Seq(V) /\ Len(u) = k + 1 /\ u[k + 1] = x /\ \A i \in 1 .. k : u[i] = s[i]
  BY AppendProperties, LenProperties
<1>2. PICK f : IsOnly(f, s, A) /\ Only(s, A) = f[k]
  BY OnlyByFunction
<1>3. PICK g : IsOnly(g, u, A) /\ Only(u, A) = g[k + 1]
  <2> HIDE DEF u, k
  <2> QED BY <1>1, OnlyByFunction
<1> HIDE DEF k, u
<1>4. \A n \in 0 .. k :
        f[n] = IF n = 0 THEN <<>> ELSE IF s[n] \in A THEN Append(f[n - 1], s[n]) ELSE f[n - 1]
  BY <1>2 DEF IsOnly, k
<1>5. \A n \in 0 .. k + 1 :
        g[n] = IF n = 0 THEN <<>> ELSE IF u[n] \in A THEN Append(g[n - 1], u[n]) ELSE g[n - 1]
  BY <1>1, <1>3 DEF IsOnly
<1> DEFINE S == {n \in Nat : n <= k => f[n] = g[n]}
<1>6. 0 \in S
  BY <1>1, <1>4, <1>5
<1>7. ASSUME NEW n \in Nat, n \in S PROVE n + 1 \in S
  BY <1>1, <1>4, <1>5, <1>7
<1>8. Nat \subseteq S
  <2> HIDE DEF S
  <2> QED BY <1>6, <1>7, NatInd
<1>9. f[k] = g[k]
  BY <1>8, <1>1
<1> QED BY <1>1, <1>2, <1>3, <1>5, <1>9 DEF u

\* Taking elements out of a sequence leaves one of the same elements.
LEMMA OnlyType ==
  ASSUME NEW V, NEW A, NEW s \in Seq(V)
  PROVE  Only(s, A) \in Seq(V)
<1> DEFINE S == {t \in Seq(V) : Only(t, A) \in Seq(V)}
<1>1. <<>> \in S
  BY OnlyOfEmpty, EmptySeq
<1>2. ASSUME NEW t \in Seq(V), NEW x \in V, t \in S PROVE Append(t, x) \in S
  <2>1. Only(t, A) \in Seq(V)
    BY <1>2
  <2>2. Only(Append(t, x), A) = IF x \in A THEN Append(Only(t, A), x) ELSE Only(t, A)
    BY OnlyOfAppend
  <2>3. Only(Append(t, x), A) \in Seq(V)
    BY <2>1, <2>2, AppendProperties
  <2> QED BY <2>3, AppendProperties
<1>3. Seq(V) \subseteq S
  <2> HIDE DEF S
  <2> QED BY <1>1, <1>2, SeqInd
<1> QED BY <1>3

\* The elements of longer sequences.
LEMMA ElementsOfEmpty == ToSet(<<>>) = {}
BY EmptySeq DEF ToSet

\* An append adds its element.
LEMMA ElementsOfAppend ==
  ASSUME NEW V, NEW s \in Seq(V), NEW x \in V
  PROVE  ToSet(Append(s, x)) = ToSet(s) \cup {x}
<1> DEFINE k == Len(s)
           u == Append(s, x)
<1>1. k \in Nat /\ u \in Seq(V) /\ Len(u) = k + 1 /\ u[k + 1] = x /\ \A i \in 1 .. k : u[i] = s[i]
  BY AppendProperties, LenProperties
<1>2. DOMAIN s = 1 .. k /\ DOMAIN u = 1 .. k + 1
  BY <1>1, LenProperties
<1> HIDE DEF k, u
<1>3. ToSet(u) = {s[i] : i \in 1 .. k} \cup {x}
  <2>1. 1 .. k + 1 = (1 .. k) \cup {k + 1}
    BY <1>1
  <2> QED BY <1>1, <1>2, <2>1 DEF ToSet
<1> QED BY <1>2, <1>3 DEF ToSet, u

\* The elements of two sequences in a row are those of either.
LEMMA ElementsOfConcat ==
  ASSUME NEW V, NEW s \in Seq(V), NEW t \in Seq(V)
  PROVE  ToSet(s \o t) = ToSet(s) \cup ToSet(t)
<1> DEFINE S == {u \in Seq(V) : ToSet(s \o u) = ToSet(s) \cup ToSet(u)}
<1>1. <<>> \in S
  BY ElementsOfEmpty, EmptySeq, ConcatEmptySeq
<1>2. ASSUME NEW u \in Seq(V), NEW x \in V, u \in S PROVE Append(u, x) \in S
  <2>1. s \o Append(u, x) = Append(s \o u, x) /\ s \o u \in Seq(V)
    BY AppendIsConcat, ConcatAssociative, ConcatProperties, IsASeq
  <2>2. ToSet(Append(u, x)) = ToSet(u) \cup {x}
    BY ElementsOfAppend
  <2>3. ToSet(Append(s \o u, x)) = ToSet(s \o u) \cup {x}
    <3>1. PICK w \in Seq(V) : w = s \o u
      BY <2>1
    <3>2. ToSet(Append(w, x)) = ToSet(w) \cup {x}
      BY ElementsOfAppend
    <3> QED BY <3>1, <3>2, Zenon
  <2> QED BY <2>1, <2>2, <2>3, <1>2, AppendProperties
<1>3. Seq(V) \subseteq S
  <2> HIDE DEF S
  <2> QED BY <1>1, <1>2, SeqInd
<1> QED BY <1>3

\* A sequence is one of its own elements.
LEMMA ElementsType ==
  ASSUME NEW V, NEW s \in Seq(V)
  PROVE  ToSet(s) \subseteq V /\ s \in Seq(ToSet(s))
<1>1. \A i \in 1 .. Len(s) : s[i] \in V
  BY ElementOfSeq
<1>2. DOMAIN s = 1 .. Len(s) /\ s \in [1 .. Len(s) -> V] /\ Len(s) \in Nat
  BY LenProperties
<1>3. s \in [1 .. Len(s) -> ToSet(s)]
  BY <1>2 DEF ToSet
<1>4. s \in Seq(ToSet(s))
  BY <1>2, <1>3, SeqDef
<1> QED BY <1>1, <1>2, <1>4 DEF ToSet

\* A sequence of one element holds that one.
LEMMA OneElement ==
  ASSUME NEW V, NEW x \in V
  PROVE  <<x>> \in Seq(V) /\ ToSet(<<x>>) = {x} /\ Len(<<x>>) = 1
BY DEF ToSet

\* What Only leaves depends on the elements alone.
LEMMA OnlyAgrees ==
  ASSUME NEW V, NEW A, NEW B, NEW s \in Seq(V), \A x \in V : x \in A <=> x \in B
  PROVE  Only(s, A) = Only(s, B)
<1> DEFINE S == {t \in Seq(V) : Only(t, A) = Only(t, B)}
<1>1. <<>> \in S
  BY OnlyOfEmpty, EmptySeq
<1>2. ASSUME NEW t \in Seq(V), NEW x \in V, t \in S PROVE Append(t, x) \in S
  <2>1. Only(Append(t, x), A) = Only(Append(t, x), B)
    BY <1>2, OnlyOfAppend
  <2> QED BY <2>1, AppendProperties
<1>3. Seq(V) \subseteq S
  <2> HIDE DEF S
  <2> QED BY <1>1, <1>2, SeqInd
<1> QED BY <1>3

\* It is taken from each half of a sequence by itself.
LEMMA OnlyOfConcat ==
  ASSUME NEW V, NEW A, NEW s \in Seq(V), NEW t \in Seq(V)
  PROVE  Only(s \o t, A) = Only(s, A) \o Only(t, A)
<1> DEFINE S == {u \in Seq(V) : Only(s \o u, A) = Only(s, A) \o Only(u, A)}
<1>0. Only(s, A) \in Seq(V)
  BY OnlyType
<1>1. <<>> \in S
  BY <1>0, OnlyOfEmpty, EmptySeq, ConcatEmptySeq
<1>2. ASSUME NEW u \in Seq(V), NEW x \in V, u \in S PROVE Append(u, x) \in S
  <2>1. s \o Append(u, x) = Append(s \o u, x) /\ s \o u \in Seq(V)
    BY AppendIsConcat, ConcatAssociative, ConcatProperties, IsASeq
  <2>2. Only(u, A) \in Seq(V)
    BY OnlyType
  <2>3. Only(s, A) \o Append(Only(u, A), x) = Append(Only(s, A) \o Only(u, A), x)
    BY <1>0, <2>2, AppendIsConcat, ConcatAssociative, ConcatProperties, IsASeq
  <2>4. Only(Append(u, x), A) = IF x \in A THEN Append(Only(u, A), x) ELSE Only(u, A)
    BY OnlyOfAppend
  <2>5. Only(Append(s \o u, x), A) = IF x \in A THEN Append(Only(s \o u, A), x) ELSE Only(s \o u, A)
    <3>1. PICK w \in Seq(V) : w = s \o u
      BY <2>1
    <3>2. Only(Append(w, x), A) = IF x \in A THEN Append(Only(w, A), x) ELSE Only(w, A)
      BY OnlyOfAppend
    <3> QED BY <3>1, <3>2, Zenon
  <2>6. Only(s \o Append(u, x), A) = Only(s, A) \o Only(Append(u, x), A)
    BY <1>2, <2>1, <2>3, <2>4, <2>5
  <2> QED BY <2>6, AppendProperties
<1>3. Seq(V) \subseteq S
  <2> HIDE DEF S
  <2> QED BY <1>1, <1>2, SeqInd
<1> QED BY <1>3

\* Taking twice is taking once what is in both sets.
LEMMA OnlyOfOnly ==
  ASSUME NEW V, NEW A, NEW B, NEW s \in Seq(V)
  PROVE  Only(Only(s, A), B) = Only(s, A \cap B)
<1> DEFINE S == {t \in Seq(V) : Only(Only(t, A), B) = Only(t, A \cap B)}
<1>1. <<>> \in S
  BY OnlyOfEmpty, EmptySeq
<1>2. ASSUME NEW t \in Seq(V), NEW x \in V, t \in S PROVE Append(t, x) \in S
  <2>1. Only(t, A) \in Seq(V)
    BY OnlyType
  <2>2. Only(Append(Only(t, A), x), B) = IF x \in B THEN Append(Only(Only(t, A), B), x) ELSE Only(Only(t, A), B)
    BY <2>1, OnlyOfAppend
  <2>3. Only(Append(t, x), A) = IF x \in A THEN Append(Only(t, A), x) ELSE Only(t, A)
    BY OnlyOfAppend
  <2>4. Only(Append(t, x), A \cap B) = IF x \in A \cap B THEN Append(Only(t, A \cap B), x) ELSE Only(t, A \cap B)
    BY OnlyOfAppend
  <2>5. Only(Only(Append(t, x), A), B) = Only(Append(t, x), A \cap B)
    <3>1. CASE x \in A
      <4>1. Only(Append(t, x), A) = Append(Only(t, A), x) /\ (x \in A \cap B <=> x \in B)
        BY <2>3, <3>1
      <4>2. Only(Only(t, A), B) = Only(t, A \cap B)
        BY <1>2
      <4>3. CASE x \in B
        BY <2>2, <2>4, <4>1, <4>2, <4>3, Zenon
      <4>4. CASE x \notin B
        BY <2>2, <2>4, <4>1, <4>2, <4>4, Zenon
      <4> QED BY <4>3, <4>4
    <3>2. CASE x \notin A
      BY <1>2, <2>3, <2>4, <3>2, Zenon
    <3> QED BY <3>1, <3>2
  <2> QED BY <2>5, AppendProperties
<1>3. Seq(V) \subseteq S
  <2> HIDE DEF S
  <2> QED BY <1>1, <1>2, SeqInd
<1> QED BY <1>3

\* Its elements are those of the sequence that are in the set.
LEMMA OnlyElements ==
  ASSUME NEW V, NEW A, NEW s \in Seq(V)
  PROVE  ToSet(Only(s, A)) = ToSet(s) \cap A
<1> DEFINE S == {t \in Seq(V) : ToSet(Only(t, A)) = ToSet(t) \cap A}
<1>1. <<>> \in S
  BY OnlyOfEmpty, EmptySeq, ElementsOfEmpty
<1>2. ASSUME NEW t \in Seq(V), NEW x \in V, t \in S PROVE Append(t, x) \in S
  <2>1. Only(t, A) \in Seq(V)
    BY OnlyType
  <2>2. ToSet(Append(Only(t, A), x)) = ToSet(Only(t, A)) \cup {x} /\ ToSet(Append(t, x)) = ToSet(t) \cup {x}
    BY <2>1, ElementsOfAppend
  <2>3. Only(Append(t, x), A) = IF x \in A THEN Append(Only(t, A), x) ELSE Only(t, A)
    BY OnlyOfAppend
  <2>4. ToSet(Only(Append(t, x), A)) = ToSet(Append(t, x)) \cap A
    BY <1>2, <2>2, <2>3
  <2> QED BY <2>4, AppendProperties
<1>3. Seq(V) \subseteq S
  <2> HIDE DEF S
  <2> QED BY <1>1, <1>2, SeqInd
<1> QED BY <1>3

\* Nothing is left where no element is in the set, and everything where each is.
LEMMA OnlyNone ==
  ASSUME NEW V, NEW A, NEW s \in Seq(V), V \cap A = {}
  PROVE  Only(s, A) = <<>>
<1> DEFINE S == {t \in Seq(V) : Only(t, A) = <<>>}
<1>1. <<>> \in S
  BY OnlyOfEmpty, EmptySeq
<1>2. ASSUME NEW t \in Seq(V), NEW x \in V, t \in S PROVE Append(t, x) \in S
  <2>1. Only(Append(t, x), A) = <<>>
    BY <1>2, OnlyOfAppend
  <2> QED BY <2>1, AppendProperties
<1>3. Seq(V) \subseteq S
  <2> HIDE DEF S
  <2> QED BY <1>1, <1>2, SeqInd
<1> QED BY <1>3

\* Nothing is taken out of a sequence whose elements are all in the set.
LEMMA OnlyAll ==
  ASSUME NEW V, NEW A, NEW s \in Seq(V), V \subseteq A
  PROVE  Only(s, A) = s
<1> DEFINE S == {t \in Seq(V) : Only(t, A) = t}
<1>1. <<>> \in S
  BY OnlyOfEmpty, EmptySeq
<1>2. ASSUME NEW t \in Seq(V), NEW x \in V, t \in S PROVE Append(t, x) \in S
  <2>1. Only(Append(t, x), A) = Append(t, x)
    BY <1>2, OnlyOfAppend
  <2> QED BY <2>1, AppendProperties
<1>3. Seq(V) \subseteq S
  <2> HIDE DEF S
  <2> QED BY <1>1, <1>2, SeqInd
<1> QED BY <1>3

\* Every element of a sequence is related to every later one.
Pairwise(s, R) == \A i, j \in DOMAIN s : i < j => <<s[i], s[j]>> \in R

\* A further element has to be related to each of those before it.
LEMMA PairwiseOfAppend ==
  ASSUME NEW V, NEW R, NEW s \in Seq(V), NEW x \in V
  PROVE  Pairwise(Append(s, x), R) <=> Pairwise(s, R) /\ \A y \in ToSet(s) : <<y, x>> \in R
<1> DEFINE k == Len(s)
           u == Append(s, x)
<1>1. k \in Nat /\ DOMAIN u = 1 .. k + 1 /\ u[k + 1] = x /\ DOMAIN s = 1 .. k /\ \A i \in 1 .. k : u[i] = s[i]
  BY AppendProperties, LenProperties
<1> HIDE DEF k, u
<1>2. ASSUME Pairwise(u, R) PROVE Pairwise(s, R) /\ \A y \in ToSet(s) : <<y, x>> \in R
  <2>1. \A i, j \in 1 .. k + 1 : i < j => <<u[i], u[j]>> \in R
    BY <1>1, <1>2 DEF Pairwise
  <2>2. \A i, j \in 1 .. k : i < j => <<s[i], s[j]>> \in R
    BY <1>1, <2>1
  <2>3. \A i \in 1 .. k : <<s[i], x>> \in R
    BY <1>1, <2>1
  <2> QED BY <1>1, <2>2, <2>3 DEF Pairwise, ToSet
<1>3. ASSUME Pairwise(s, R), \A y \in ToSet(s) : <<y, x>> \in R PROVE Pairwise(u, R)
  <2>1. \A i, j \in 1 .. k : i < j => <<s[i], s[j]>> \in R
    BY <1>1, <1>3 DEF Pairwise
  <2>2. \A i \in 1 .. k : <<s[i], x>> \in R
    BY <1>1, <1>3 DEF ToSet
  <2>3. \A i, j \in 1 .. k + 1 : i < j => <<u[i], u[j]>> \in R
    BY <1>1, <2>1, <2>2
  <2> QED BY <1>1, <2>3 DEF Pairwise
<1> QED BY <1>2, <1>3 DEF u

\* And so it stays when elements are taken out.
LEMMA OnlyPairwise ==
  ASSUME NEW V, NEW A, NEW R, NEW s \in Seq(V), Pairwise(s, R)
  PROVE  Pairwise(Only(s, A), R)
<1> DEFINE S == {t \in Seq(V) : Pairwise(t, R) => Pairwise(Only(t, A), R)}
<1>1. <<>> \in S
  BY OnlyOfEmpty, EmptySeq
<1>2. ASSUME NEW t \in Seq(V), NEW x \in V, t \in S PROVE Append(t, x) \in S
  <2>1. Append(t, x) \in Seq(V) /\ Only(t, A) \in Seq(V)
    BY AppendProperties, OnlyType
  <2> SUFFICES ASSUME Pairwise(Append(t, x), R) PROVE Pairwise(Only(Append(t, x), A), R)
    BY <2>1
  <2>2. Pairwise(t, R) /\ \A y \in ToSet(t) : <<y, x>> \in R
    BY PairwiseOfAppend
  <2>3. Pairwise(Only(t, A), R) /\ ToSet(Only(t, A)) \subseteq ToSet(t)
    BY <1>2, <2>2, OnlyElements
  <2>4. Pairwise(Append(Only(t, A), x), R)
    BY <2>1, <2>2, <2>3, PairwiseOfAppend
  <2>5. Only(Append(t, x), A) = Append(Only(t, A), x) \/ Only(Append(t, x), A) = Only(t, A)
    BY OnlyOfAppend
  <2> QED BY <2>3, <2>4, <2>5
<1>3. Seq(V) \subseteq S
  <2> HIDE DEF S
  <2> QED BY <1>1, <1>2, SeqInd
<1> QED BY <1>3

-----------------------------------------------------------------------------
(* Lines, and what reading them makes of the edits.                        *)

Rec == [id : Nat, uid : Nat, status : Status]

EditLine == [t : {"edit"}, id : Nat, uid : Nat, status : Status]
StatusLine == [t : {"status"}, id : Nat, status : Status]
BatchLine == [t : {"batch"}, kind : {"keep", "undo", "redo"}, prev : UNION {[S -> Status] : S \in SUBSET Nat},
              of : SUBSET Nat]
ScopeLine == [t : {"scope"}, ids : SUBSET Nat]
SkipLine == [t : {"skip"}, n : Nat]
SweptLine == [t : {"swept"}, n : Nat]
Line == EditLine \cup StatusLine \cup BatchLine \cup ScopeLine \cup SkipLine \cup SweptLine

\* A line is of the kind it says.
LEMMA LineKinds ==
  ASSUME NEW l \in Line
  PROVE  /\ l.t = "edit" => l \in EditLine
         /\ l.t = "status" => l \in StatusLine
         /\ l.t = "batch" => l \in BatchLine
         /\ l.t = "scope" => l \in ScopeLine
         /\ l.t = "skip" => l \in SkipLine
         /\ l.t = "swept" => l \in SweptLine
         /\ l.t \in {"edit", "status", "batch", "scope", "skip", "swept"}
<1>1. l \in EditLine => l.t = "edit"
  BY DEF EditLine
<1>2. l \in StatusLine => l.t = "status"
  BY DEF StatusLine
<1>3. l \in BatchLine => l.t = "batch"
  BY DEF BatchLine
<1>4. l \in ScopeLine => l.t = "scope"
  BY DEF ScopeLine
<1>5. l \in SkipLine => l.t = "skip"
  BY DEF SkipLine
<1>6. l \in SweptLine => l.t = "swept"
  BY DEF SweptLine
<1> QED BY <1>1, <1>2, <1>3, <1>4, <1>5, <1>6 DEF Line

IdsOf(recs) == {recs[i].id : i \in DOMAIN recs}

\* The id an edit line is read with.
FreshId(recs, id) == IF id \in IdsOf(recs) THEN Max(IdsOf(recs)) + 1 ELSE id

\* Ids, however many, are bounded.
LEMMA IdsAreBounded ==
  ASSUME NEW recs \in Records
  PROVE  \E n \in Nat : IdsOf(recs) \subseteq 0 .. n
<1> DEFINE S == {r \in Records : \E n \in Nat : IdsOf(r) \subseteq 0 .. n}
<1>1. <<>> \in S
  BY EmptySeq DEF IdsOf, Records
<1>2. ASSUME NEW r \in Seq(Rec), NEW x \in Rec, r \in S PROVE Append(r, x) \in S
  <2>1. PICK n \in Nat : IdsOf(r) \subseteq 0 .. n
    BY <1>2
  <2> DEFINE k == Len(r)
             u == Append(r, x)
  <2>2. k \in Nat /\ u \in Seq(Rec) /\ DOMAIN u = 1 .. k + 1 /\ u[k + 1] = x /\ \A i \in 1 .. k : u[i] = r[i]
    BY AppendProperties, LenProperties
  <2>3. DOMAIN r = 1 .. k
    BY LenProperties
  <2> HIDE DEF k, u
  <2>4. x.id \in Nat
    BY DEF Rec
  <2>5. PICK m \in Nat : n <= m /\ x.id <= m
    BY <2>1, <2>4
  <2>6. ASSUME NEW i \in 1 .. k + 1 PROVE u[i].id \in 0 .. m
    <3>1. CASE i = k + 1
      BY <3>1, <2>2, <2>4, <2>5
    <3>2. CASE i # k + 1
      <4>1. i \in 1 .. k
        BY <3>2, <2>2
      <4>2. r[i].id \in 0 .. n
        BY <4>1, <2>1, <2>3 DEF IdsOf
      <4> QED BY <4>1, <4>2, <2>2, <2>1, <2>5
    <3> QED BY <3>1, <3>2
  <2>7. IdsOf(u) \subseteq 0 .. m
    BY <2>2, <2>6 DEF IdsOf
  <2> QED BY <2>2, <2>5, <2>7 DEF Records, Rec, u
<1>3. Seq(Rec) \subseteq S
  <2> HIDE DEF S
  <2> QED BY <1>1, <1>2, SeqInd
<1> QED BY <1>3 DEF Records, Rec

\* The id is one no edit has, and the one written where that is.
LEMMA FreshIdIsFree ==
  ASSUME NEW recs \in Records, NEW id \in Nat
  PROVE  /\ FreshId(recs, id) \in Nat \ IdsOf(recs)
         /\ id \notin IdsOf(recs) => FreshId(recs, id) = id
<1>1. CASE id \notin IdsOf(recs)
  BY <1>1 DEF FreshId
<1>2. CASE id \in IdsOf(recs)
  <2>1. PICK n \in Nat : IdsOf(recs) \subseteq 0 .. n
    BY IdsAreBounded
  <2>2. Max(IdsOf(recs)) \in IdsOf(recs) /\ \A y \in IdsOf(recs) : Max(IdsOf(recs)) >= y
    BY <1>2, <2>1, MaxIsGreatest
  <2>3. PICK m \in IdsOf(recs) : m = Max(IdsOf(recs)) /\ \A y \in IdsOf(recs) : m >= y
    BY <2>2
  <2>4. m \in Nat /\ m + 1 \notin IdsOf(recs)
    BY <2>1, <2>3
  <2> QED BY <1>2, <2>3, <2>4 DEF FreshId
<1> QED BY <1>1, <1>2

\* An edit line adds an edit.
LEMMA ParseOfEdit ==
  ASSUME NEW recs \in Records, NEW l \in EditLine
  PROVE  /\ Parse(recs, l) = Append(recs, [id |-> FreshId(recs, l.id), uid |-> l.uid, status |-> l.status])
         /\ [id |-> FreshId(recs, l.id), uid |-> l.uid, status |-> l.status] \in Rec
         /\ Parse(recs, l) \in Records
<1>1. l.t = "edit" /\ l.id \in Nat /\ l.uid \in Nat /\ l.status \in Status
  BY DEF EditLine
<1> DEFINE x == [id |-> FreshId(recs, l.id), uid |-> l.uid, status |-> l.status]
<1>2. Parse(recs, l) = Append(recs, x)
  BY <1>1 DEF Parse, FreshId, IdsOf
<1>3. x \in Rec
  BY <1>1, FreshIdIsFree DEF Rec
<1>4. Append(recs, x) \in Records
  <2> HIDE DEF x
  <2> QED BY <1>3, AppendProperties DEF Records, Rec
<1> QED BY <1>2, <1>3, <1>4

\* A status line changes the status of the edit that holds its id.
LEMMA ParseOfStatus ==
  ASSUME NEW recs \in Records, NEW l \in StatusLine
  PROVE  /\ Parse(recs, l) \in Records
         /\ Len(Parse(recs, l)) = Len(recs)
         /\ \A i \in 1 .. Len(recs) :
              /\ Parse(recs, l)[i] \in Rec
              /\ Parse(recs, l)[i].id = recs[i].id
              /\ Parse(recs, l)[i].uid = recs[i].uid
              /\ Parse(recs, l)[i].status = IF recs[i].id = l.id THEN l.status ELSE recs[i].status
<1> DEFINE n == Len(recs)
           p == Parse(recs, l)
<1>1. l.t = "status" /\ l.id \in Nat /\ l.status \in Status
  BY DEF StatusLine
<1>2. n \in Nat /\ DOMAIN recs = 1 .. n /\ \A i \in 1 .. n : recs[i] \in Rec
  BY LenProperties, ElementOfSeq DEF Records, Rec
<1>3. p = [i \in 1 .. n |-> IF recs[i].id = l.id THEN [recs[i] EXCEPT !.status = l.status] ELSE recs[i]]
  BY <1>1, <1>2 DEF Parse
<1> HIDE DEF n, p
<1>4. ASSUME NEW i \in 1 .. n
      PROVE  /\ p[i] \in Rec
             /\ p[i].id = recs[i].id /\ p[i].uid = recs[i].uid
             /\ p[i].status = IF recs[i].id = l.id THEN l.status ELSE recs[i].status
  <2>1. recs[i] \in Rec /\ p[i] = IF recs[i].id = l.id THEN [recs[i] EXCEPT !.status = l.status] ELSE recs[i]
    BY <1>2, <1>3
  <2>2. CASE recs[i].id = l.id
    BY <1>1, <2>1, <2>2 DEF Rec
  <2>3. CASE recs[i].id # l.id
    BY <2>1, <2>3
  <2> QED BY <2>2, <2>3
<1>5. p \in [1 .. n -> Rec]
  BY <1>3, <1>4
<1>6. p \in Seq(Rec) /\ Len(p) = n
  BY <1>2, <1>5, IsASeq, SeqDef, LenProperties
<1> QED BY <1>4, <1>6 DEF n, p, Records, Rec

\* Any other line changes nothing.
LEMMA ParseOfOther ==
  ASSUME NEW recs, NEW l \in Line, l.t \notin {"edit", "status"}
  PROVE  Parse(recs, l) = recs
BY DEF Parse

\* A line that is read leaves records of edits.
LEMMA ParseType ==
  ASSUME NEW recs \in Records, NEW l \in Line
  PROVE  Parse(recs, l) \in Records
<1>1. CASE l.t = "edit"
  BY <1>1, LineKinds, ParseOfEdit
<1>2. CASE l.t = "status"
  BY <1>2, LineKinds, ParseOfStatus
<1>3. CASE l.t \notin {"edit", "status"}
  BY <1>3, ParseOfOther
<1> QED BY <1>1, <1>2, <1>3

\* What the recursion of ReadLog says of the function it defines.
IsParsed(f, lines) ==
  f = [n \in 0 .. Len(lines) |->
         LET extended[recs \in Records] == Parse(recs, lines[n])
         IN  IF n = 0 THEN <<>> ELSE extended[f[n - 1]]]

\* The same, where the values are of their type.
Parses(f, lines) ==
  /\ f \in [0 .. Len(lines) -> Records]
  /\ f[0] = <<>>
  /\ \A n \in 1 .. Len(lines) : f[n] = Parse(f[n - 1], lines[n])

\* The module's way of reading, line by line, is the one reasoned about here.
LEMMA ParsedIsParses ==
  ASSUME NEW lines \in Seq(Line), NEW f
  PROVE  IsParsed(f, lines) <=> Parses(f, lines)
<1> DEFINE k == Len(lines)
<1>0. k \in Nat /\ \A n \in 1 .. k : lines[n] \in Line
  BY LenProperties, ElementOfSeq
<1>e. <<>> \in Records
  BY EmptySeq DEF Records
<1>1. ASSUME IsParsed(f, lines) PROVE Parses(f, lines)
  <2> DEFINE X(n) == [recs \in Records |-> Parse(recs, lines[n])]
  <2>1. f = [n \in 0 .. k |-> IF n = 0 THEN <<>> ELSE X(n)[f[n - 1]]]
    BY <1>1 DEF IsParsed
  <2> HIDE DEF k
  <2> DEFINE S == {n \in Nat : n <= k => f[n] \in Records /\ (n # 0 => f[n] = Parse(f[n - 1], lines[n]))}
  <2>2. 0 \in S /\ f[0] = <<>>
    BY <2>1, <1>0, <1>e
  <2>3. ASSUME NEW n \in Nat, n \in S PROVE n + 1 \in S
    <3> SUFFICES ASSUME n + 1 <= k
                 PROVE  f[n + 1] \in Records /\ f[n + 1] = Parse(f[n], lines[n + 1])
      OBVIOUS
    <3>1. f[n] \in Records /\ n + 1 \in 0 .. k /\ n + 1 # 0 /\ (n + 1) - 1 = n /\ lines[n + 1] \in Line
      BY <2>3, <1>0
    <3>2. f[n + 1] = X(n + 1)[f[n]]
      <4> HIDE DEF X
      <4> QED BY <2>1, <3>1
    <3>3. f[n + 1] = Parse(f[n], lines[n + 1])
      BY <3>1, <3>2
    <3> QED BY <3>1, <3>3, ParseType
  <2>4. Nat \subseteq S
    <3> HIDE DEF S
    <3> QED BY <2>2, <2>3, NatInd
  <2>5. \A n \in 0 .. k : n \in S /\ n <= k
    BY <2>4, <1>0
  <2>6. \A n \in 1 .. k : n \in S /\ n <= k /\ n # 0
    BY <2>4, <1>0
  <2> QED BY <2>1, <2>2, <2>5, <2>6 DEF Parses, k
<1>2. ASSUME Parses(f, lines) PROVE IsParsed(f, lines)
  <2> DEFINE X(n) == [recs \in Records |-> Parse(recs, lines[n])]
  <2>1. f = [n \in 0 .. k |-> f[n]]
    BY <1>2 DEF Parses
  <2>2. ASSUME NEW n \in 0 .. k PROVE f[n] = IF n = 0 THEN <<>> ELSE X(n)[f[n - 1]]
    <3>1. CASE n = 0
      BY <3>1, <1>2 DEF Parses
    <3>2. CASE n # 0
      <4>1. n \in 1 .. k /\ n - 1 \in 0 .. k
        BY <3>2, <1>0
      <4>2. f[n - 1] \in Records /\ f[n] = Parse(f[n - 1], lines[n])
        BY <4>1, <1>2 DEF Parses
      <4> QED BY <3>2, <4>2
    <3> QED BY <3>1, <3>2
  <2>3. f = [n \in 0 .. k |-> IF n = 0 THEN <<>> ELSE X(n)[f[n - 1]]]
    <3> HIDE DEF X, k
    <3> QED BY <2>1, <2>2
  <2> QED BY <2>3 DEF IsParsed
<1> QED BY <1>1, <1>2

\* Every log can be read.
LEMMA ParsesExists ==
  ASSUME NEW lines \in Seq(Line)
  PROVE  \E f : Parses(f, lines)
<1> DEFINE S == {t \in Seq(Line) : \E f : Parses(f, t)}
<1>e. <<>> \in Records
  BY EmptySeq DEF Records
<1>1. <<>> \in S
  <2>1. Parses([n \in {0} |-> <<>>], <<>>)
    BY <1>e, EmptySeq DEF Parses
  <2> QED BY <2>1, EmptySeq
<1>2. ASSUME NEW t \in Seq(Line), NEW x \in Line, t \in S PROVE Append(t, x) \in S
  <2>1. PICK f : Parses(f, t)
    BY <1>2
  <2> DEFINE k == Len(t)
             u == Append(t, x)
             g == [n \in 0 .. k + 1 |-> IF n = k + 1 THEN Parse(f[k], x) ELSE f[n]]
  <2>2. k \in Nat /\ u \in Seq(Line) /\ Len(u) = k + 1 /\ u[k + 1] = x /\ \A i \in 1 .. k : u[i] = t[i]
    BY AppendProperties, LenProperties
  <2>3. (\A n \in 0 .. k : f[n] \in Records) /\ f[0] = <<>> /\ \A n \in 1 .. k : f[n] = Parse(f[n - 1], t[n])
    BY <2>1 DEF Parses
  <2> HIDE DEF k, u
  <2>4. g \in [0 .. k + 1 -> Records] /\ g[0] = <<>>
    <3>1. ASSUME NEW n \in 0 .. k + 1 PROVE g[n] \in Records
      <4>1. CASE n = k + 1
        <5>1. f[k] \in Records
          BY <2>2, <2>3
        <5>2. Parse(f[k], x) \in Records
          BY <5>1, ParseType
        <5> QED BY <4>1, <5>2
      <4>2. CASE n # k + 1
        <5>1. n \in 0 .. k
          BY <2>2, <4>2
        <5> QED BY <2>3, <4>2, <5>1
      <4> QED BY <4>1, <4>2
    <3>2. 0 \in 0 .. k + 1 /\ 0 # k + 1
      BY <2>2
    <3> QED BY <2>3, <3>1, <3>2
  <2>5. ASSUME NEW n \in 1 .. k + 1 PROVE g[n] = Parse(g[n - 1], u[n])
    <3>1. CASE n = k + 1
      BY <3>1, <2>2
    <3>2. CASE n # k + 1
      <4>1. n \in 1 .. k /\ n - 1 \in 0 .. k + 1 /\ n - 1 # k + 1
        BY <3>2, <2>2
      <4>2. g[n] = f[n] /\ g[n - 1] = f[n - 1]
        BY <3>2, <4>1
      <4>3. u[n] = t[n]
        BY <2>2, <4>1
      <4> QED BY <4>1, <4>2, <4>3, <2>3
    <3> QED BY <3>1, <3>2
  <2>6. Parses(g, u)
    <3> HIDE DEF g
    <3> QED BY <2>2, <2>4, <2>5 DEF Parses
  <2> QED BY <2>2, <2>6 DEF u
<1>3. Seq(Line) \subseteq S
  <2> HIDE DEF S
  <2> QED BY <1>1, <1>2, SeqInd
<1> QED BY <1>3

\* The function that ReadLog stands for.
LEMMA ReadLogByFunction ==
  ASSUME NEW lines \in Seq(Line)
  PROVE  \E f : Parses(f, lines) /\ ReadLog(lines) = f[Len(lines)]
<1> DEFINE f == CHOOSE g : IsParsed(g, lines)
<1>1. IsParsed(f, lines)
  BY ParsesExists, ParsedIsParses
<1>2. ReadLog(lines) = f[Len(lines)]
  BY DEF ReadLog, IsParsed
<1>3. Parses(f, lines)
  <2> HIDE DEF f
  <2> QED BY <1>1, ParsedIsParses
<1> QED BY <1>2, <1>3

\* An empty log holds no edits.
LEMMA ReadOfEmpty == ReadLog(<<>>) = <<>>
<1>1. <<>> \in Seq(Line) /\ Len(<<>>) = 0
  BY EmptySeq
<1>2. PICK f : Parses(f, <<>>) /\ ReadLog(<<>>) = f[0]
  BY <1>1, ReadLogByFunction
<1> QED BY <1>2 DEF Parses

\* A log is read as records of edits.
LEMMA ReadType ==
  ASSUME NEW lines \in Seq(Line)
  PROVE  ReadLog(lines) \in Records
<1>1. PICK f : Parses(f, lines) /\ ReadLog(lines) = f[Len(lines)]
  BY ReadLogByFunction
<1>2. Len(lines) \in 0 .. Len(lines)
  BY LenProperties
<1> QED BY <1>1, <1>2 DEF Parses

\* A log is read line by line.
LEMMA ReadOfAppend ==
  ASSUME NEW s \in Seq(Line), NEW x \in Line
  PROVE  ReadLog(Append(s, x)) = Parse(ReadLog(s), x)
<1> DEFINE k == Len(s)
           u == Append(s, x)
<1>1. k \in Nat /\ u \in Seq(Line) /\ Len(u) = k + 1 /\ u[k + 1] = x /\ \A i \in 1 .. k : u[i] = s[i]
  BY AppendProperties, LenProperties
<1>2. PICK f : Parses(f, s) /\ ReadLog(s) = f[k]
  BY ReadLogByFunction
<1>3. PICK g : Parses(g, u) /\ ReadLog(u) = g[k + 1]
  <2> HIDE DEF u, k
  <2> QED BY <1>1, ReadLogByFunction
<1>4. f[0] = <<>> /\ \A n \in 1 .. k : f[n] = Parse(f[n - 1], s[n])
  BY <1>2 DEF Parses
<1> HIDE DEF k, u
<1>5. g[0] = <<>> /\ \A n \in 1 .. k + 1 : g[n] = Parse(g[n - 1], u[n])
  BY <1>1, <1>3 DEF Parses
<1> DEFINE S == {n \in Nat : n <= k => f[n] = g[n]}
<1>6. 0 \in S
  BY <1>4, <1>5
<1>7. ASSUME NEW n \in Nat, n \in S PROVE n + 1 \in S
  <2> SUFFICES ASSUME n + 1 <= k PROVE f[n + 1] = g[n + 1]
    OBVIOUS
  <2>1. n + 1 \in 1 .. k /\ n + 1 \in 1 .. k + 1 /\ (n + 1) - 1 = n /\ f[n] = g[n]
    BY <1>1, <1>7
  <2> QED BY <2>1, <1>1, <1>4, <1>5
<1>8. Nat \subseteq S
  <2> HIDE DEF S
  <2> QED BY <1>6, <1>7, NatInd
<1>9. f[k] = g[k] /\ k + 1 \in 1 .. k + 1 /\ (k + 1) - 1 = k
  BY <1>8, <1>1
<1> QED BY <1>1, <1>2, <1>3, <1>5, <1>9 DEF u

\* The lines of a kind.
OfKind(kinds) == {l \in Line : l.t \in kinds}

\* The lines of some kinds are those left of all lines.
LEMMA LinesOfAreOnly ==
  ASSUME NEW lines \in Seq(Line), NEW kinds
  PROVE  LinesOf(lines, kinds) = Only(lines, OfKind(kinds)) /\ LinesOf(lines, kinds) \in Seq(OfKind(kinds))
<1> DEFINE A == {l \in ToSet(lines) : l.t \in kinds}
           B == OfKind(kinds)
<1>1. lines \in Seq(ToSet(lines)) /\ ToSet(lines) \subseteq Line
  BY ElementsType
<1>2. \A x \in ToSet(lines) : x \in A <=> x \in B
  BY <1>1 DEF OfKind
<1>3. Only(lines, A) = Only(lines, B)
  <2> HIDE DEF A, B
  <2> QED BY <1>1, <1>2, OnlyAgrees
<1>4. LinesOf(lines, kinds) = Only(lines, B)
  BY <1>3 DEF LinesOf
<1>5. ToSet(Only(lines, B)) \subseteq B /\ Only(lines, B) \in Seq(Line)
  BY OnlyElements, OnlyType
<1>6. Only(lines, B) \in Seq(ToSet(Only(lines, B)))
  <2> HIDE DEF B
  <2> QED BY <1>5, ElementsType
<1>7. Only(lines, B) \in Seq(B)
  <2> HIDE DEF B
  <2> QED BY <1>5, <1>6, SeqMonotonic
<1> QED BY <1>4, <1>7

\* Lines that are not about edits leave the reading of a log as it is.
LEMMA ReadOfOthers ==
  ASSUME NEW s \in Seq(Line), NEW p \in Seq(Line), \A l \in ToSet(p) : l.t \notin {"edit", "status"}
  PROVE  ReadLog(s \o p) = ReadLog(s)
<1> DEFINE V == {l \in Line : l.t \notin {"edit", "status"}}
           S == {q \in Seq(V) : ReadLog(s \o q) = ReadLog(s)}
<1>1. <<>> \in S
  BY EmptySeq, ConcatEmptySeq
<1>2. ASSUME NEW q \in Seq(V), NEW x \in V, q \in S PROVE Append(q, x) \in S
  <2>1. q \in Seq(Line) /\ x \in Line
    BY SeqMonotonic
  <2>2. s \o Append(q, x) = Append(s \o q, x) /\ s \o q \in Seq(Line)
    BY <2>1, AppendIsConcat, ConcatAssociative, ConcatProperties, IsASeq
  <2>3. ReadLog(Append(s \o q, x)) = Parse(ReadLog(s \o q), x)
    <3>1. PICK w \in Seq(Line) : w = s \o q
      BY <2>2
    <3>2. ReadLog(Append(w, x)) = Parse(ReadLog(w), x)
      BY <2>1, ReadOfAppend
    <3> QED BY <3>1, <3>2, Zenon
  <2>4. Parse(ReadLog(s \o q), x) = ReadLog(s \o q)
    BY ParseOfOther
  <2>5. ReadLog(s \o Append(q, x)) = ReadLog(s)
    BY <1>2, <2>2, <2>3, <2>4, Zenon
  <2> QED BY <2>5, AppendProperties
<1>3. Seq(V) \subseteq S
  <2> HIDE DEF S, V
  <2> QED BY <1>1, <1>2, SeqInd
<1>4. p \in Seq(ToSet(p)) /\ ToSet(p) \subseteq Line
  BY ElementsType
<1>5. p \in Seq(V)
  <2>1. ToSet(p) \subseteq V
    BY <1>4
  <2> HIDE DEF V
  <2> QED BY <1>4, <2>1, SeqMonotonic
<1> QED BY <1>3, <1>5

\* The same edits under the same ids, some of them with status st.
Remarked(was, now, st) ==
  /\ Len(now) = Len(was)
  /\ \A i \in 1 .. Len(was) :
           now[i].id = was[i].id /\ now[i].uid = was[i].uid /\ now[i].status \in {was[i].status, st}

\* Status lines that all write the same status give it to some of the edits.
LEMMA ReadOfStatuses ==
  ASSUME NEW s \in Seq(Line), NEW p \in Seq(Line), NEW st \in Status,
         \A l \in ToSet(p) : l.t # "edit" /\ (l.t = "status" => l.status = st)
  PROVE  Remarked(ReadLog(s), ReadLog(s \o p), st)
<1> DEFINE V == {l \in Line : l.t # "edit" /\ (l.t = "status" => l.status = st)}
           S == {q \in Seq(V) : Remarked(ReadLog(s), ReadLog(s \o q), st)}
<1>1. <<>> \in S
  BY EmptySeq, ConcatEmptySeq DEF Remarked
<1>2. ASSUME NEW q \in Seq(V), NEW x \in V, q \in S PROVE Append(q, x) \in S
  <2>1. q \in Seq(Line) /\ x \in Line
    BY SeqMonotonic
  <2>2. s \o Append(q, x) = Append(s \o q, x) /\ s \o q \in Seq(Line)
    BY <2>1, AppendIsConcat, ConcatAssociative, ConcatProperties, IsASeq
  <2>3. PICK was, now, then : /\ was = ReadLog(s) /\ now = ReadLog(s \o q) /\ then = Parse(now, x)
                              /\ then = ReadLog(Append(s \o q, x)) /\ was \in Records /\ now \in Records
    <3>1. PICK w \in Seq(Line) : w = s \o q
      BY <2>2
    <3>2. ReadLog(Append(w, x)) = Parse(ReadLog(w), x) /\ ReadLog(w) \in Records /\ ReadLog(s) \in Records
      BY <2>1, ReadOfAppend, ReadType
    <3> QED BY <3>1, <3>2, Zenon
  <2>4. Remarked(was, now, st)
    BY <1>2, <2>3, Zenon
  <2>5. Remarked(was, then, st)
    <3>1. CASE x.t = "status"
      <4>1. x \in StatusLine /\ x.status = st
        BY <3>1, <2>1, LineKinds
      <4>2. then = Parse(now, x) /\ now \in Records
        BY <2>3
      <4>3. Len(then) = Len(now)
        BY <4>1, <4>2, ParseOfStatus
      <4>4. ASSUME NEW i \in 1 .. Len(now)
            PROVE  then[i].id = now[i].id /\ then[i].uid = now[i].uid /\ then[i].status \in {now[i].status, st}
        <5>1. then[i].id = now[i].id /\ then[i].uid = now[i].uid
          BY <4>1, <4>2, ParseOfStatus
        <5>2. then[i].status = IF now[i].id = x.id THEN st ELSE now[i].status
          BY <4>1, <4>2, ParseOfStatus
        <5> QED BY <5>1, <5>2
      <4> QED BY <2>4, <4>3, <4>4 DEF Remarked
    <3>2. CASE x.t # "status"
      <4>1. then = now
        BY <2>1, <2>3, <3>2, ParseOfOther
      <4> QED BY <2>4, <4>1
    <3> QED BY <3>1, <3>2
  <2>6. Remarked(ReadLog(s), ReadLog(s \o Append(q, x)), st)
    BY <2>2, <2>3, <2>5, Zenon
  <2> QED BY <2>6, AppendProperties
<1>3. Seq(V) \subseteq S
  <2> HIDE DEF S, V
  <2> QED BY <1>1, <1>2, SeqInd
<1>4. p \in Seq(ToSet(p)) /\ ToSet(p) \subseteq Line
  BY ElementsType
<1>5. p \in Seq(V)
  <2>1. ToSet(p) \subseteq V
    BY <1>4
  <2> HIDE DEF V
  <2> QED BY <1>4, <2>1, SeqMonotonic
<1> QED BY <1>3, <1>5

\* Two edits, the first captured before the second; or of different ids.
Older == {p \in Rec \X Rec : p[1].uid < p[2].uid}
OtherIds == {p \in Rec \X Rec : p[1].id # p[2].id}

\* No two edits of a log are read under the same id.
LEMMA ReadIdsDiffer ==
  ASSUME NEW lines \in Seq(Line)
  PROVE  Pairwise(ReadLog(lines), OtherIds)
<1> DEFINE S == {q \in Seq(Line) : Pairwise(ReadLog(q), OtherIds)}
<1>1. <<>> \in S
  BY ReadOfEmpty, EmptySeq DEF Pairwise
<1>2. ASSUME NEW q \in Seq(Line), NEW x \in Line, q \in S PROVE Append(q, x) \in S
  <2>1. PICK now : now = ReadLog(q)
    OBVIOUS
  <2>2. now \in Seq(Rec) /\ now \in Records /\ Pairwise(now, OtherIds)
    BY <1>2, <2>1, ReadType DEF Records, Rec
  <2>3. ReadLog(Append(q, x)) = Parse(now, x)
    BY <2>1, ReadOfAppend
  <2>4. CASE x.t = "edit"
    <3>1. x \in EditLine
      BY <2>4, LineKinds
    <3>2. x.id \in Nat
      BY <3>1 DEF EditLine
    <3>3. PICK r \in Rec : Parse(now, x) = Append(now, r) /\ r.id = FreshId(now, x.id)
      BY <2>2, <3>1, ParseOfEdit
    <3>4. r.id \notin IdsOf(now)
      BY <2>2, <3>2, <3>3, FreshIdIsFree
    <3>5. \A y \in ToSet(now) : y \in Rec /\ y.id # r.id
      BY <2>2, <3>4, ElementsType DEF ToSet, IdsOf
    <3>6. \A y \in ToSet(now) : <<y, r>> \in OtherIds
      BY <3>5 DEF OtherIds
    <3>7. Pairwise(Append(now, r), OtherIds)
      BY <2>2, <3>6, PairwiseOfAppend
    <3> QED BY <2>3, <3>3, <3>7, AppendProperties
  <2>5. CASE x.t = "status"
    <3>1. x \in StatusLine
      BY <2>5, LineKinds
    <3>2. PICK then \in Seq(Rec) : then = Parse(now, x) /\ Len(then) = Len(now)
                                   /\ \A i \in 1 .. Len(now) : then[i].id = now[i].id
      <4>1. Parse(now, x) \in Seq(Rec) /\ Len(Parse(now, x)) = Len(now)
        BY <2>2, <3>1, ParseOfStatus DEF Records, Rec
      <4>2. \A i \in 1 .. Len(now) : Parse(now, x)[i].id = now[i].id
        BY <2>2, <3>1, ParseOfStatus
      <4> QED BY <4>1, <4>2
    <3>3. DOMAIN then = 1 .. Len(now) /\ DOMAIN now = 1 .. Len(now) /\ \A i \in 1 .. Len(now) : then[i] \in Rec
      BY <2>2, <3>2, LenProperties, ElementOfSeq
    <3>4. \A i, j \in 1 .. Len(now) : i < j => now[i].id # now[j].id
      BY <2>2, <3>3 DEF Pairwise, OtherIds
    <3>5. Pairwise(then, OtherIds)
      BY <3>2, <3>3, <3>4 DEF Pairwise, OtherIds
    <3> QED BY <2>3, <3>2, <3>5, AppendProperties
  <2>6. CASE x.t \notin {"edit", "status"}
    <3>1. Parse(now, x) = now
      BY <2>6, ParseOfOther
    <3> QED BY <2>2, <2>3, <3>1, AppendProperties
  <2> QED BY <2>4, <2>5, <2>6
<1>3. Seq(Line) \subseteq S
  <2> HIDE DEF S
  <2> QED BY <1>1, <1>2, SeqInd
<1> QED BY <1>3

\* The edit lines that a rewrite writes.
EditsOf(recs) == [i \in DOMAIN recs |-> Edit(recs[i].id, recs[i].uid, recs[i].status)]

\* Records are written back as edit lines.
LEMMA EditsOfType ==
  ASSUME NEW recs \in Seq(Rec)
  PROVE  EditsOf(recs) \in Seq(EditLine)
<1>1. Len(recs) \in Nat /\ DOMAIN recs = 1 .. Len(recs) /\ \A i \in 1 .. Len(recs) : recs[i] \in Rec
  BY LenProperties, ElementOfSeq
<1>2. \A i \in 1 .. Len(recs) : Edit(recs[i].id, recs[i].uid, recs[i].status) \in EditLine
  BY <1>1 DEF Rec, Edit, EditLine
<1>3. EditsOf(recs) \in [1 .. Len(recs) -> EditLine]
  BY <1>1, <1>2 DEF EditsOf
<1> QED BY <1>1, <1>3, SeqDef

\* A further record is written back as a further edit line.
LEMMA EditsOfAppend ==
  ASSUME NEW recs \in Seq(Rec), NEW x \in Rec
  PROVE  EditsOf(Append(recs, x)) = Append(EditsOf(recs), Edit(x.id, x.uid, x.status))
<1> DEFINE k == Len(recs)
           u == Append(recs, x)
           e == Edit(x.id, x.uid, x.status)
<1>1. /\ k \in Nat /\ DOMAIN u = 1 .. k + 1 /\ u[k + 1] = x /\ DOMAIN recs = 1 .. k
      /\ \A i \in 1 .. k : u[i] = recs[i]
  BY AppendProperties, LenProperties
<1>2. EditsOf(recs) \in Seq(EditLine) /\ DOMAIN EditsOf(recs) = 1 .. k
  BY EditsOfType, <1>1 DEF EditsOf
<1>3. Len(EditsOf(recs)) = k
  BY <1>1, <1>2, LenProperties
<1>4. e \in EditLine
  BY DEF Rec, Edit, EditLine
<1>5. PICK w : w = Append(EditsOf(recs), e)
  OBVIOUS
<1>6. w = [i \in 1 .. k + 1 |-> IF i = k + 1 THEN e ELSE EditsOf(recs)[i]]
  <2> HIDE DEF k, e
  <2>1. /\ w \in Seq(EditLine) /\ Len(w) = k + 1 /\ w[k + 1] = e
        /\ \A i \in 1 .. k : w[i] = EditsOf(recs)[i]
    BY <1>2, <1>3, <1>4, <1>5, AppendProperties
  <2>2. w \in [1 .. k + 1 -> EditLine]
    BY <2>1, LenProperties
  <2> QED BY <2>1, <2>2, <1>1
<1> HIDE DEF k, u
<1>7. EditsOf(u) = w
  BY <1>1, <1>6 DEF EditsOf
<1> QED BY <1>5, <1>7 DEF u

\* What a rewrite writes is read as it was written.
LEMMA ReadOfEdits ==
  ASSUME NEW ops \in Seq(Line), \A l \in ToSet(ops) : l.t \notin {"edit", "status"},
         NEW recs \in Seq(Rec), Pairwise(recs, OtherIds)
  PROVE  ReadLog(ops \o EditsOf(recs)) = recs
<1> DEFINE S == {k \in Seq(Rec) : Pairwise(k, OtherIds) => ReadLog(ops \o EditsOf(k)) = k}
<1>1. <<>> \in S
  <2>1. EditsOf(<<>>) = <<>>
    BY EmptySeq DEF EditsOf
  <2>2. <<>> \in Seq(Line) /\ <<>> \o ops = ops /\ ops \o <<>> = ops
    BY EmptySeq, ConcatEmptySeq
  <2>3. ReadLog(<<>> \o ops) = ReadLog(<<>>)
    BY <2>2, ReadOfOthers
  <2> QED BY <2>1, <2>2, <2>3, ReadOfEmpty, EmptySeq
<1>2. ASSUME NEW k \in Seq(Rec), NEW x \in Rec, k \in S PROVE Append(k, x) \in S
  <2> SUFFICES ASSUME Pairwise(Append(k, x), OtherIds)
               PROVE  ReadLog(ops \o EditsOf(Append(k, x))) = Append(k, x)
    BY AppendProperties
  <2> DEFINE e == Edit(x.id, x.uid, x.status)
  <2>1. Pairwise(k, OtherIds) /\ \A y \in ToSet(k) : <<y, x>> \in OtherIds
    BY PairwiseOfAppend
  <2>2. ReadLog(ops \o EditsOf(k)) = k
    BY <1>2, <2>1
  <2>3. e \in EditLine /\ e \in Line /\ e.id = x.id /\ e.uid = x.uid /\ e.status = x.status
    BY DEF Rec, Edit, EditLine, Line
  <2>4. EditsOf(k) \in Seq(Line)
    BY EditsOfType, SeqMonotonic DEF Line
  <2> HIDE DEF e
  <2>5. ops \o Append(EditsOf(k), e) = Append(ops \o EditsOf(k), e) /\ ops \o EditsOf(k) \in Seq(Line)
    BY <2>3, <2>4, AppendIsConcat, ConcatAssociative, ConcatProperties, IsASeq
  <2>6. PICK w \in Seq(Line) : w = ops \o EditsOf(k)
    BY <2>5
  <2>7. ReadLog(Append(w, e)) = Parse(k, e)
    BY <2>2, <2>3, <2>6, ReadOfAppend
  <2>8. k \in Records /\ x.id \in Nat /\ x.id \notin IdsOf(k)
    BY <2>1 DEF Records, Rec, OtherIds, IdsOf, ToSet
  <2>9. Parse(k, e) = Append(k, [id |-> x.id, uid |-> x.uid, status |-> x.status])
    <3>1. FreshId(k, x.id) = x.id
      BY <2>8, FreshIdIsFree
    <3>2. Parse(k, e) = Append(k, [id |-> FreshId(k, e.id), uid |-> e.uid, status |-> e.status])
      BY <2>3, <2>8, ParseOfEdit
    <3> QED BY <2>3, <3>1, <3>2, Zenon
  <2>10. x = [id |-> x.id, uid |-> x.uid, status |-> x.status]
    BY DEF Rec
  <2>11. Parse(k, e) = Append(k, x)
    BY <2>9, <2>10, Zenon
  <2>12. EditsOf(Append(k, x)) = Append(EditsOf(k), e)
    BY EditsOfAppend DEF e
  <2> QED BY <2>5, <2>6, <2>7, <2>11, <2>12, Zenon
<1>3. Seq(Rec) \subseteq S
  <2> HIDE DEF S
  <2> QED BY <1>1, <1>2, SeqInd
<1> QED BY <1>3

-----------------------------------------------------------------------------
(* The walk that remembers a verdict.                                      *)

Standing == [n : Nat, cur : Status, out : Status]

\* One line of the walk for edit `id`, over a log that is read as eff.
Walk(eff, id, acc, line) ==
  CASE line.t = "edit" ->
         IF eff[acc.n + 1].id = id
         THEN [n |-> acc.n + 1, cur |-> line.status,
               out |-> IF line.status = "undone" THEN "pending" ELSE acc.out]
         ELSE [acc EXCEPT !.n = @ + 1]
    [] line.t = "status" /\ line.id = id ->
         [acc EXCEPT !.cur = line.status, !.out = Remembered(acc, line.status)]
    [] OTHER -> acc

IsWalk(f, lines, eff, id) ==
  f = [n \in 0 .. Len(lines) |->
         IF n = 0 THEN [n |-> 0, cur |-> "pending", out |-> "pending"] ELSE Walk(eff, id, f[n - 1], lines[n])]

\* The walk that remembers a verdict can be made of every log.
LEMMA WalkExists ==
  ASSUME NEW eff, NEW id, NEW lines \in Seq(Line)
  PROVE  \E f : IsWalk(f, lines, eff, id)
<1> DEFINE S == {t \in Seq(Line) : \E f : IsWalk(f, t, eff, id)}
           start == [n |-> 0, cur |-> "pending", out |-> "pending"]
<1>1. <<>> \in S
  <2>1. IsWalk([n \in {0} |-> start], <<>>, eff, id)
    BY EmptySeq DEF IsWalk
  <2> QED BY <2>1, EmptySeq
<1>2. ASSUME NEW t \in Seq(Line), NEW x \in Line, t \in S PROVE Append(t, x) \in S
  <2>1. PICK f : IsWalk(f, t, eff, id)
    BY <1>2
  <2> DEFINE k == Len(t)
             u == Append(t, x)
             g == [n \in 0 .. k + 1 |-> IF n = k + 1 THEN Walk(eff, id, f[k], x) ELSE f[n]]
  <2>2. k \in Nat /\ u \in Seq(Line) /\ Len(u) = k + 1 /\ u[k + 1] = x /\ \A i \in 1 .. k : u[i] = t[i]
    BY AppendProperties, LenProperties
  <2>3. \A n \in 0 .. k : f[n] = IF n = 0 THEN start ELSE Walk(eff, id, f[n - 1], t[n])
    BY <2>1 DEF IsWalk
  <2> HIDE DEF k, u, start
  <2>4. ASSUME NEW n \in 0 .. k + 1 PROVE g[n] = IF n = 0 THEN start ELSE Walk(eff, id, g[n - 1], u[n])
    <3>1. CASE n = k + 1
      BY <3>1, <2>2
    <3>2. CASE n # k + 1
      <4>1. n \in 0 .. k /\ g[n] = f[n] /\ (n # 0 => g[n - 1] = f[n - 1] /\ u[n] = t[n])
        BY <3>2, <2>2
      <4> QED BY <4>1, <2>3
    <3> QED BY <3>1, <3>2
  <2>5. IsWalk(g, u, eff, id)
    BY <2>2, <2>4 DEF IsWalk, start
  <2> QED BY <2>2, <2>5 DEF u
<1>3. Seq(Line) \subseteq S
  <2> HIDE DEF S
  <2> QED BY <1>1, <1>2, SeqInd
<1> QED BY <1>3

\* Where the walk for edit `id` stands at the end of lines, of a log that is read as eff.
Stands(lines, eff, id) ==
  LET walked[n \in 0 .. Len(lines)] ==
        IF n = 0 THEN [n |-> 0, cur |-> "pending", out |-> "pending"] ELSE Walk(eff, id, walked[n - 1], lines[n])
  IN  walked[Len(lines)]

\* The function that Stands stands for.
LEMMA StandsByFunction ==
  ASSUME NEW lines \in Seq(Line), NEW eff, NEW id
  PROVE  \E f : IsWalk(f, lines, eff, id) /\ Stands(lines, eff, id) = f[Len(lines)]
<1> DEFINE f == CHOOSE g : IsWalk(g, lines, eff, id)
<1>1. IsWalk(f, lines, eff, id)
  BY WalkExists
<1>2. Stands(lines, eff, id) = f[Len(lines)]
  BY DEF Stands, IsWalk
<1> HIDE DEF f
<1> QED BY <1>1, <1>2

\* The walk goes line by line.
LEMMA StandsOfEmpty ==
  ASSUME NEW eff, NEW id
  PROVE  Stands(<<>>, eff, id) = [n |-> 0, cur |-> "pending", out |-> "pending"]
<1>1. <<>> \in Seq(Line) /\ Len(<<>>) = 0
  BY EmptySeq
<1>2. PICK f : IsWalk(f, <<>>, eff, id) /\ Stands(<<>>, eff, id) = f[0]
  BY <1>1, StandsByFunction
<1> QED BY <1>1, <1>2 DEF IsWalk

\* A further line takes the walk one step on.
LEMMA StandsOfAppend ==
  ASSUME NEW s \in Seq(Line), NEW x \in Line, NEW eff, NEW id
  PROVE  Stands(Append(s, x), eff, id) = Walk(eff, id, Stands(s, eff, id), x)
<1> DEFINE k == Len(s)
           u == Append(s, x)
           start == [n |-> 0, cur |-> "pending", out |-> "pending"]
<1>1. k \in Nat /\ u \in Seq(Line) /\ Len(u) = k + 1 /\ u[k + 1] = x /\ \A i \in 1 .. k : u[i] = s[i]
  BY AppendProperties, LenProperties
<1>2. PICK f : IsWalk(f, s, eff, id) /\ Stands(s, eff, id) = f[k]
  BY StandsByFunction
<1>3. PICK g : IsWalk(g, u, eff, id) /\ Stands(u, eff, id) = g[k + 1]
  <2> HIDE DEF u, k
  <2> QED BY <1>1, StandsByFunction
<1> HIDE DEF k, u
<1>4. \A n \in 0 .. k : f[n] = IF n = 0 THEN start ELSE Walk(eff, id, f[n - 1], s[n])
  BY <1>2 DEF IsWalk, k
<1>5. \A n \in 0 .. k + 1 : g[n] = IF n = 0 THEN start ELSE Walk(eff, id, g[n - 1], u[n])
  BY <1>1, <1>3 DEF IsWalk
<1> HIDE DEF start
<1> DEFINE S == {n \in Nat : n <= k => f[n] = g[n]}
<1>6. 0 \in S
  BY <1>1, <1>4, <1>5
<1>7. ASSUME NEW n \in Nat, n \in S PROVE n + 1 \in S
  <2> SUFFICES ASSUME n + 1 <= k PROVE f[n + 1] = g[n + 1]
    OBVIOUS
  <2>1. n + 1 \in 0 .. k /\ n + 1 \in 0 .. k + 1 /\ (n + 1) - 1 = n /\ n + 1 # 0 /\ f[n] = g[n] /\ u[n + 1] = s[n + 1]
    BY <1>1, <1>7
  <2>2. f[n + 1] = Walk(eff, id, f[n], s[n + 1]) /\ g[n + 1] = Walk(eff, id, g[n], u[n + 1])
    BY <1>4, <1>5, <2>1
  <2> QED BY <2>1, <2>2, Zenon
<1>8. Nat \subseteq S
  <2> HIDE DEF S
  <2> QED BY <1>6, <1>7, NatInd
<1>9. f[k] = g[k] /\ k + 1 \in 0 .. k + 1 /\ k + 1 # 0 /\ (k + 1) - 1 = k
  BY <1>8, <1>1
<1>10. g[k + 1] = Walk(eff, id, g[k], u[k + 1])
  BY <1>5, <1>9
<1> QED BY <1>1, <1>2, <1>3, <1>9, <1>10, Zenon DEF u

\* It has counted the edits of the lines, and of eff it has seen their ids alone.
LEMMA StandsType ==
  ASSUME NEW s \in Seq(Line), NEW eff, NEW id
  PROVE  Stands(s, eff, id) \in Standing /\ Stands(s, eff, id).n = Len(ReadLog(s))
<1> DEFINE S == {t \in Seq(Line) : Stands(t, eff, id) \in Standing /\ Stands(t, eff, id).n = Len(ReadLog(t))}
<1>1. <<>> \in S
  BY StandsOfEmpty, ReadOfEmpty, EmptySeq DEF Standing, Status
<1>2. ASSUME NEW t \in Seq(Line), NEW x \in Line, t \in S PROVE Append(t, x) \in S
  <2>1. PICK acc \in Standing : acc = Stands(t, eff, id) /\ acc.n = Len(ReadLog(t))
    BY <1>2
  <2>2. PICK recs \in Seq(Rec) : recs = ReadLog(t) /\ recs \in Records
    BY ReadType DEF Records, Rec
  <2>3. Stands(Append(t, x), eff, id) = Walk(eff, id, acc, x) /\ ReadLog(Append(t, x)) = Parse(recs, x)
    BY <2>1, <2>2, StandsOfAppend, ReadOfAppend
  <2>4. Walk(eff, id, acc, x) \in Standing /\ Walk(eff, id, acc, x).n = Len(Parse(recs, x))
    <3>1. CASE x.t = "edit"
      <4>1. x \in EditLine /\ x.status \in Status
        BY <3>1, LineKinds DEF EditLine
      <4>2. Len(Parse(recs, x)) = Len(recs) + 1
        <5>1. PICK r \in Rec : Parse(recs, x) = Append(recs, r)
          BY <2>2, <4>1, ParseOfEdit
        <5>2. Len(Append(recs, r)) = Len(recs) + 1
          BY AppendProperties
        <5> QED BY <5>1, <5>2
      <4>3. Walk(eff, id, acc, x) \in Standing /\ Walk(eff, id, acc, x).n = acc.n + 1
        <5> DEFINE hit == eff[acc.n + 1].id = id
        <5>1. Walk(eff, id, acc, x) =
                IF hit THEN [n |-> acc.n + 1, cur |-> x.status,
                             out |-> IF x.status = "undone" THEN "pending" ELSE acc.out]
                ELSE [acc EXCEPT !.n = @ + 1]
          BY <3>1 DEF Walk
        <5> HIDE DEF hit
        <5> QED BY <4>1, <5>1 DEF Standing, Status
      <4> QED BY <2>1, <2>2, <4>2, <4>3
    <3>2. CASE x.t = "status"
      <4>1. x \in StatusLine /\ x.status \in Status
        BY <3>2, LineKinds DEF StatusLine
      <4>2. Len(Parse(recs, x)) = Len(recs)
        BY <2>2, <4>1, ParseOfStatus
      <4>3. Remembered(acc, x.status) \in Status
        BY DEF Remembered, Standing
      <4>4. Walk(eff, id, acc, x) \in Standing /\ Walk(eff, id, acc, x).n = acc.n
        BY <3>2, <4>1, <4>3 DEF Walk, Standing
      <4> QED BY <2>1, <2>2, <4>2, <4>4
    <3>3. CASE x.t \notin {"edit", "status"}
      <4>1. Parse(recs, x) = recs /\ Walk(eff, id, acc, x) = acc
        BY <3>3, ParseOfOther DEF Walk
      <4> QED BY <2>1, <2>2, <4>1
    <3> QED BY <3>1, <3>2, <3>3
  <2> QED BY <2>3, <2>4, AppendProperties
<1>3. Seq(Line) \subseteq S
  <2> HIDE DEF S
  <2> QED BY <1>1, <1>2, SeqInd
<1> QED BY <1>3

\* What the walk remembers is a verdict.
LEMMA BeforeUndoneType ==
  ASSUME NEW lines \in Seq(Line), NEW id
  PROVE  BeforeUndone(lines, id) \in Status /\ BeforeUndone(lines, id) = Stands(lines, ReadLog(lines), id).out
<1>1. BeforeUndone(lines, id) = Stands(lines, ReadLog(lines), id).out
  BY DEF BeforeUndone, Stands, Walk
<1> QED BY <1>1, StandsType DEF Standing

\* Two readings that agree on the ids of the edits seen so far are walked alike.
LEMMA StandsAgrees ==
  ASSUME NEW s \in Seq(Line), NEW e, NEW f, NEW id, \A i \in 1 .. Len(ReadLog(s)) : e[i].id = f[i].id
  PROVE  Stands(s, e, id) = Stands(s, f, id)
<1> DEFINE Agree(t) == \A i \in 1 .. Len(ReadLog(t)) : e[i].id = f[i].id
           S == {t \in Seq(Line) : Agree(t) => Stands(t, e, id) = Stands(t, f, id)}
<1>1. <<>> \in S
  BY StandsOfEmpty, EmptySeq
<1>2. ASSUME NEW t \in Seq(Line), NEW x \in Line, t \in S PROVE Append(t, x) \in S
  <2> SUFFICES ASSUME Agree(Append(t, x)) PROVE Stands(Append(t, x), e, id) = Stands(Append(t, x), f, id)
    BY AppendProperties
  <2>1. PICK recs \in Seq(Rec) : recs = ReadLog(t) /\ recs \in Records
    BY ReadType DEF Records, Rec
  <2>2. PICK acc \in Standing : acc = Stands(t, e, id) /\ acc.n = Len(recs)
    BY <2>1, StandsType
  <2>3. Len(recs) \in Nat /\ \A i \in 1 .. Len(Parse(recs, x)) : e[i].id = f[i].id
    BY <2>1, ReadOfAppend, LenProperties
  <2>4. /\ x.t = "edit" => Len(Parse(recs, x)) = Len(recs) + 1
        /\ x.t # "edit" => Len(Parse(recs, x)) = Len(recs)
    <3>1. CASE x.t = "edit"
      <4>1. PICK r \in Rec : Parse(recs, x) = Append(recs, r)
        BY <2>1, <3>1, LineKinds, ParseOfEdit
      <4>2. Len(Append(recs, r)) = Len(recs) + 1
        BY AppendProperties
      <4> QED BY <3>1, <4>1, <4>2
    <3>2. CASE x.t = "status"
      BY <2>1, <3>2, LineKinds, ParseOfStatus
    <3>3. CASE x.t \notin {"edit", "status"}
      BY <3>3, ParseOfOther
    <3> QED BY <3>1, <3>2, <3>3
  <2>5. Agree(t)
    BY <2>1, <2>3, <2>4
  <2>6. Stands(t, f, id) = acc
    BY <1>2, <2>2, <2>5
  <2>7. Walk(e, id, acc, x) = Walk(f, id, acc, x)
    <3>1. CASE x.t = "edit"
      <4>1. acc.n + 1 \in 1 .. Len(Parse(recs, x))
        BY <2>2, <2>3, <2>4, <3>1
      <4>2. e[acc.n + 1].id = f[acc.n + 1].id
        BY <2>3, <4>1
      <4> QED BY <3>1, <4>2 DEF Walk
    <3>2. CASE x.t # "edit"
      BY <3>2 DEF Walk
    <3> QED BY <3>1, <3>2
  <2> QED BY <2>2, <2>6, <2>7, StandsOfAppend
<1>3. Seq(Line) \subseteq S
  <2> HIDE DEF S
  <2> QED BY <1>1, <1>2, SeqInd
<1> QED BY <1>3

\* Where the walk for an edit stands at the end of a log.
State(lines, id) == Stands(lines, ReadLog(lines), id)

\* What one line more does to it.
LEMMA StateOfAppend ==
  ASSUME NEW s \in Seq(Line), NEW x \in Line, NEW id
  PROVE  LET was == State(s, id)
             now == State(Append(s, x), id)
         IN  /\ was \in Standing /\ now \in Standing
             /\ x.t = "edit" /\ FreshId(ReadLog(s), x.id) = id =>
                  now.cur = x.status /\ now.out = IF x.status = "undone" THEN "pending" ELSE was.out
             /\ x.t = "status" /\ x.id = id => now.cur = x.status /\ now.out = Remembered(was, x.status)
             /\ ~(x.t = "edit" /\ FreshId(ReadLog(s), x.id) = id) /\ ~(x.t = "status" /\ x.id = id) =>
                  now.cur = was.cur /\ now.out = was.out
<1> DEFINE u == Append(s, x)
           was == State(s, id)
           now == State(u, id)
<1>1. PICK recs \in Seq(Rec) : recs = ReadLog(s) /\ recs \in Records
  BY ReadType DEF Records, Rec
<1>2. u \in Seq(Line) /\ ReadLog(u) = Parse(recs, x)
  BY <1>1, ReadOfAppend, AppendProperties
<1>3. was \in Standing /\ now \in Standing /\ was.n = Len(recs) /\ Len(recs) \in Nat
  BY <1>1, <1>2, StandsType, LenProperties DEF State
<1>4. PICK then \in Seq(Rec) : then = Parse(recs, x) /\ then = ReadLog(u)
  BY <1>2, ReadType DEF Records, Rec
<1>5. /\ \A i \in 1 .. Len(recs) : then[i].id = recs[i].id
      /\ x.t = "edit" => then[Len(recs) + 1].id = FreshId(recs, x.id)
  <2>1. CASE x.t = "edit"
    <3>1. PICK r \in Rec : Parse(recs, x) = Append(recs, r) /\ r.id = FreshId(recs, x.id)
      BY <1>1, <2>1, LineKinds, ParseOfEdit
    <3>2. Append(recs, r)[Len(recs) + 1] = r /\ \A i \in 1 .. Len(recs) : Append(recs, r)[i] = recs[i]
      BY AppendProperties
    <3> QED BY <1>4, <3>1, <3>2, Zenon
  <2>2. CASE x.t = "status"
    <3>1. x \in StatusLine
      BY <2>2, LineKinds
    <3>2. \A i \in 1 .. Len(recs) : Parse(recs, x)[i].id = recs[i].id
      BY <1>1, <3>1, ParseOfStatus
    <3> QED BY <1>4, <2>2, <3>2
  <2>3. CASE x.t \notin {"edit", "status"}
    BY <1>4, <2>3, ParseOfOther
  <2> QED BY <2>1, <2>2, <2>3
<1>6. Stands(s, then, id) = was
  BY <1>1, <1>5, StandsAgrees DEF State
<1>7. now = Walk(then, id, was, x)
  <2>1. now = Stands(u, then, id)
    BY <1>4 DEF State
  <2>2. Stands(u, then, id) = Walk(then, id, Stands(s, then, id), x)
    BY StandsOfAppend
  <2> QED BY <1>6, <2>1, <2>2, Zenon
<1> HIDE DEF was, now, u
<1>8. CASE x.t = "edit"
  <2>1. then[was.n + 1].id = FreshId(recs, x.id)
    BY <1>3, <1>5, <1>8
  <2>2. CASE FreshId(recs, x.id) = id
    <3>1. now = [n |-> was.n + 1, cur |-> x.status, out |-> IF x.status = "undone" THEN "pending" ELSE was.out]
      BY <1>7, <1>8, <2>1, <2>2 DEF Walk
    <3> QED BY <1>1, <1>3, <1>8, <2>2, <3>1 DEF was, now, u
  <2>3. CASE FreshId(recs, x.id) # id
    <3>1. now = [was EXCEPT !.n = @ + 1]
      BY <1>7, <1>8, <2>1, <2>3 DEF Walk
    <3>2. now.cur = was.cur /\ now.out = was.out
      BY <1>3, <3>1 DEF Standing
    <3> QED BY <1>1, <1>3, <1>8, <2>3, <3>2 DEF was, now, u
  <2> QED BY <2>2, <2>3
<1>9. CASE x.t = "status" /\ x.id = id
  <2>1. now = [was EXCEPT !.cur = x.status, !.out = Remembered(was, x.status)]
    BY <1>7, <1>9 DEF Walk
  <2>2. now.cur = x.status /\ now.out = Remembered(was, x.status)
    BY <1>3, <2>1 DEF Standing
  <2> QED BY <1>3, <1>9, <2>2 DEF was, now, u
<1>10. CASE x.t # "edit" /\ ~(x.t = "status" /\ x.id = id)
  <2>1. now = was
    BY <1>7, <1>10 DEF Walk
  <2> QED BY <1>3, <1>10, <2>1 DEF was, now, u
<1> QED BY <1>8, <1>9, <1>10

\* It knows the status of the edit.
LEMMA StateTellsStatus ==
  ASSUME NEW s \in Seq(Line), NEW id, NEW i \in 1 .. Len(ReadLog(s)), ReadLog(s)[i].id = id
  PROVE  State(s, id).cur = ReadLog(s)[i].status
<1> DEFINE Tells(t) == \A k \in 1 .. Len(ReadLog(t)) : ReadLog(t)[k].id = id => State(t, id).cur = ReadLog(t)[k].status
           S == {t \in Seq(Line) : Tells(t)}
<1>1. <<>> \in S
  BY ReadOfEmpty, EmptySeq
<1>2. ASSUME NEW t \in Seq(Line), NEW x \in Line, t \in S PROVE Append(t, x) \in S
  <2>1. PICK recs \in Seq(Rec) : recs = ReadLog(t) /\ recs \in Records
    BY ReadType DEF Records, Rec
  <2>2. PICK u \in Seq(Line) : u = Append(t, x)
    BY AppendProperties
  <2>3. PICK then \in Seq(Rec) : then = Parse(recs, x) /\ then = ReadLog(u)
    BY <2>1, <2>2, ReadOfAppend, ReadType DEF Records, Rec
  <2>4. Len(recs) \in Nat /\ \A k \in 1 .. Len(recs) : recs[k].id = id => State(t, id).cur = recs[k].status
    BY <1>2, <2>1, LenProperties
  <2>5. ASSUME NEW k \in 1 .. Len(then), then[k].id = id PROVE State(u, id).cur = then[k].status
    <3>1. CASE x.t = "edit"
      <4>1. PICK r \in Rec : Parse(recs, x) = Append(recs, r) /\ r.id = FreshId(recs, x.id) /\ r.status = x.status
        BY <2>1, <3>1, LineKinds, ParseOfEdit
      <4>2. /\ Append(recs, r)[Len(recs) + 1] = r /\ \A m \in 1 .. Len(recs) : Append(recs, r)[m] = recs[m]
            /\ Len(Append(recs, r)) = Len(recs) + 1
        BY AppendProperties
      <4>3. then[Len(recs) + 1] = r /\ (\A m \in 1 .. Len(recs) : then[m] = recs[m]) /\ Len(then) = Len(recs) + 1
        BY <2>3, <4>1, <4>2, Zenon
      <4>4. x.id \in Nat
        BY <3>1, LineKinds DEF EditLine
      <4>5. FreshId(recs, x.id) \notin IdsOf(recs)
        BY <2>1, <4>4, FreshIdIsFree
      <4>6. CASE k = Len(recs) + 1
        <5>1. FreshId(ReadLog(t), x.id) = id /\ then[k].status = x.status
          BY <2>1, <2>5, <4>1, <4>3, <4>6
        <5> QED BY <2>2, <3>1, <5>1, StateOfAppend
      <4>7. CASE k \in 1 .. Len(recs)
        <5>1. k \in DOMAIN recs /\ then[k] = recs[k] /\ recs[k].id = id
          BY <2>5, <4>3, <4>7, LenProperties
        <5>2. FreshId(ReadLog(t), x.id) # id
          BY <2>1, <4>5, <5>1 DEF IdsOf
        <5>3. State(u, id).cur = State(t, id).cur
          BY <2>2, <3>1, <5>2, StateOfAppend
        <5> QED BY <2>4, <4>7, <5>1, <5>3
      <4> QED BY <2>4, <2>5, <4>3, <4>6, <4>7
    <3>2. CASE x.t = "status"
      <4>0. x \in StatusLine
        BY <3>2, LineKinds
      <4>1. Len(then) = Len(recs) /\ k \in 1 .. Len(recs)
        <5>1. Len(Parse(recs, x)) = Len(recs)
          BY <2>1, <4>0, ParseOfStatus
        <5> QED BY <2>3, <2>5, <5>1
      <4>2. then[k].id = recs[k].id /\ then[k].status = IF recs[k].id = x.id THEN x.status ELSE recs[k].status
        <5>1. /\ Parse(recs, x)[k].id = recs[k].id
              /\ Parse(recs, x)[k].status = IF recs[k].id = x.id THEN x.status ELSE recs[k].status
          BY <2>1, <4>0, <4>1, ParseOfStatus
        <5> QED BY <2>3, <5>1
      <4>3. State(u, id).cur = IF x.id = id THEN x.status ELSE State(t, id).cur
        BY <2>2, <3>2, StateOfAppend
      <4> QED BY <2>4, <2>5, <4>1, <4>2, <4>3
    <3>3. CASE x.t \notin {"edit", "status"}
      <4>1. then = recs
        BY <2>3, <3>3, ParseOfOther
      <4>2. State(u, id).cur = State(t, id).cur
        BY <2>2, <3>3, StateOfAppend
      <4> QED BY <2>4, <2>5, <4>1, <4>2
    <3> QED BY <3>1, <3>2, <3>3
  <2> QED BY <2>2, <2>3, <2>5
<1>3. Seq(Line) \subseteq S
  <2> HIDE DEF S
  <2> QED BY <1>1, <1>2, SeqInd
<1> QED BY <1>3

-----------------------------------------------------------------------------
(* What rewrites leave of a log.                                           *)

\* The elements of a sequence taken out of another are among its elements, and so of any set that holds those.
LEMMA SeqOfElements ==
  ASSUME NEW V, NEW W, NEW s \in Seq(V), ToSet(s) \subseteq W
  PROVE  s \in Seq(W)
BY ElementsType, SeqMonotonic

\* What a log is read as, its ids and its uids have their types.
LEMMA ReadRecords ==
  ASSUME NEW lines \in Seq(Line)
  PROVE  /\ ReadLog(lines) \in Seq(Rec) /\ ToSet(ReadLog(lines)) \subseteq Rec
         /\ Ids(lines) \subseteq Nat /\ Uids(lines) \subseteq Nat
<1>1. ReadLog(lines) \in Seq(Rec)
  BY ReadType DEF Records, Rec
<1>2. ToSet(ReadLog(lines)) \subseteq Rec
  BY <1>1, ElementsType
<1> QED BY <1>1, <1>2 DEF Ids, Uids, Rec

\* An id tells an edit from the others of a log.
LEMMA IdsTell ==
  ASSUME NEW lines \in Seq(Line), NEW r \in ToSet(ReadLog(lines)), NEW q \in ToSet(ReadLog(lines)), r.id = q.id
  PROVE  r = q
<1> DEFINE recs == ReadLog(lines)
<1>1. Pairwise(recs, OtherIds) /\ recs \in Seq(Rec)
  BY ReadIdsDiffer, ReadRecords
<1> HIDE DEF recs
<1>2. PICK i \in DOMAIN recs, j \in DOMAIN recs : r = recs[i] /\ q = recs[j]
  BY DEF ToSet, recs
<1>3. i \in Nat /\ j \in Nat
  BY <1>1, LenProperties
<1>4. ~(i < j) /\ ~(j < i)
  BY <1>1, <1>2 DEF Pairwise, OtherIds
<1> QED BY <1>2, <1>3, <1>4

\* The edits that survive a rewrite: those of the log that are not dropped, in their order, of different ids.
LEMMA SurvivorsOfLog ==
  ASSUME NEW lines \in Seq(Line), NEW dropped
  PROVE  /\ Survivors(lines, dropped) \in Seq(Rec)
         /\ ToSet(Survivors(lines, dropped)) = {r \in ToSet(ReadLog(lines)) : r.id \notin dropped}
         /\ Pairwise(Survivors(lines, dropped), OtherIds)
         /\ Pairwise(ReadLog(lines), Older) => Pairwise(Survivors(lines, dropped), Older)
<1> DEFINE A == {r \in ToSet(ReadLog(lines)) : r.id \notin dropped}
<1>1. ReadLog(lines) \in Seq(Rec) /\ Pairwise(ReadLog(lines), OtherIds)
  BY ReadRecords, ReadIdsDiffer
<1>2. Survivors(lines, dropped) = Only(ReadLog(lines), A)
  BY DEF Survivors
<1>3. Only(ReadLog(lines), A) \in Seq(Rec) /\ ToSet(Only(ReadLog(lines), A)) = ToSet(ReadLog(lines)) \cap A
  <2> HIDE DEF A
  <2> QED BY <1>1, OnlyType, OnlyElements
<1>4. Pairwise(Only(ReadLog(lines), A), OtherIds)
  <2> HIDE DEF A
  <2> QED BY <1>1, OnlyPairwise
<1>5. Pairwise(ReadLog(lines), Older) => Pairwise(Only(ReadLog(lines), A), Older)
  <2> HIDE DEF A
  <2> QED BY <1>1, OnlyPairwise
<1>6. ToSet(ReadLog(lines)) \cap A = A
  OBVIOUS
<1> QED BY <1>2, <1>3, <1>4, <1>5, <1>6

\* The ops that a rewrite retains are neither edits nor statuses.
LEMMA RetainedOpsType ==
  ASSUME NEW lines \in Seq(Line)
  PROVE  RetainedOps(lines) \in Seq(Line) /\ \A l \in ToSet(RetainedOps(lines)) : l.t \notin {"edit", "status"}
<1>1. RetainedOps(lines) \in Seq(OfKind({"batch", "scope", "skip", "swept"}))
  BY LinesOfAreOnly DEF RetainedOps
<1> QED BY <1>1, ElementsType, SeqMonotonic DEF OfKind

\* A rewritten log reads as its survivors.
LEMMA RewrittenReads ==
  ASSUME NEW lines \in Seq(Line), NEW dropped
  PROVE  /\ Rewritten(lines, dropped) = RetainedOps(lines) \o EditsOf(Survivors(lines, dropped))
         /\ EditsOf(Survivors(lines, dropped)) \in Seq(EditLine)
         /\ Rewritten(lines, dropped) \in Seq(Line)
         /\ ReadLog(Rewritten(lines, dropped)) = Survivors(lines, dropped)
<1> DEFINE k == Survivors(lines, dropped)
           ops == RetainedOps(lines)
<1>1. k \in Seq(Rec) /\ Pairwise(k, OtherIds)
  BY SurvivorsOfLog
<1>2. ops \in Seq(Line) /\ \A l \in ToSet(ops) : l.t \notin {"edit", "status"}
  BY RetainedOpsType
<1>3. Rewritten(lines, dropped) = ops \o EditsOf(k)
  BY DEF Rewritten, EditsOf
<1> HIDE DEF k, ops
<1>4. EditsOf(k) \in Seq(EditLine) /\ EditsOf(k) \in Seq(Line)
  BY <1>1, EditsOfType, SeqMonotonic DEF Line
<1>5. ops \o EditsOf(k) \in Seq(Line) /\ ReadLog(ops \o EditsOf(k)) = k
  BY <1>1, <1>2, <1>4, ConcatProperties, ReadOfEdits
<1> QED BY <1>3, <1>4, <1>5 DEF k, ops

\* The count of what sweeps removed is a natural number.
LEMMA SweptType ==
  ASSUME NEW lines \in Seq(Line)
  PROVE  Swept(lines) \in Nat
<1> DEFINE counts == LinesOf(lines, {"swept"})
<1>1. counts \in Seq(OfKind({"swept"}))
  BY LinesOfAreOnly
<1>2. CASE counts # <<>>
  <2>1. Len(counts) \in 1 .. Len(counts)
    BY <1>1, <1>2, LenProperties, EmptySeq
  <2>2. Last(counts) \in OfKind({"swept"})
    BY <1>1, <2>1, ElementOfSeq DEF Last
  <2>3. Last(counts) \in SweptLine
    BY <2>2, LineKinds DEF OfKind
  <2>4. Last(counts).n \in Nat
    BY <2>3 DEF SweptLine
  <2> QED BY <1>2, <2>4 DEF Swept
<1> QED BY <1>2 DEF Swept

\* The ids of a log's edits are finitely many.
LEMMA IdsAreFinite ==
  ASSUME NEW lines \in Seq(Line), NEW D, D \subseteq Ids(lines)
  PROVE  Cardinality(D) \in Nat
<1>1. ReadLog(lines) \in Records /\ Ids(lines) = IdsOf(ReadLog(lines))
  BY ReadType DEF Ids, IdsOf, ToSet
<1>2. PICK n \in Nat : Ids(lines) \subseteq 0 .. n
  BY <1>1, IdsAreBounded
<1>3. IsFiniteSet(0 .. n)
  BY FS_Interval
<1> QED BY <1>2, <1>3, FS_Subset, FS_CardinalityType

\* The log a sweep leaves.
SweptLog(lines, dead) ==
  LinesOf(lines, {"batch", "scope", "skip"})
    \o <<SweptOp(Swept(lines) + Cardinality(dead))>> \o LinesOf(Rewritten(lines, dead), {"edit"})

\* What a sweep leaves is read as the edits that it did not remove.
LEMMA SweptReads ==
  ASSUME NEW lines \in Seq(Line), NEW dead, dead \subseteq Ids(lines)
  PROVE  /\ SweptLog(lines, dead) =
              (LinesOf(lines, {"batch", "scope", "skip"}) \o <<SweptOp(Swept(lines) + Cardinality(dead))>>)
                \o EditsOf(Survivors(lines, dead))
         /\ SweptOp(Swept(lines) + Cardinality(dead)) \in SweptLine
         /\ SweptLog(lines, dead) \in Seq(Line)
         /\ ReadLog(SweptLog(lines, dead)) = Survivors(lines, dead)
<1> DEFINE k == Survivors(lines, dead)
           ops == LinesOf(lines, {"batch", "scope", "skip"})
           count == SweptOp(Swept(lines) + Cardinality(dead))
           E == EditsOf(k)
           R == RetainedOps(lines)
<1>1. k \in Seq(Rec) /\ Pairwise(k, OtherIds) /\ E \in Seq(EditLine) /\ E \in Seq(Line)
  BY SurvivorsOfLog, EditsOfType, SeqMonotonic DEF Line
<1>2. ops \in Seq(OfKind({"batch", "scope", "skip"}))
  BY LinesOfAreOnly
<1>3. ops \in Seq(Line) /\ \A l \in ToSet(ops) : l.t \notin {"edit", "status"}
  BY <1>2, ElementsType, SeqMonotonic DEF OfKind
<1>4. count \in SweptLine /\ count.t = "swept"
  BY SweptType, IdsAreFinite DEF SweptOp, SweptLine
<1>5. R \in Seq(Line) /\ R \in Seq(OfKind({"batch", "scope", "skip", "swept"}))
  BY RetainedOpsType, LinesOfAreOnly DEF RetainedOps
<1>6. Rewritten(lines, dead) = R \o E /\ Rewritten(lines, dead) \in Seq(Line)
  BY RewrittenReads
<1>7. LinesOf(Rewritten(lines, dead), {"edit"}) = E
  <2> HIDE DEF R, E
  <2>1. Only(R \o E, OfKind({"edit"})) = Only(R, OfKind({"edit"})) \o Only(E, OfKind({"edit"}))
    BY <1>1, <1>5, OnlyOfConcat
  <2>2. Only(R, OfKind({"edit"})) = <<>>
    <3>1. OfKind({"batch", "scope", "skip", "swept"}) \cap OfKind({"edit"}) = {}
      BY DEF OfKind
    <3> QED BY <1>5, <3>1, OnlyNone
  <2>3. Only(E, OfKind({"edit"})) = E
    <3>1. EditLine \subseteq OfKind({"edit"})
      BY DEF EditLine, OfKind, Line
    <3> QED BY <1>1, <3>1, OnlyAll
  <2> QED BY <1>1, <1>6, <2>1, <2>2, <2>3, LinesOfAreOnly, ConcatEmptySeq
<1> HIDE DEF k, ops, count, R
<1>8. <<count>> \in Seq(Line) /\ ToSet(<<count>>) = {count}
  BY <1>4 DEF Line, ToSet
<1>9. PICK os : os = ops \o <<count>>
  OBVIOUS
<1>10. os \in Seq(Line) /\ \A l \in ToSet(os) : l.t \notin {"edit", "status"}
  <2>1. ToSet(os) = ToSet(ops) \cup {count}
    <3>1. PICK c \in Seq(Line) : c = <<count>>
      BY <1>8
    <3>2. ToSet(ops \o c) = ToSet(ops) \cup ToSet(c)
      BY <1>3, ElementsOfConcat
    <3> QED BY <1>8, <1>9, <3>1, <3>2, Zenon
  <2> QED BY <1>3, <1>4, <1>8, <1>9, <2>1, ConcatProperties
<1>11. SweptLog(lines, dead) = os \o E
  BY <1>3, <1>7, <1>8, <1>9 DEF SweptLog, ops, count
<1>12. os \o E \in Seq(Line) /\ ReadLog(os \o E) = k
  BY <1>1, <1>10, ConcatProperties, ReadOfEdits
<1> QED BY <1>4, <1>9, <1>11, <1>12 DEF ops, count, k

\* What is left of a log when records are dropped line by line is a log.
LEMMA DroppedRawType ==
  ASSUME NEW lines \in Seq(Line), NEW dead
  PROVE  DroppedRaw(lines, dead) \in Seq(Line)
BY OnlyType DEF DroppedRaw

-----------------------------------------------------------------------------
(* Types.                                                                  *)

Asked == [ids : SUBSET Nat, status : Status \cup {"dropped"}, meant : SUBSET Nat]
Marking == [ids : SUBSET Nat, status : Status, meant : SUBSET Nat]

LogInv ==
  /\ session \in Sessions
  /\ log \in Seq(Line)
  /\ torn \in {"no", "part", "line"} /\ (torn # "no" => session.torn)
  /\ edits \in Nat /\ gaps \in Nat
  /\ rule \in BOOLEAN

\* A front end has read statuses only for a write of a status it is about to append.
JobInv ==
  /\ todo \in [FrontEnds -> Seq(Asked)]
  /\ read \in [FrontEnds -> [changed : Seq(Rec)]]
  /\ \A f \in FrontEnds : read[f] # Nothing => todo[f] # <<>> /\ Head(todo[f]).status \in Status

TypeInv == LogInv /\ JobInv

USE LogAssumption DEF LogAssumption

\* A session starts with pending edits, numbered in the order they were captured, and no front end at work.
LEMMA InitTypeInv == Init => TypeInv
<1> SUFFICES ASSUME Init PROVE TypeInv
  OBVIOUS
<1> USE DEF Init
<1>1. session.log \in Seq([t : {"edit"}, id : Nat, uid : Nat, status : {"pending"}])
  OBVIOUS
<1>2. log \in Seq(EditLine) /\ Len(log) \in Nat
  <2>1. [t : {"edit"}, id : Nat, uid : Nat, status : {"pending"}] \subseteq EditLine
    BY DEF EditLine, Status
  <2> QED BY <1>1, <2>1, SeqMonotonic, LenProperties
<1>3. log \in Seq(Line)
  BY <1>2, SeqMonotonic DEF Line
<1>4. LogInv
  BY <1>2, <1>3 DEF LogInv
<1>5. Nothing \in [changed : Seq(Rec)] /\ <<>> \in Seq(Asked)
  BY EmptySeq DEF Nothing
<1>6. JobInv
  BY <1>5 DEF JobInv
<1> QED BY <1>4, <1>6 DEF TypeInv

\* Before its last line, a log was read as the same edits in the same order, but for the one that line may be.
LEMMA EndedReads ==
  ASSUME NEW base \in Seq(Line), NEW lines \in Seq(Line), lines = base \/ \E l \in Line : lines = Append(base, l)
  PROVE  /\ \A r \in ToSet(ReadLog(base)) : \E q \in ToSet(ReadLog(lines)) : r.uid = q.uid /\ r.id = q.id
         /\ Pairwise(ReadLog(lines), Older) => Pairwise(ReadLog(base), Older)
         /\ Uids(base) \subseteq Uids(lines)
<1> DEFINE P(now) == /\ \A r \in ToSet(ReadLog(base)) : \E q \in ToSet(now) : r.uid = q.uid /\ r.id = q.id
                     /\ Pairwise(now, Older) => Pairwise(ReadLog(base), Older)
<1>1. PICK recs \in Seq(Rec) : recs = ReadLog(base) /\ recs \in Records
  BY ReadType DEF Records, Rec
<1>2. P(recs)
  BY <1>1
<1>3. ASSUME NEW l \in Line PROVE P(Parse(recs, l))
  <2>1. CASE l.t = "edit"
    <3>1. PICK r \in Rec : Parse(recs, l) = Append(recs, r)
      BY <1>1, <2>1, LineKinds, ParseOfEdit
    <3>2. ToSet(Append(recs, r)) = ToSet(recs) \cup {r}
      BY ElementsOfAppend
    <3>3. Pairwise(Append(recs, r), Older) => Pairwise(recs, Older)
      BY PairwiseOfAppend
    <3> QED BY <1>1, <3>1, <3>2, <3>3
  <2>2. CASE l.t = "status"
    <3>1. PICK now \in Seq(Rec) : now = Parse(recs, l)
      BY <1>1, ParseType DEF Records, Rec
    <3>2. l \in StatusLine
      BY <2>2, LineKinds
    <3>3. /\ Len(now) = Len(recs)
          /\ \A i \in 1 .. Len(recs) : now[i].id = recs[i].id /\ now[i].uid = recs[i].uid
      BY <1>1, <3>1, <3>2, ParseOfStatus
    <3>4. DOMAIN now = 1 .. Len(recs) /\ DOMAIN recs = 1 .. Len(recs) /\ \A i \in 1 .. Len(recs) : recs[i] \in Rec
      BY <3>3, LenProperties, ElementOfSeq
    <3>5. \A r \in ToSet(recs) : \E q \in ToSet(now) : r.uid = q.uid /\ r.id = q.id
      BY <3>3, <3>4 DEF ToSet
    <3>6. ASSUME Pairwise(now, Older) PROVE Pairwise(recs, Older)
      <4> SUFFICES ASSUME NEW i \in 1 .. Len(recs), NEW j \in 1 .. Len(recs), i < j
                   PROVE  <<recs[i], recs[j]>> \in Older
        BY <3>4 DEF Pairwise
      <4>1. <<now[i], now[j]>> \in Older
        BY <3>4, <3>6 DEF Pairwise
      <4>2. now[i].uid < now[j].uid
        BY <4>1 DEF Older
      <4> QED BY <3>3, <3>4, <4>2 DEF Older
    <3> QED BY <1>1, <3>1, <3>5, <3>6
  <2>3. CASE l.t \notin {"edit", "status"}
    <3>1. Parse(recs, l) = recs
      BY <1>1, <2>3, ParseOfOther
    <3> QED BY <1>2, <3>1, Zenon
  <2> QED BY <2>1, <2>2, <2>3
<1>4. P(ReadLog(lines))
  <2>1. CASE lines = base
    BY <1>1, <1>2, <2>1, Zenon
  <2>2. CASE \E l \in Line : lines = Append(base, l)
    <3>1. PICK l \in Line : lines = Append(base, l)
      BY <2>2
    <3>2. ReadLog(lines) = Parse(recs, l)
      BY <1>1, <3>1, ReadOfAppend
    <3> HIDE DEF P
    <3> QED BY <1>3, <3>2, Zenon
  <2> QED BY <2>1, <2>2
<1>5. Uids(base) \subseteq Uids(lines)
  BY <1>4 DEF Uids
<1> QED BY <1>4, <1>5

\* All but the last of a longer sequence.
LEMMA FrontOfAppend ==
  ASSUME NEW V, NEW s \in Seq(V), NEW x \in V
  PROVE  Front(Append(s, x)) = s
<1>1. PICK u \in Seq(V) : u = Append(s, x) /\ Len(u) = Len(s) + 1
  <2>1. Append(s, x) \in Seq(V) /\ Len(Append(s, x)) = Len(s) + 1
    BY AppendProperties
  <2> QED BY <2>1
<1>2. Len(s) \in Nat
  BY LenProperties
<1>3. Front(u) = SubSeq(u, 1, Len(s))
  BY <1>1, <1>2 DEF Front
<1>4. SubSeq(u, 1, Len(s)) = s
  <2>1. CASE Len(s) = 0
    <3>1. s = <<>>
      BY <2>1, EmptySeq
    <3> QED BY <2>1, <3>1, SubSeqEmpty
  <2>2. CASE Len(s) # 0
    <3>1. 1 \in 1 .. Len(s) /\ Len(s) \in 1 .. Len(s)
      BY <1>2, <2>2
    <3>2. <<x>> \in Seq(V)
      OBVIOUS
    <3>3. SubSeq(s \o <<x>>, 1, Len(s)) = SubSeq(s, 1, Len(s))
      BY <3>1, <3>2, SubSeqOfConcat1
    <3>4. u = s \o <<x>>
      BY <1>1, AppendIsConcat
    <3> QED BY <3>3, <3>4, SubSeqFull, Zenon
  <2> QED BY <2>1, <2>2
<1> QED BY <1>1, <1>3, <1>4, Zenon

\* All but the last of what is appended to a sequence is that and some of its elements.
EndsIn(s, q, W) == \E r \in Seq(W) : Front(s \o q) = s \o r

\* So it is.
LEMMA FrontOfConcat ==
  ASSUME NEW V, NEW W, NEW s \in Seq(V), NEW q \in Seq(W), W \subseteq V, q # <<>>
  PROVE  EndsIn(s, q, W)
<1>1. PICK r \in Seq(W), x \in W : q = Append(r, x)
  BY SequenceEmptyOrAppend
<1>2. r \in Seq(V) /\ x \in V
  BY SeqMonotonic
<1>3. PICK u \in Seq(V) : u = s \o r
  BY <1>2, ConcatProperties
<1>4. s \o Append(r, x) = Append(u, x)
  <2>1. <<x>> \in Seq(V)
    BY <1>2
  <2>2. s \o (r \o <<x>>) = (s \o r) \o <<x>>
    BY <1>2, <2>1, ConcatAssociative
  <2>3. Append(r, x) = r \o <<x>> /\ Append(u, x) = u \o <<x>>
    BY <1>2, AppendIsConcat
  <2> QED BY <1>3, <2>2, <2>3, Zenon
<1>5. Front(Append(u, x)) = u
  BY <1>2, FrontOfAppend
<1>6. Front(s \o q) = s \o r
  BY <1>1, <1>3, <1>4, <1>5, Zenon
<1> QED BY <1>6 DEF EndsIn

\* The lines before a last one, if that is lost: the front of them, or all.
LEMMA EndedType ==
  ASSUME NEW lines \in Seq(Line), NEW cut
  PROVE  \E base \in Seq(Line) :
           /\ base = IF cut = "line" THEN Front(lines) ELSE lines
           /\ lines = base \/ (cut = "line" /\ \E l \in Line : lines = Append(base, l))
<1>1. CASE cut = "line" /\ lines # <<>>
  <2>1. PICK base \in Seq(Line), l \in Line : lines = Append(base, l)
    BY <1>1, SequenceEmptyOrAppend
  <2> QED BY <1>1, <2>1, FrontOfAppend
<1>2. CASE cut = "line" /\ lines = <<>>
  <2>1. Front(lines) = <<>>
    BY <1>2, EmptySeq, SubSeqEmpty DEF Front
  <2> QED BY <1>2, <2>1, EmptySeq
<1>3. CASE cut # "line"
  BY <1>3
<1> QED BY <1>1, <1>2, <1>3

\* So it is for the lines that an append leaves readable.
LEMMA EndedOfLog ==
  ASSUME LogInv
  PROVE  /\ Ended \in Seq(Line) /\ (Ended = log \/ torn = "line")
         /\ log = Ended \/ \E l \in Line : log = Append(Ended, l)
<1>1. PICK base \in Seq(Line) : /\ base = IF torn = "line" THEN Front(log) ELSE log
                                /\ log = base \/ (torn = "line" /\ \E l \in Line : log = Append(base, l))
  BY EndedType DEF LogInv
<1>2. base = Ended
  BY <1>1, Zenon DEF Ended
<1> QED BY <1>1, <1>2

\* A payload is appended whole, or but for a part at its ends, to the lines that an append leaves readable.
LEMMA Appended ==
  ASSUME LogInv, NEW p \in Seq(Line), AppendLines(p) \/ AppendTorn(p)
  PROVE  /\ \E q, r \in Seq(Line) : log' = Ended \o q /\ Ended' = Ended \o r /\ ToSet(q) \subseteq ToSet(p)
                                    /\ ToSet(r) \subseteq ToSet(p)
         /\ AppendLines(p) /\ torn = "no" => log' = log \o p
         /\ Len(p) = 1 => \/ log' = Ended /\ Ended' = Ended
                          \/ torn = "no" /\ log' = log \o p /\ Ended' \in {log, log'}
         /\ torn' \in {"no", "part", "line"} /\ (torn' # "no" => session.torn)
         /\ log' \in Seq(Line)
<1> DEFINE V == ToSet(p)
<1>0. p \in Seq(V) /\ V \subseteq Line
  BY ElementsType
<1> HIDE DEF V
<1>e. Ended \in Seq(Line) /\ (torn = "no" => Ended = log)
  BY EndedOfLog
<1>1. ASSUME NEW w \in Seq(V)
      PROVE  /\ Glued(w) \in Seq(V) /\ (torn = "no" => Glued(w) = w)
             /\ torn # "no" /\ Len(w) = 1 => Glued(w) = <<>>
             /\ w # <<>> /\ (torn = "no" \/ Len(w) # 1) => Glued(w) # <<>>
             /\ w = <<>> => Glued(w) = <<>>
  <2>1. CASE torn # "no" /\ w # <<>>
    <3>1. Tail(w) \in Seq(V) /\ Len(Tail(w)) = Len(w) - 1 /\ Len(w) \in Nat
      BY <2>1, HeadTailProperties, LenProperties
    <3>2. PICK v \in Seq(V) : v = Tail(w) /\ Len(v) = Len(w) - 1
      BY <3>1
    <3>3. Len(w) = 1 <=> v = <<>>
      <4>1. v = <<>> <=> Len(v) = 0
        BY EmptySeq
      <4> QED BY <3>1, <3>2, <4>1
    <3> QED BY <2>1, <3>2, <3>3, Zenon DEF Glued
  <2>2. CASE torn = "no"
    BY <2>2 DEF Glued
  <2>3. CASE w = <<>>
    BY <2>3, EmptySeq DEF Glued
  <2> QED BY <2>1, <2>2, <2>3
<1>2. \E q \in Seq(V) : /\ log' = Ended \o q
                        /\ AppendLines(p) /\ torn = "no" => q = p
                        /\ Len(p) = 1 => q = <<>> \/ (torn = "no" /\ q = p)
                        /\ torn' = "line" => q # <<>>
                        /\ torn' \in {"no", "part", "line"} /\ (torn' # "no" => session.torn)
  <2>1. CASE AppendTorn(p)
    <3>1. PICK n \in 0 .. Len(p), cut \in {"no", "part", "line"} :
            /\ cut = "no" => n \in 1 .. Len(p) - 1
            /\ cut = "line" => n > 0
            /\ log' = Ended \o Glued(SubSeq(p, 1, n))
            /\ torn' = IF cut = "line" /\ n = 1 /\ torn # "no" THEN "part" ELSE cut
      BY <2>1 DEF AppendTorn
    <3>2. session.torn
      BY <2>1 DEF AppendTorn
    <3>3. PICK w \in Seq(V) : w = SubSeq(p, 1, n) /\ Len(w) = n /\ (n = Len(p) => w = p)
      <4>1. \A i \in 1 .. n : p[i] \in V
        BY <1>0, ElementOfSeq, LenProperties
      <4>2. n \in Int /\ 1 \in Int /\ n \in Nat /\ n - 1 + 1 = n
        BY <1>0, LenProperties
      <4>3. SubSeq(p, 1, n) \in Seq(V) /\ Len(SubSeq(p, 1, n)) = IF 1 <= n THEN n - 1 + 1 ELSE 0
        BY <4>1, <4>2, SubSeqProperties
      <4>4. n = Len(p) => SubSeq(p, 1, n) = p
        <5>1. SubSeq(p, 1, Len(p)) = p
          BY <1>0, SubSeqFull
        <5> QED BY <5>1
      <4>5. (IF 1 <= n THEN n - 1 + 1 ELSE 0) = n
        BY <4>2
      <4> QED BY <4>3, <4>4, <4>5, Zenon
    <3>4. PICK q \in Seq(V) : /\ q = Glued(w) /\ (torn = "no" => q = w)
                              /\ torn # "no" /\ Len(w) = 1 => q = <<>>
                              /\ w # <<>> /\ (torn = "no" \/ Len(w) # 1) => q # <<>>
                              /\ w = <<>> => q = <<>>
      BY <1>1
    <3>5. log' = Ended \o q
      BY <3>1, <3>3, <3>4, Zenon
    <3>6. Len(p) \in Nat /\ (w = <<>> <=> n = 0)
      BY <1>0, <3>3, LenProperties, EmptySeq
    <3>7. Len(p) = 1 => q = <<>> \/ (torn = "no" /\ q = p)
      BY <3>3, <3>4, <3>6
    <3>8. torn' = "line" => q # <<>>
      <4>1. torn' = "line" => n > 0 /\ ~(n = 1 /\ torn # "no")
        BY <3>1
      <4>2. n > 0 => w # <<>>
        BY <3>6
      <4> QED BY <3>3, <3>4, <4>1, <4>2
    <3>9. torn' \in {"no", "part", "line"}
      BY <3>1
    <3>10. AppendLines(p) /\ torn = "no" => q = p
      <4>1. CASE AppendLines(p) /\ torn = "no"
        <5>1. torn' = "no"
          BY <4>1 DEF AppendLines
        <5>2. n \in 1 .. Len(p) - 1 /\ q = w /\ w # p
          BY <3>1, <3>3, <3>4, <3>6, <4>1, <5>1
        <5>3. Ended \o q = Ended \o p
          BY <1>1, <1>0, <3>5, <4>1, Zenon DEF AppendLines
        <5>4. Len(Ended \o q) = Len(Ended) + Len(q) /\ Len(Ended \o p) = Len(Ended) + Len(p)
          <6>1. q \in Seq(Line) /\ p \in Seq(Line)
            BY <1>0, SeqMonotonic
          <6> QED BY <1>e, <6>1, ConcatProperties
        <5>5. Len(Ended) \in Nat /\ Len(q) = n
          BY <1>e, <3>3, <5>2, LenProperties
        <5> QED BY <3>6, <5>2, <5>3, <5>4, <5>5
      <4> QED BY <4>1
    <3> QED BY <3>2, <3>5, <3>7, <3>8, <3>9, <3>10
  <2>2. CASE AppendLines(p)
    <3>1. log' = Ended \o Glued(p) /\ torn' = "no"
      BY <2>2 DEF AppendLines
    <3>2. PICK q \in Seq(V) : q = Glued(p) /\ (torn = "no" => q = p) /\ (torn # "no" /\ Len(p) = 1 => q = <<>>)
      BY <1>0, <1>1
    <3>3. log' = Ended \o q
      BY <3>1, <3>2, Zenon
    <3> QED BY <3>1, <3>2, <3>3
  <2> QED BY <2>1, <2>2
<1>3. PICK q \in Seq(V) : /\ log' = Ended \o q
                          /\ AppendLines(p) /\ torn = "no" => q = p
                          /\ Len(p) = 1 => q = <<>> \/ (torn = "no" /\ q = p)
                          /\ torn' = "line" => q # <<>>
                          /\ torn' \in {"no", "part", "line"} /\ (torn' # "no" => session.torn)
  BY <1>2
<1>4. ASSUME NEW r \in Seq(V) PROVE r \in Seq(Line) /\ ToSet(r) \subseteq ToSet(p) /\ Ended \o r \in Seq(Line)
  <2>1. r \in Seq(Line)
    BY <1>0, SeqMonotonic
  <2>2. ToSet(r) \subseteq V
    BY ElementsType
  <2> QED BY <1>e, <2>1, <2>2, ConcatProperties DEF V
<1>5. PICK r \in Seq(V) : Ended' = Ended \o r /\ (torn' # "line" => r = q)
                          /\ (torn' = "line" => Front(Ended \o q) = Ended \o r)
  <2>1. Ended' = IF torn' = "line" THEN Front(log') ELSE log'
    BY DEF Ended
  <2>2. CASE torn' = "line"
    <3>0. q # <<>>
      BY <1>3, <2>2
    <3>1. PICK r \in Seq(V) : Front(Ended \o q) = Ended \o r
      <4>1. PICK base \in Seq(Line) : base = Ended
        BY <1>e
      <4>2. EndsIn(base, q, V)
        BY <1>0, <3>0, FrontOfConcat
      <4> QED BY <4>1, <4>2, Zenon DEF EndsIn
    <3>2. Ended' = Ended \o r
      BY <1>3, <2>1, <2>2, <3>1, Zenon
    <3> QED BY <2>2, <3>1, <3>2
  <2>3. CASE torn' # "line"
    <3>1. Ended' = Ended \o q
      BY <1>3, <2>1, <2>3, Zenon
    <3> QED BY <2>3, <3>1
  <2> QED BY <2>2, <2>3
<1>6. Ended \o <<>> = Ended
  BY <1>e, ConcatEmptySeq
<1>7. AppendLines(p) /\ torn = "no" => log' = log \o p
  BY <1>3, <1>e, Zenon
<1>8. ASSUME Len(p) = 1
      PROVE  \/ log' = Ended /\ Ended' = Ended
             \/ torn = "no" /\ log' = log \o p /\ Ended' \in {log, log'}
  <2>1. CASE q = <<>>
    <3>1. log' = Ended /\ r = q
      BY <1>3, <1>5, <1>6, <2>1, Zenon
    <3> QED BY <1>5, <1>6, <2>1, <3>1, Zenon
  <2>2. CASE torn = "no" /\ q = p
    <3>1. log' = log \o p /\ Ended = log
      BY <1>3, <1>e, <2>2, Zenon
    <3>2. CASE torn' # "line"
      <4>1. Ended' = log'
        BY <1>3, <1>5, <3>2, Zenon
      <4> QED BY <2>2, <3>1, <4>1
    <3>3. CASE torn' = "line"
      <4>0. p # <<>>
        BY <1>0, <1>8, EmptySeq
      <4>1. PICK s \in Seq(V), x \in V : p = Append(s, x)
        BY <1>0, <4>0, SequenceEmptyOrAppend
      <4>2. s = <<>>
        <5>1. Len(p) = Len(s) + 1 /\ Len(s) \in Nat
          BY <4>1, AppendProperties, LenProperties
        <5>2. PICK m \in Nat : m = Len(s)
          BY <5>1
        <5>3. m + 1 = 1
          BY <1>8, <5>1, <5>2, Zenon
        <5>4. m = 0
          BY <5>3
        <5> QED BY <5>2, <5>4, EmptySeq
      <4>3. p = <<x>> /\ x \in Line /\ log \in Seq(Line)
        BY <1>0, <4>1, <4>2 DEF LogInv
      <4>4. Append(log, x) = log \o <<x>> /\ Front(Append(log, x)) = log
        BY <4>3, AppendIsConcat, FrontOfAppend
      <4>5. Ended' = log
        BY <1>3, <1>5, <2>2, <3>1, <3>3, <4>3, <4>4, Zenon
      <4> QED BY <2>2, <3>1, <4>5
    <3> QED BY <3>2, <3>3
  <2> QED BY <1>3, <1>8, <2>1, <2>2
<1>9. log' \in Seq(Line)
  BY <1>3, <1>4, Zenon
<1>10. \E s, t \in Seq(Line) : log' = Ended \o s /\ Ended' = Ended \o t /\ ToSet(s) \subseteq ToSet(p)
                               /\ ToSet(t) \subseteq ToSet(p)
  BY <1>3, <1>4, <1>5, Zenon
<1> QED BY <1>3, <1>7, <1>8, <1>9, <1>10, Zenon

\* The id given to a capture is a number.
LEMMA NextIdType ==
  ASSUME NEW lines \in Seq(Line)
  PROVE  NextId(lines) \in Nat
<1> DEFINE from == Len(lines) - TailLines + 1
           tail == LinesOf(SubSeq(lines, from, Len(lines)), {"edit"})
           ids  == [i \in DOMAIN tail |-> tail[i].id]
<1>1. CASE from > 1 /\ Len(ids) >= 2 /\ IsIncreasing(ids)
  <2>1. from \in Nat /\ Len(lines) \in Nat
    BY <1>1, LenProperties
  <2>2. SubSeq(lines, from, Len(lines)) \in Seq(Line)
    <3>1. \A i \in from .. Len(lines) : lines[i] \in Line
      BY <1>1, <2>1, ElementOfSeq
    <3> QED BY <2>1, <3>1, SubSeqProperties
  <2>3. tail \in Seq(OfKind({"edit"}))
    BY <2>2, LinesOfAreOnly
  <2> HIDE DEF tail
  <2>4. Len(tail) \in Nat /\ DOMAIN tail = 1 .. Len(tail) /\ \A i \in 1 .. Len(tail) : tail[i] \in OfKind({"edit"})
    BY <2>3, LenProperties, ElementOfSeq
  <2>5. \A i \in 1 .. Len(tail) : tail[i].id \in Nat
    <3>1. \A l \in OfKind({"edit"}) : l.id \in Nat
      BY LineKinds DEF OfKind, EditLine
    <3> QED BY <2>4, <3>1
  <2>6. ids \in Seq(Nat) /\ Len(ids) = Len(tail)
    BY <2>4, <2>5, IsASeq
  <2>7. Last(ids) \in Nat
    <3> HIDE DEF ids
    <3>1. Len(ids) \in 1 .. Len(ids)
      BY <1>1, <2>6, LenProperties
    <3> QED BY <2>6, <3>1, ElementOfSeq DEF Last
  <2>8. NextId(lines) = Last(ids) + 1
    BY <1>1 DEF NextId, tail
  <2> QED BY <2>7, <2>8
<1>2. CASE ~(from > 1 /\ Len(ids) >= 2 /\ IsIncreasing(ids))
  <2>1. NextId(lines) = Max({0} \cup Ids(lines)) + 1
    BY <1>2 DEF NextId
  <2>2. ReadLog(lines) \in Records /\ Ids(lines) = IdsOf(ReadLog(lines))
    BY ReadType DEF Ids, IdsOf, ToSet
  <2>3. PICK n \in Nat : Ids(lines) \subseteq 0 .. n
    BY <2>2, IdsAreBounded
  <2>4. {0} \cup Ids(lines) \subseteq 0 .. n /\ {0} \cup Ids(lines) # {}
    BY <2>3
  <2>5. Max({0} \cup Ids(lines)) \in {0} \cup Ids(lines)
    <3>1. PICK M : M = {0} \cup Ids(lines)
      OBVIOUS
    <3> QED BY <2>4, <3>1, MaxIsGreatest
  <2> QED BY <2>1, <2>4, <2>5
<1> QED BY <1>1, <1>2

\* The payload of a write is status lines of its status, after a journal line of what they change.
LEMMA PayloadType ==
  ASSUME TypeInv, NEW f \in FrontEnds, read[f] # Nothing
  PROVE  /\ Payload(f) \in Seq(Line)
         /\ \A l \in ToSet(Payload(f)) : \/ l.t = "batch"
                                         \/ l.t = "status" /\ l.status = Head(todo[f]).status
<1> DEFINE status == Head(todo[f]).status
           changed == read[f].changed
           ops == [i \in DOMAIN changed |-> StatusOp(changed[i].id, status)]
           prev == [i \in {r.id : r \in ToSet(changed)} |-> (CHOOSE r \in ToSet(changed) : r.id = i).status]
           batch == BatchOp(KindOf(status), prev, {r.uid : r \in ToSet(changed)})
           L == {l \in StatusLine : l.status = status}
<1>1. status \in Status /\ changed \in Seq(Rec)
  BY DEF TypeInv, JobInv
<1> HIDE DEF status, changed
<1>2. Len(changed) \in Nat /\ DOMAIN changed = 1 .. Len(changed) /\ \A i \in 1 .. Len(changed) : changed[i] \in Rec
  BY <1>1, LenProperties, ElementOfSeq
<1>3. ops \in Seq(L)
  <2>1. \A i \in 1 .. Len(changed) : StatusOp(changed[i].id, status) \in L
    BY <1>1, <1>2 DEF StatusOp, StatusLine, Rec
  <2>2. ops \in [1 .. Len(changed) -> L]
    BY <1>2, <2>1
  <2> QED BY <1>2, <2>2, SeqDef
<1>4. batch \in BatchLine
  <2>1. ToSet(changed) \subseteq Rec
    BY <1>1, ElementsType
  <2>2. \A i \in {r.id : r \in ToSet(changed)} : (CHOOSE r \in ToSet(changed) : r.id = i) \in Rec
    BY <2>1
  <2>3. {r.id : r \in ToSet(changed)} \in SUBSET Nat /\ {r.uid : r \in ToSet(changed)} \in SUBSET Nat
    BY <2>1 DEF Rec
  <2>4. prev \in [{r.id : r \in ToSet(changed)} -> Status]
    BY <2>2 DEF Rec
  <2>5. KindOf(status) \in {"keep", "undo", "redo"}
    BY DEF KindOf
  <2> HIDE DEF prev
  <2>6. prev \in UNION {[S -> Status] : S \in SUBSET Nat}
    BY <2>3, <2>4
  <2> QED BY <2>3, <2>5, <2>6 DEF BatchOp, BatchLine
<1> HIDE DEF ops, batch
<1>5. ops \in Seq(Line) /\ ToSet(ops) \subseteq L
  BY <1>3, SeqMonotonic, ElementsType DEF Line
<1>6. CASE Payload(f) = ops
  BY <1>5, <1>6 DEF L, StatusLine, status
<1>7. CASE Payload(f) = <<batch>> \o ops
  <2>0. batch \in Line
    BY <1>4 DEF Line
  <2>1. PICK b \in Seq(Line) : b = <<batch>>
    <3>1. PICK x \in Line : x = batch
      BY <2>0, Zenon
    <3>2. <<x>> \in Seq(Line)
      OBVIOUS
    <3> QED BY <3>1, <3>2, Zenon
  <2>2. ToSet(b) = {batch} /\ batch.t = "batch"
    BY <1>4, <2>1 DEF ToSet, BatchLine
  <2>3. b \o ops \in Seq(Line) /\ ToSet(b \o ops) = ToSet(b) \cup ToSet(ops)
    BY <1>5, ElementsOfConcat, ConcatProperties
  <2>4. Payload(f) \in Seq(Line) /\ ToSet(Payload(f)) = {batch} \cup ToSet(ops)
    BY <1>7, <2>1, <2>2, <2>3, Zenon
  <2> QED BY <1>5, <2>2, <2>4 DEF L, StatusLine, status
<1>8. Payload(f) = ops \/ Payload(f) = <<batch>> \o ops
  BY DEF Payload, ops, batch, status, changed
<1> QED BY <1>6, <1>7, <1>8

\* A front end asks for writes of edits that are in the log.
LEMMA WriteType ==
  ASSUME TypeInv, NEW ids \in SUBSET Ids(log), NEW status \in Status \cup {"dropped"}
  PROVE  /\ Write(ids, status) \in Asked /\ Write(ids, status).ids = ids /\ Write(ids, status).status = status
         /\ status \in Status => Write(ids, status) \in Marking
<1>1. ToSet(ReadLog(log)) \subseteq Rec /\ Ids(log) \subseteq Nat
  BY ReadRecords DEF TypeInv, LogInv
<1>2. ASSUME NEW i \in ids PROVE With(log, i).uid \in Nat
  <2>1. With(log, i) \in ToSet(ReadLog(log))
    BY DEF With, Ids
  <2> QED BY <1>1, <2>1 DEF Rec
<1>3. {With(log, i).uid : i \in ids} \in SUBSET Nat
  BY <1>2
<1> QED BY <1>1, <1>3 DEF Write, Asked, Marking

\* So are the writes, one for each status, that give edits their statuses.
LEMMA GroupedType ==
  ASSUME TypeInv, NEW to, DOMAIN to \in SUBSET Ids(log), \A i \in DOMAIN to : to[i] \in Status, NEW w \in Grouped(to)
  PROVE  w \in Seq(Marking)
<1> DEFINE St == {to[i] : i \in DOMAIN to}
<1>1. PICK o \in [1 .. Cardinality(St) -> St] : w = [k \in DOMAIN o |-> Write({i \in DOMAIN to : to[i] = o[k]}, o[k])]
  BY DEF Grouped
<1>2. St \in SUBSET Status
  OBVIOUS
<1> HIDE DEF St
<1>3. Status = {"pending"} \cup {"kept"} \cup {"undone"}
  BY DEF Status
<1>4. IsFiniteSet(Status)
  BY <1>3, FS_Singleton, FS_Union
<1>5. Cardinality(St) \in Nat
  BY <1>2, <1>4, FS_Subset, FS_CardinalityType
<1>6. ASSUME NEW k \in 1 .. Cardinality(St) PROVE w[k] \in Marking
  <2>1. o[k] \in Status /\ {i \in DOMAIN to : to[i] = o[k]} \in SUBSET Ids(log)
    BY <1>2
  <2>2. w[k] = Write({i \in DOMAIN to : to[i] = o[k]}, o[k])
    BY <1>1
  <2> QED BY <2>1, <2>2, WriteType
<1>7. w \in [1 .. Cardinality(St) -> Marking]
  BY <1>1, <1>6
<1> QED BY <1>5, <1>7, SeqDef

\* The writes of a revert: those that put verdicts back, then those that replay the operation.
LEMMA RevertType ==
  ASSUME TypeInv, NEW f \in FrontEnds, RevertLast(f)
  PROVE  \E w \in Seq(Marking) : Ask(f, w)
<1> DEFINE op == Last(Batches)
           canonical == CASE op.kind = "undo" -> "pending" [] op.kind = "redo" -> "undone" [] OTHER -> "none"
           live == DOMAIN op.prev \cap Ids(log)
           ledger == {i \in live : op.prev[i] # canonical}
           disk == live \ ledger
           replay == CASE op.kind = "undo" ->
                            Grouped([i \in disk \cap WithStatus({"undone"}) |-> BeforeUndone(log, i)])
                       [] op.kind = "redo" ->
                            Grouped([i \in disk \cap WithStatus({"pending"}) |-> "undone"])
                       [] OTHER -> {<<>>}
           Back == Grouped([i \in ledger |-> op.prev[i]])
<1>1. PICK first \in Back, then \in replay :
        Ask(f, [k \in DOMAIN (first \o then) |-> [(first \o then)[k] EXCEPT !.meant = op.of]])
  BY DEF RevertLast
<1>2. Batches # <<>>
  BY DEF RevertLast
<1>3. op \in BatchLine
  <2>1. Batches \in Seq(OfKind({"batch"}))
    BY LinesOfAreOnly DEF Batches, TypeInv, LogInv
  <2>2. Len(Batches) \in 1 .. Len(Batches)
    BY <1>2, <2>1, LenProperties, EmptySeq
  <2>3. op \in OfKind({"batch"})
    BY <2>1, <2>2, ElementOfSeq DEF Last
  <2> HIDE DEF op
  <2> QED BY <2>3, LineKinds DEF OfKind
<1> HIDE DEF op
<1>4. op.of \in SUBSET Nat /\ \A i \in DOMAIN op.prev : op.prev[i] \in Status
  <2>1. PICK b \in BatchLine : b = op
    BY <1>3
  <2>2. b.of \in SUBSET Nat /\ b.prev \in UNION {[ids -> Status] : ids \in SUBSET Nat}
    BY DEF BatchLine
  <2>3. PICK ids : b.prev \in [ids -> Status]
    BY <2>2
  <2> QED BY <2>1, <2>2, <2>3
<1>5. ledger \in SUBSET Ids(log) /\ disk \in SUBSET Ids(log) /\ \A i \in ledger : op.prev[i] \in Status
  BY <1>4
<1> HIDE DEF ledger, disk
<1>6. first \in Seq(Marking)
  <2>1. PICK to : to = [i \in ledger |-> op.prev[i]]
    OBVIOUS
  <2> QED BY <1>1, <1>5, <2>1, GroupedType
<1>7. then \in Seq(Marking)
  <2>1. CASE op.kind = "undo"
    <3>1. then \in Grouped([i \in disk \cap WithStatus({"undone"}) |-> BeforeUndone(log, i)])
      BY <1>1, <2>1
    <3>2. disk \cap WithStatus({"undone"}) \in SUBSET Ids(log)
      BY <1>5
    <3>3. PICK to : to = [i \in disk \cap WithStatus({"undone"}) |-> BeforeUndone(log, i)]
      OBVIOUS
    <3>4. \A i \in DOMAIN to : to[i] \in Status
      BY <3>3, BeforeUndoneType DEF TypeInv, LogInv
    <3> QED BY <3>1, <3>2, <3>3, <3>4, GroupedType
  <2>2. CASE op.kind = "redo"
    <3>1. then \in Grouped([i \in disk \cap WithStatus({"pending"}) |-> "undone"])
      BY <1>1, <2>2
    <3>2. disk \cap WithStatus({"pending"}) \in SUBSET Ids(log)
      BY <1>5
    <3>3. PICK to : to = [i \in disk \cap WithStatus({"pending"}) |-> "undone"]
      OBVIOUS
    <3>4. \A i \in DOMAIN to : to[i] \in Status
      BY <3>3 DEF Status
    <3> QED BY <3>1, <3>2, <3>3, <3>4, GroupedType
  <2>3. CASE op.kind \notin {"undo", "redo"}
    BY <1>1, <2>3, EmptySeq
  <2> QED BY <2>1, <2>2, <2>3
<1>8. PICK w \in Seq(Marking) : w = first \o then
  BY <1>6, <1>7, ConcatProperties
<1>9. [k \in DOMAIN w |-> [w[k] EXCEPT !.meant = op.of]] \in Seq(Marking)
  <2>1. Len(w) \in Nat /\ DOMAIN w = 1 .. Len(w) /\ \A k \in 1 .. Len(w) : w[k] \in Marking
    BY LenProperties, ElementOfSeq
  <2>2. \A k \in 1 .. Len(w) : [w[k] EXCEPT !.meant = op.of] \in Marking
    BY <1>4, <2>1 DEF Marking
  <2>3. [k \in DOMAIN w |-> [w[k] EXCEPT !.meant = op.of]] \in [1 .. Len(w) -> Marking]
    BY <2>1, <2>2
  <2> QED BY <2>1, <2>3, SeqDef
<1> QED BY <1>1, <1>8, <1>9

\* An edit that is captured is a line.
LEMMA NewEditType ==
  ASSUME LogInv
  PROVE  /\ NewEdit \in Seq(Line) /\ Len(NewEdit) = 1
         /\ Edit(NextId(log), edits + 1, "pending") \in EditLine
<1>1. NextId(log) \in Nat /\ edits + 1 \in Nat /\ "pending" \in Status
  BY NextIdType DEF LogInv, Status
<1>2. PICK e : e = Edit(NextId(log), edits + 1, "pending")
  OBVIOUS
<1>3. e \in EditLine
  BY <1>1, <1>2 DEF Edit, EditLine
<1>4. <<e>> \in Seq(Line) /\ Len(<<e>>) = 1
  BY <1>3 DEF Line
<1> QED BY <1>2, <1>3, <1>4 DEF NewEdit

\* What the steps of front ends do to the work in hand.
LEMMA AskType ==
  ASSUME TypeInv, NEW f \in FrontEnds, NEW w \in Seq(Asked), Ask(f, w), Idle(f)
  PROVE  TypeInv'
<1>1. UNCHANGED <<session, log, torn, filed, edits, missed, gaps, rule, read>> /\ todo' = [todo EXCEPT ![f] = w]
  BY DEF Ask
<1>2. LogInv'
  BY <1>1 DEF TypeInv, LogInv
<1>3. JobInv'
  BY <1>1 DEF TypeInv, JobInv, Idle
<1> QED BY <1>2, <1>3 DEF TypeInv

\* Edits with a status are edits of the log.
LEMMA StatusesAreOfLog ==
  ASSUME NEW S
  PROVE  WithStatus(S) \subseteq Ids(log)
BY DEF WithStatus, Ids

\* A verb that decides asks for writes of statuses.
LEMMA DecisionAsks ==
  ASSUME TypeInv, NEW f \in FrontEnds, Keep(f) \/ Undo(f) \/ Redo(f) \/ RevertLast(f)
  PROVE  Ready(f) /\ \E w \in Seq(Marking) : Ask(f, w)
<1>t. log \in Seq(Line)
  BY DEF TypeInv, LogInv
<1>1. ASSUME NEW ids \in SUBSET Ids(log), NEW status \in Status, Ask(f, <<Write(ids, status)>>)
      PROVE  \E w \in Seq(Marking) : Ask(f, w)
  <2>1. PICK w \in Marking : w = Write(ids, status)
    BY WriteType
  <2>2. PICK one \in Seq(Marking) : one = <<w>>
    BY OneElement
  <2> QED BY <1>1, <2>1, <2>2, Zenon
<1>2. CASE Keep(f)
  BY <1>1, <1>2, StatusesAreOfLog DEF Keep, Status
<1>3. CASE Undo(f)
  BY <1>1, <1>3, StatusesAreOfLog DEF Undo, Status
<1>4. CASE Redo(f)
  <2>1. PICK ids \in SUBSET WithStatus({"undone"}) : \E w \in Grouped([i \in ids |-> BeforeUndone(log, i)]) : Ask(f, w)
    BY <1>4 DEF Redo
  <2>2. PICK to : to = [i \in ids |-> BeforeUndone(log, i)]
    OBVIOUS
  <2>3. DOMAIN to \in SUBSET Ids(log) /\ \A i \in DOMAIN to : to[i] \in Status
    BY <1>t, <2>2, BeforeUndoneType, StatusesAreOfLog
  <2>4. PICK w \in Grouped(to) : Ask(f, w)
    BY <2>1, <2>2
  <2> QED BY <1>4, <2>3, <2>4, GroupedType DEF Redo
<1>5. CASE RevertLast(f)
  BY <1>5, RevertType DEF RevertLast
<1> QED BY <1>2, <1>3, <1>4, <1>5

\* The edits that a command's walk recorded under two cases of a drive letter.
Phantoms == {p[1] : p \in session.phantoms} \cup {p[2] : p \in session.phantoms}

\* Of the edits in the log, those that a write to drop records names are phantoms.
NamesPhantoms(ids) ==
  /\ session.phantoms # {}
  /\ ids \subseteq Ids(log)
  /\ \A r \in ToSet(ReadLog(log)) : r.id \in ids => r.uid \in Phantoms

\* The repair asks for the phantoms it found to be dropped.
LEMMA RepairAsks ==
  ASSUME TypeInv, NEW f \in FrontEnds, Repair(f)
  PROVE  Ready(f) /\ \E w \in Asked : Ask(f, <<w>>) /\ NamesPhantoms(w.ids)
<1> DEFINE Pending(u) == \E r \in ToSet(ReadLog(log)) : r.uid = u /\ r.status = "pending"
           pairs == {p \in session.phantoms : \A u \in {p[1], p[2]} : Pending(u)}
           doomed == {Of(log, p[1]).id : p \in pairs} \cup {Of(log, p[2]).id : p \in pairs}
<1>t. log \in Seq(Line)
  BY DEF TypeInv, LogInv
<1>1. Ready(f) /\ doomed # {} /\ Ask(f, <<Write(doomed, "dropped")>>)
  BY DEF Repair
<1>2. ASSUME NEW u, Pending(u)
      PROVE  /\ Of(log, u) \in ToSet(ReadLog(log)) /\ Of(log, u).uid = u /\ Of(log, u).id \in Ids(log)
             /\ \A r \in ToSet(ReadLog(log)) : r.id = Of(log, u).id => r.uid = u
  <2>1. Of(log, u) \in ToSet(ReadLog(log)) /\ Of(log, u).uid = u
    BY <1>2 DEF Of
  <2>2. \A r, q \in ToSet(ReadLog(log)) : r.id = q.id => r = q
    BY <1>t, IdsTell
  <2> QED BY <2>1, <2>2 DEF Ids
<1>3. \A p \in pairs : Pending(p[1]) /\ Pending(p[2]) /\ p[1] \in Phantoms /\ p[2] \in Phantoms
  BY DEF Phantoms
<1>4. doomed \subseteq Ids(log)
  BY <1>2, <1>3
<1>5. \A r \in ToSet(ReadLog(log)) : r.id \in doomed => r.uid \in Phantoms
  BY <1>2, <1>3
<1>6. session.phantoms # {}
  BY <1>1
<1> HIDE DEF doomed
<1>7. PICK w \in Asked : w = Write(doomed, "dropped") /\ w.ids = doomed
  BY <1>4, WriteType
<1>8. Ask(f, <<w>>)
  BY <1>1, <1>7, Zenon
<1>9. NamesPhantoms(w.ids)
  BY <1>4, <1>5, <1>6, <1>7 DEF NamesPhantoms
<1> QED BY <1>1, <1>8, <1>9

\* Every step keeps the types.
LEMMA StepTypeInv == TypeInv /\ [Next]_vars => TypeInv'
<1> SUFFICES ASSUME TypeInv, [Next]_vars PROVE TypeInv'
  OBVIOUS
<1>t. LogInv /\ JobInv /\ log \in Seq(Line) /\ session \in Sessions
  BY DEF TypeInv, LogInv
<1>1. ASSUME NEW p \in Seq(Line), AppendLines(p) \/ AppendTorn(p), UNCHANGED <<session, rule, todo, read>>,
             edits' \in Nat, gaps' \in Nat
      PROVE  TypeInv'
  <2>1. log' \in Seq(Line) /\ torn' \in {"no", "part", "line"} /\ (torn' # "no" => session.torn)
    BY <1>1, <1>t, Appended
  <2>2. LogInv'
    BY <1>1, <1>t, <2>1 DEF LogInv
  <2>3. JobInv'
    BY <1>1, <1>t DEF JobInv
  <2> QED BY <2>2, <2>3 DEF TypeInv
<1>2. ASSUME log' \in Seq(Line), torn' = "no", UNCHANGED <<session, edits, gaps, rule, todo, read>>
      PROVE  TypeInv'
  <2>1. LogInv'
    BY <1>2, <1>t DEF LogInv
  <2>2. JobInv'
    BY <1>2, <1>t DEF JobInv
  <2> QED BY <2>1, <2>2 DEF TypeInv
<1>3. CASE CaptureEdit
  <2>1. AppendLines(NewEdit) /\ UNCHANGED <<session, rule, todo, read>> /\ edits' = edits + 1 /\ gaps' = gaps
    BY <1>3 DEF CaptureEdit
  <2> QED BY <1>1, <1>t, <2>1, NewEditType DEF LogInv
<1>4. CASE CaptureTorn
  <2>1. AppendTorn(NewEdit) /\ UNCHANGED <<session, rule, todo, read>> /\ edits' = edits + 1 /\ gaps' = gaps
    BY <1>4 DEF CaptureTorn
  <2> QED BY <1>1, <1>t, <2>1, NewEditType DEF LogInv
<1>5. CASE ReportSkip
  <2>1. UNCHANGED <<session, rule, todo, read, edits>> /\ gaps' \in {gaps, gaps + 1}
    BY <1>5 DEF ReportSkip
  <2>2. CASE AppendLines(<<SkipOp(gaps + 1)>>) \/ AppendTorn(<<SkipOp(gaps + 1)>>)
    <3>1. SkipOp(gaps + 1) \in Line
      BY <1>t DEF LogInv, SkipOp, SkipLine, Line
    <3>2. PICK p \in Seq(Line) : p = <<SkipOp(gaps + 1)>>
      BY <3>1, OneElement
    <3>3. (AppendLines(p) \/ AppendTorn(p)) /\ edits' \in Nat /\ gaps' \in Nat
      BY <1>t, <2>1, <2>2, <3>2 DEF LogInv
    <3> QED BY <1>1, <2>1, <3>3
  <2>3. CASE UNCHANGED <<log, torn>>
    <3>1. LogInv'
      BY <1>t, <2>1, <2>3 DEF LogInv
    <3>2. JobInv'
      BY <1>t, <2>1 DEF JobInv
    <3> QED BY <3>1, <3>2 DEF TypeInv
  <2> QED BY <1>5, <2>2, <2>3 DEF ReportSkip
<1>6. CASE WriteRule
  <2>1. LogInv'
    BY <1>6, <1>t DEF LogInv, WriteRule
  <2>2. JobInv'
    BY <1>6, <1>t DEF JobInv, WriteRule
  <2> QED BY <2>1, <2>2 DEF TypeInv
<1>7. CASE Sweep
  <2>1. PICK dead \in SUBSET Ids(log) : log' = SweptLog(log, dead)
    BY <1>7 DEF Sweep, SweptLog, Ids
  <2>2. log' \in Seq(Line)
    BY <1>t, <2>1, SweptReads
  <2>3. torn' = "no" /\ UNCHANGED <<session, edits, gaps, rule, todo, read>>
    BY <1>7 DEF Sweep
  <2> QED BY <1>2, <2>2, <2>3
<1>8. ASSUME NEW f \in FrontEnds, Keep(f) \/ Undo(f) \/ Redo(f) \/ RevertLast(f) PROVE TypeInv'
  <2>1. PICK w \in Seq(Marking) : Ready(f) /\ Ask(f, w)
    BY <1>8, DecisionAsks
  <2>2. Marking \subseteq Asked
    BY DEF Marking, Asked
  <2>3. w \in Seq(Asked)
    BY <2>2, SeqMonotonic
  <2> QED BY <2>1, <2>3, AskType DEF Ready
<1>12. ASSUME NEW f \in FrontEnds, Repair(f) PROVE TypeInv'
  <2>1. PICK w \in Asked : Ready(f) /\ Ask(f, <<w>>)
    BY <1>12, RepairAsks
  <2>2. <<w>> \in Seq(Asked)
    BY OneElement
  <2> QED BY <2>1, <2>2, AskType DEF Ready
<1>13. ASSUME NEW f \in FrontEnds, ReadStatuses(f) PROVE TypeInv'
  <2> DEFINE want == Head(todo[f])
             changed == Only(ReadLog(log), {r \in ToSet(ReadLog(log)) : r.id \in want.ids /\ r.status # want.status})
  <2>1. todo[f] # <<>> /\ ~Dropping(f) /\ read[f] = Nothing
    BY <1>13 DEF ReadStatuses, Idle
  <2>2. want \in Asked /\ Tail(todo[f]) \in Seq(Asked)
    BY <1>t, <2>1, HeadTailProperties DEF JobInv
  <2>3. want.status \in Status
    BY <2>1, <2>2 DEF Dropping, Idle, Asked
  <2>4. changed \in Seq(Rec)
    BY <1>t, ReadRecords, OnlyType
  <2>5. \/ todo' = [todo EXCEPT ![f] = Tail(@)] /\ UNCHANGED read
        \/ read' = [read EXCEPT ![f] = [changed |-> changed]] /\ UNCHANGED todo
    BY <1>13 DEF ReadStatuses
  <2> HIDE DEF changed
  <2>6. JobInv'
    <3>1. CASE todo' = [todo EXCEPT ![f] = Tail(@)] /\ UNCHANGED read
      BY <1>t, <2>1, <2>2, <3>1 DEF JobInv
    <3>2. CASE read' = [read EXCEPT ![f] = [changed |-> changed]] /\ UNCHANGED todo
      <4>1. PICK x \in [changed : Seq(Rec)] : x = [changed |-> changed]
        BY <2>4
      <4>2. read' = [read EXCEPT ![f] = x] /\ todo' = todo
        BY <3>2, <4>1
      <4> QED BY <1>t, <2>1, <2>3, <4>2 DEF JobInv
    <3> QED BY <2>5, <3>1, <3>2
  <2>7. LogInv'
    BY <1>13, <1>t DEF LogInv, ReadStatuses
  <2> QED BY <2>6, <2>7 DEF TypeInv
<1>14. ASSUME NEW f \in FrontEnds, NEW w \in Seq(Asked),
              todo' = [todo EXCEPT ![f] = w], read' = [read EXCEPT ![f] = Nothing]
       PROVE  JobInv'
  <2>1. Nothing \in [changed : Seq(Rec)]
    BY EmptySeq DEF Nothing
  <2> QED BY <1>14, <1>t, <2>1 DEF JobInv
<1>15. ASSUME NEW f \in FrontEnds, AppendStatuses(f) PROVE TypeInv'
  <2>1. read[f] # Nothing /\ AppendLines(Payload(f)) /\ UNCHANGED <<session, edits, gaps, rule>>
    BY <1>15 DEF AppendStatuses
  <2>2. Payload(f) \in Seq(Line)
    BY <2>1, PayloadType
  <2>3. log' \in Seq(Line) /\ torn' \in {"no", "part", "line"} /\ (torn' # "no" => session.torn)
    BY <1>t, <2>1, <2>2, Appended
  <2>4. LogInv'
    BY <1>t, <2>1, <2>3 DEF LogInv
  <2>5. Tail(todo[f]) \in Seq(Asked)
    BY <1>t, <2>1, HeadTailProperties DEF JobInv
  <2>6. JobInv'
    BY <1>14, <1>15, <2>5 DEF AppendStatuses
  <2> QED BY <2>4, <2>6 DEF TypeInv
<1>16. ASSUME NEW f \in FrontEnds, Abandon(f) PROVE TypeInv'
  <2>1. UNCHANGED <<session, edits, gaps, rule>>
    BY <1>16 DEF Abandon
  <2>2. log' \in Seq(Line) /\ torn' \in {"no", "part", "line"} /\ (torn' # "no" => session.torn)
    <3>1. CASE UNCHANGED <<log, torn>>
      BY <1>t, <3>1 DEF LogInv
    <3>2. CASE read[f] # Nothing /\ AppendTorn(Payload(f))
      BY <1>t, <3>2, PayloadType, Appended
    <3> QED BY <1>16, <3>1, <3>2 DEF Abandon
  <2>3. LogInv'
    BY <1>t, <2>1, <2>2 DEF LogInv
  <2>4. JobInv'
    BY <1>14, <1>16, EmptySeq DEF Abandon
  <2> QED BY <2>3, <2>4 DEF TypeInv
<1>20. ASSUME NEW f \in FrontEnds, DropRecords(f) PROVE TypeInv'
  <2>1. log' \in Seq(Line)
    BY <1>20, <1>t, DroppedRawType DEF DropRecords
  <2>2. LogInv'
    BY <1>20, <1>t, <2>1 DEF LogInv, DropRecords
  <2>3. todo[f] # <<>> /\ Head(todo[f]).status \notin Status
    BY <1>20 DEF DropRecords, Dropping, Idle, Status
  <2>4. Tail(todo[f]) \in Seq(Asked)
    BY <1>t, <2>3, HeadTailProperties DEF JobInv
  <2>5. read[f] = Nothing
    BY <1>t, <2>3 DEF JobInv
  <2>6. todo' = [todo EXCEPT ![f] = Tail(todo[f])] /\ read' = read
    BY <1>20 DEF DropRecords
  <2>7. JobInv'
    BY <1>t, <2>4, <2>5, <2>6 DEF JobInv
  <2> QED BY <2>2, <2>7 DEF TypeInv
<1>17. ASSUME NEW f \in FrontEnds, Assign(f) PROVE TypeInv'
  <2>1. PICK i \in Ids(log) : AppendLines(<<ScopeOp({i})>>) \/ AppendTorn(<<ScopeOp({i})>>)
    BY <1>17 DEF Assign
  <2>2. ScopeOp({i}) \in Line
    BY <1>t, <2>1, ReadRecords DEF ScopeOp, ScopeLine, Line
  <2>3. PICK p \in Seq(Line) : p = <<ScopeOp({i})>>
    BY <2>2, OneElement
  <2>4. UNCHANGED <<session, rule, todo, read, edits, gaps>>
    BY <1>17 DEF Assign
  <2> QED BY <1>1, <1>t, <2>1, <2>3, <2>4 DEF LogInv
<1>18. ASSUME NEW f \in FrontEnds, Clear(f) PROVE TypeInv'
  <2>1. PICK ids : log' = Rewritten(log, ids)
    BY <1>18 DEF Clear
  <2>2. log' \in Seq(Line)
    BY <1>t, <2>1, RewrittenReads
  <2>3. torn' = "no" /\ UNCHANGED <<session, edits, gaps, rule, todo, read>>
    BY <1>18 DEF Clear
  <2> QED BY <1>2, <2>2, <2>3
<1>19. CASE UNCHANGED vars
  <2>1. LogInv'
    BY <1>19, <1>t DEF LogInv, vars
  <2>2. JobInv'
    BY <1>19, <1>t DEF JobInv, vars
  <2> QED BY <2>1, <2>2 DEF TypeInv
<1> QED BY <1>3, <1>4, <1>5, <1>6, <1>7, <1>8, <1>12, <1>13, <1>15, <1>16, <1>17, <1>18, <1>19,
           <1>20 DEF Next

\* The log is made of lines, and what front ends have in hand is of its type.
THEOREM Typed == Spec => []TypeInv
<1>1. Init => TypeInv
  BY InitTypeInv
<1>2. TypeInv /\ [Next]_vars => TypeInv'
  BY StepTypeInv
<1> QED BY <1>1, <1>2, PTL DEF Spec

-----------------------------------------------------------------------------
(* What a step may do to the log.                                          *)

\* A payload of status lines that all write one status, and their journal line.
Marks(q, st) == \A l \in ToSet(q) : l.t = "batch" \/ (l.t = "status" /\ l.status = st)

\* A payload that is about no edit: an attribution or a capture gap.
Remarks(q) == \A l \in ToSet(q) : l.t \in {"scope", "skip"}

\* A step that leaves the log.
Leaves == UNCHANGED <<log, torn, edits, missed>>

\* A captured edit is appended to a log whose last line is ended.
Captures ==
  /\ log' = log \o NewEdit /\ Ended' \in {log, log'}
  /\ torn = "no"
  /\ edits' = edits + 1 /\ edits < session.edits
  /\ Miss

\* Verdicts, or remarks, are appended to the lines that are ended; r: those of them that are ended again.
Appends(q, r) ==
  /\ log' = Ended \o q /\ Ended' = Ended \o r
  /\ \E p \in Seq(Line) :
       /\ ToSet(q) \subseteq ToSet(p) /\ ToSet(r) \subseteq ToSet(p)
       /\ Remarks(p) \/ \E st \in Status : Marks(p, st)
       /\ ~session.torn /\ gaps' = gaps => \A l \in ToSet(p) : l.t # "skip"
  /\ edits' = edits \/ (edits' = edits + 1 /\ edits < session.edits)
  /\ Miss

\* The log is rewritten in one of three ways.
Cleared == \E f \in FrontEnds :
             Clear(f) /\ \E ids \in SUBSET WithStatus({"kept", "undone"}) : log' = Rewritten(log, ids)
SweptAway == Sweep /\ \E dead \in SUBSET Ids(log) :
               /\ dead = {r.id : r \in {q \in ToSet(ReadLog(log)) : q.uid \in Ignored}}
               /\ log' = SweptLog(log, dead)
Dropped == \E f \in FrontEnds : DropRecords(f) /\ log' = DroppedRaw(log, Head(todo[f]).ids)

\* A rewrite is one of the three, and ends the last line.
LEMMA RewriteSteps ==
  ASSUME Rewrites
  PROVE  torn' = "no" /\ UNCHANGED <<edits, missed>> /\ (Cleared \/ SweptAway \/ Dropped)
<1>1. CASE Sweep
  <2> DEFINE dead == {r.id : r \in {q \in ToSet(ReadLog(log)) : q.uid \in Ignored}}
  <2>1. log' = SweptLog(log, dead) /\ torn' = "no" /\ UNCHANGED <<edits, missed>>
    BY <1>1 DEF Sweep, SweptLog
  <2>2. dead \in SUBSET Ids(log)
    BY DEF Ids
  <2> QED BY <1>1, <2>1, <2>2 DEF SweptAway
<1>2. ASSUME NEW f \in FrontEnds, Clear(f)
      PROVE  torn' = "no" /\ UNCHANGED <<edits, missed>> /\ Cleared
  <2>1. torn' = "no" /\ UNCHANGED <<edits, missed>>
    BY <1>2 DEF Clear
  <2>2. \E ids \in SUBSET WithStatus({"kept", "undone"}) : log' = Rewritten(log, ids)
    BY <1>2 DEF Clear
  <2> QED BY <1>2, <2>1, <2>2 DEF Cleared
<1>3. ASSUME NEW f \in FrontEnds, DropRecords(f)
      PROVE  torn' = "no" /\ UNCHANGED <<edits, missed>> /\ Dropped
  BY <1>3 DEF DropRecords, Dropped
<1> QED BY <1>1, <1>2, <1>3, Zenon DEF Rewrites

\* Verdicts and remarks are appended.
LEMMA PayloadAppended ==
  ASSUME LogInv, NEW p \in Seq(Line), AppendLines(p) \/ AppendTorn(p), Miss, edits' = edits,
         Remarks(p) \/ \E st \in Status : Marks(p, st),
         ~session.torn /\ gaps' = gaps => \A l \in ToSet(p) : l.t # "skip"
  PROVE  \E q, r \in Seq(Line) : Appends(q, r)
<1>1. PICK q, r \in Seq(Line) : log' = Ended \o q /\ Ended' = Ended \o r /\ ToSet(q) \subseteq ToSet(p)
                                /\ ToSet(r) \subseteq ToSet(p)
  BY Appended
<1> HIDE DEF Remarks, Marks
<1>2. Appends(q, r)
  BY <1>1 DEF Appends
<1> QED BY <1>2

\* A captured edit is appended, or lost.
LEMMA EditAppended ==
  ASSUME LogInv, AppendLines(NewEdit) \/ AppendTorn(NewEdit), edits' = edits + 1, edits < session.edits, Miss
  PROVE  Captures \/ \E q, r \in Seq(Line) : Appends(q, r)
<1>1. \/ log' = Ended /\ Ended' = Ended
      \/ torn = "no" /\ log' = log \o NewEdit /\ Ended' \in {log, log'}
  BY Appended, NewEditType
<1>2. CASE log' = Ended /\ Ended' = Ended
  <2>1. PICK none \in Seq(Line) : none = <<>> /\ ToSet(none) = {}
    BY EmptySeq, ElementsOfEmpty
  <2>2. Ended \o none = Ended
    BY <2>1, EndedOfLog, ConcatEmptySeq
  <2>3. Remarks(none) /\ \A l \in ToSet(none) : l.t # "skip"
    BY <2>1 DEF Remarks
  <2>4. Appends(none, none)
    BY <1>2, <2>2, <2>3 DEF Appends
  <2> QED BY <2>4
<1>3. CASE torn = "no" /\ log' = log \o NewEdit /\ Ended' \in {log, log'}
  BY <1>3 DEF Captures
<1> QED BY <1>1, <1>2, <1>3

\* Nothing is lost by what leaves the log and captures nothing.
LEMMA NoneMissed ==
  ASSUME LogInv, UNCHANGED <<log, torn, edits>>, Miss
  PROVE  Leaves
<1>1. missed' = missed \cup ((Uids(log) \cup (edits + 1) .. edits) \ Uids(log))
  BY Zenon DEF Miss
<1>2. (edits + 1) .. edits = {}
  BY DEF LogInv
<1>3. missed' = missed
  BY <1>1, <1>2
<1> QED BY <1>3 DEF Leaves

\* What a step does to the log.
LEMMA LogSteps ==
  ASSUME TypeInv, [Next]_vars
  PROVE  \/ Leaves
         \/ ~Rewrites /\ Captures
         \/ ~Rewrites /\ \E q, r \in Seq(Line) : Appends(q, r)
         \/ torn' = "no" /\ UNCHANGED <<edits, missed>> /\ Rewrites /\ (Cleared \/ SweptAway \/ Dropped)
<1> SUFFICES ASSUME ~Rewrites PROVE Leaves \/ Captures \/ \E q, r \in Seq(Line) : Appends(q, r)
  BY RewriteSteps, Zenon
<1>t. LogInv /\ log \in Seq(Line) /\ gaps \in Nat
  BY DEF TypeInv, LogInv
<1>1. CASE CaptureEdit
  BY <1>1, <1>t, EditAppended DEF CaptureEdit
<1>2. CASE CaptureTorn
  BY <1>2, <1>t, EditAppended DEF CaptureTorn
<1>3. CASE ReportSkip
  <2>0. edits' = edits /\ Miss
    BY <1>3 DEF ReportSkip
  <2>1. CASE /\ AppendLines(<<SkipOp(gaps + 1)>>) \/ AppendTorn(<<SkipOp(gaps + 1)>>)
             /\ ~session.torn => gaps' # gaps
    <3>1. SkipOp(gaps + 1) \in Line /\ SkipOp(gaps + 1).t = "skip"
      BY <1>t DEF LogInv, SkipOp, SkipLine, Line
    <3>2. PICK p \in Seq(Line) : p = <<SkipOp(gaps + 1)>> /\ ToSet(p) = {SkipOp(gaps + 1)}
      BY <3>1, OneElement
    <3>3. Remarks(p) /\ (AppendLines(p) \/ AppendTorn(p))
      BY <2>1, <3>1, <3>2 DEF Remarks
    <3> QED BY <1>t, <2>0, <2>1, <3>3, PayloadAppended
  <2>2. CASE UNCHANGED <<log, torn>>
    BY <1>t, <2>0, <2>2, NoneMissed
  <2>3. AppendLines(<<SkipOp(gaps + 1)>>) /\ gaps' = gaps + 1 => gaps' # gaps
    BY <1>t
  <2>4. AppendTorn(<<SkipOp(gaps + 1)>>) => session.torn
    BY DEF AppendTorn
  <2> QED BY <1>3, <2>1, <2>2, <2>3, <2>4 DEF ReportSkip
<1>4. CASE WriteRule
  BY <1>4 DEF WriteRule, Leaves
<1>6. ASSUME NEW f \in FrontEnds, NEW w, Ask(f, w) PROVE Leaves
  BY <1>6 DEF Ask, Leaves
<1>7. ASSUME NEW f \in FrontEnds, Keep(f) \/ Undo(f) \/ Redo(f) \/ RevertLast(f) PROVE Leaves
  BY <1>6, <1>7, DecisionAsks
<1>9. ASSUME NEW f \in FrontEnds, Repair(f) PROVE Leaves
  BY <1>6, <1>9, RepairAsks
<1>10. ASSUME NEW f \in FrontEnds, ReadStatuses(f) PROVE Leaves
  BY <1>10 DEF ReadStatuses, Leaves
<1>11. ASSUME NEW f \in FrontEnds, read[f] # Nothing, AppendLines(Payload(f)) \/ AppendTorn(Payload(f)),
              edits' = edits, Miss
       PROVE  \E q, r \in Seq(Line) : Appends(q, r)
  <2>1. PICK p \in Seq(Line) : /\ p = Payload(f)
                               /\ \A l \in ToSet(p) : l.t = "batch" \/ (l.t = "status" /\ l.status = Head(todo[f]).status)
    BY <1>11, PayloadType
  <2>2. Marks(p, Head(todo[f]).status) /\ Head(todo[f]).status \in Status /\ \A l \in ToSet(p) : l.t # "skip"
    BY <1>11, <2>1 DEF Marks, TypeInv, JobInv
  <2>3. AppendLines(p) \/ AppendTorn(p)
    BY <1>11, <2>1
  <2> QED BY <1>11, <1>t, <2>2, <2>3, PayloadAppended
<1>12. ASSUME NEW f \in FrontEnds, AppendStatuses(f) PROVE \E q, r \in Seq(Line) : Appends(q, r)
  BY <1>11, <1>12 DEF AppendStatuses
<1>13. ASSUME NEW f \in FrontEnds, Abandon(f) PROVE Leaves \/ \E q, r \in Seq(Line) : Appends(q, r)
  <2>1. edits' = edits /\ Miss
    BY <1>13 DEF Abandon
  <2>2. CASE UNCHANGED <<log, torn>>
    BY <1>t, <2>1, <2>2, NoneMissed
  <2>3. CASE read[f] # Nothing /\ AppendTorn(Payload(f))
    BY <1>11, <2>1, <2>3
  <2> QED BY <1>13, <2>2, <2>3 DEF Abandon
<1>14. ASSUME NEW f \in FrontEnds, Assign(f) PROVE \E q, r \in Seq(Line) : Appends(q, r)
  <2>1. PICK i \in Ids(log) : AppendLines(<<ScopeOp({i})>>) \/ AppendTorn(<<ScopeOp({i})>>)
    BY <1>14 DEF Assign
  <2>2. ScopeOp({i}) \in Line /\ ScopeOp({i}).t = "scope"
    BY <1>t, <2>1, ReadRecords DEF ScopeOp, ScopeLine, Line
  <2>3. PICK p \in Seq(Line) : p = <<ScopeOp({i})>> /\ ToSet(p) = {ScopeOp({i})}
    BY <2>2, OneElement
  <2>4. Remarks(p) /\ (\A l \in ToSet(p) : l.t # "skip") /\ (AppendLines(p) \/ AppendTorn(p))
    BY <2>1, <2>2, <2>3 DEF Remarks
  <2>5. edits' = edits /\ Miss
    BY <1>14 DEF Assign
  <2> QED BY <1>t, <2>4, <2>5, PayloadAppended
<1>17. CASE UNCHANGED vars
  BY <1>17 DEF vars, Leaves
<1>18. CASE \E f \in FrontEnds : \/ Keep(f) \/ Undo(f) \/ Redo(f) \/ RevertLast(f) \/ ReadStatuses(f)
                                 \/ AppendStatuses(f) \/ Abandon(f) \/ Assign(f) \/ Clear(f)
                                 \/ Repair(f) \/ DropRecords(f)
  BY <1>7, <1>9, <1>10, <1>12, <1>13, <1>14, <1>18 DEF Rewrites
<1> QED BY <1>1, <1>2, <1>3, <1>4, <1>17, <1>18 DEF Next, Rewrites

-----------------------------------------------------------------------------
(* The lines of a kind, through appends and rewrites.                      *)

\* The lines of some kinds in two logs in a row are those of the one and those of the other.
InARow(s, t, kinds) == LinesOf(s \o t, kinds) = LinesOf(s, kinds) \o LinesOf(t, kinds)

\* So they are.
LEMMA KindOfConcat == ASSUME NEW s \in Seq(Line), NEW t \in Seq(Line), NEW kinds PROVE InARow(s, t, kinds)
<1>1. s \o t \in Seq(Line)
  BY ConcatProperties
<1>2. PICK u \in Seq(Line) : u = s \o t
  BY <1>1
<1>3. LinesOf(u, kinds) = Only(u, OfKind(kinds))
  BY LinesOfAreOnly
<1>4. LinesOf(s, kinds) = Only(s, OfKind(kinds)) /\ LinesOf(t, kinds) = Only(t, OfKind(kinds))
  BY LinesOfAreOnly
<1>5. Only(s \o t, OfKind(kinds)) = Only(s, OfKind(kinds)) \o Only(t, OfKind(kinds))
  BY OnlyOfConcat
<1> QED BY <1>2, <1>3, <1>4, <1>5, Zenon DEF InARow

\* Of lines of several kinds, those of some of these kinds.
LEMMA KindOfKind ==
  ASSUME NEW s \in Seq(Line), NEW more, NEW kinds, kinds \subseteq more
  PROVE  LinesOf(LinesOf(s, more), kinds) = LinesOf(s, kinds)
<1>1. OfKind(more) \cap OfKind(kinds) = OfKind(kinds)
  BY DEF OfKind
<1>2. LinesOf(s, more) = Only(s, OfKind(more)) /\ LinesOf(s, kinds) = Only(s, OfKind(kinds))
  BY LinesOfAreOnly
<1>3. Only(s, OfKind(more)) \in Seq(Line)
  BY OnlyType
<1>4. LinesOf(Only(s, OfKind(more)), kinds) = Only(Only(s, OfKind(more)), OfKind(kinds))
  BY <1>3, LinesOfAreOnly
<1>5. Only(Only(s, OfKind(more)), OfKind(kinds)) = Only(s, OfKind(more) \cap OfKind(kinds))
  BY OnlyOfOnly
<1> QED BY <1>1, <1>2, <1>4, <1>5, Zenon

\* There are no lines of a kind where no line is of it.
LEMMA NoneOfKind ==
  ASSUME NEW s \in Seq(Line), NEW kinds, \A l \in ToSet(s) : l.t \notin kinds
  PROVE  LinesOf(s, kinds) = <<>>
<1>1. s \in Seq(ToSet(s)) /\ ToSet(s) \cap OfKind(kinds) = {}
  BY ElementsType DEF OfKind
<1>2. Only(s, OfKind(kinds)) = <<>>
  BY <1>1, OnlyNone
<1> QED BY <1>2, LinesOfAreOnly

\* A rewrite keeps every line that is not about an edit.
LEMMA KindOfRewritten ==
  ASSUME NEW lines \in Seq(Line), NEW dropped, NEW kinds, kinds \subseteq {"batch", "scope", "skip", "swept"}
  PROVE  LinesOf(Rewritten(lines, dropped), kinds) = LinesOf(lines, kinds)
<1> DEFINE E == EditsOf(Survivors(lines, dropped))
           R == RetainedOps(lines)
<1>1. Rewritten(lines, dropped) = R \o E /\ E \in Seq(EditLine)
  BY RewrittenReads
<1>2. E \in Seq(Line) /\ \A l \in ToSet(E) : l.t \notin kinds
  <2> HIDE DEF E
  <2>1. ToSet(E) \subseteq EditLine
    BY <1>1, ElementsType
  <2> QED BY <1>1, <2>1, SeqMonotonic DEF EditLine, Line
<1>3. R \in Seq(Line)
  BY RetainedOpsType
<1>4. LinesOf(R, kinds) = LinesOf(lines, kinds)
  BY KindOfKind DEF RetainedOps
<1> HIDE DEF R, E
<1>5. LinesOf(E, kinds) = <<>>
  BY <1>2, NoneOfKind
<1>6. LinesOf(R \o E, kinds) = LinesOf(R, kinds) \o LinesOf(E, kinds)
  <2>1. PICK r \in Seq(Line), e \in Seq(Line) : r = R /\ e = E
    BY <1>2, <1>3
  <2>2. InARow(r, e, kinds)
    BY KindOfConcat
  <2> QED BY <2>1, <2>2, Zenon DEF InARow
<1>7. LinesOf(lines, kinds) \in Seq(OfKind(kinds))
  BY LinesOfAreOnly
<1>8. LinesOf(lines, kinds) \o <<>> = LinesOf(lines, kinds)
  BY <1>7, ConcatEmptySeq
<1> QED BY <1>1, <1>4, <1>5, <1>6, <1>8, Zenon

\* Dropping records line by line takes edits and statuses alone.
LEMMA KindOfDropped ==
  ASSUME NEW lines \in Seq(Line), NEW dead, NEW kinds, kinds \cap {"edit", "status"} = {}
  PROVE  LinesOf(DroppedRaw(lines, dead), kinds) = LinesOf(lines, kinds)
<1> DEFINE A == {l \in ToSet(lines) : l.t \in {"edit", "status"} => l.id \notin dead}
<1>1. DroppedRaw(lines, dead) = Only(lines, A)
  BY DEF DroppedRaw
<1>2. lines \in Seq(ToSet(lines)) /\ ToSet(lines) \subseteq Line
  BY ElementsType
<1>3. \A l \in ToSet(lines) : l \in A \cap OfKind(kinds) <=> l \in OfKind(kinds)
  BY <1>2 DEF OfKind
<1> HIDE DEF A
<1>4. Only(lines, A \cap OfKind(kinds)) = Only(lines, OfKind(kinds))
  BY <1>2, <1>3, OnlyAgrees
<1>5. Only(lines, A) \in Seq(Line)
  BY OnlyType
<1>6. LinesOf(Only(lines, A), kinds) = Only(Only(lines, A), OfKind(kinds))
  BY <1>5, LinesOfAreOnly
<1>7. Only(Only(lines, A), OfKind(kinds)) = Only(lines, A \cap OfKind(kinds))
  BY OnlyOfOnly
<1>8. LinesOf(lines, kinds) = Only(lines, OfKind(kinds))
  BY LinesOfAreOnly
<1> QED BY <1>1, <1>4, <1>6, <1>7, <1>8, Zenon

\* A sweep keeps them too, but for the count of what sweeps removed, which it adds to.
LEMMA KindOfSwept ==
  ASSUME NEW lines \in Seq(Line), NEW dead, dead \subseteq Ids(lines),
         NEW kinds, kinds \subseteq {"batch", "scope", "skip"}
  PROVE  /\ LinesOf(SweptLog(lines, dead), kinds) = LinesOf(lines, kinds)
         /\ Swept(SweptLog(lines, dead)) = Swept(lines) + Cardinality(dead)
<1> DEFINE E == EditsOf(Survivors(lines, dead))
           ops == LinesOf(lines, {"batch", "scope", "skip"})
           count == SweptOp(Swept(lines) + Cardinality(dead))
<1>1. SweptLog(lines, dead) = (ops \o <<count>>) \o E /\ count \in SweptLine
  BY SweptReads
<1>2. count.n = Swept(lines) + Cardinality(dead) /\ count.t = "swept" /\ count \in Line
  BY <1>1 DEF SweptOp, Line
<1>3. E \in Seq(Line) /\ \A l \in ToSet(E) : l.t = "edit"
  <2>1. E \in Seq(EditLine)
    BY RewrittenReads
  <2> HIDE DEF E
  <2>2. ToSet(E) \subseteq EditLine
    BY <2>1, ElementsType
  <2> QED BY <2>1, <2>2, SeqMonotonic DEF EditLine, Line
<1>4. ops \in Seq(Line) /\ \A l \in ToSet(ops) : l.t \in {"batch", "scope", "skip"}
  <2>1. ops \in Seq(OfKind({"batch", "scope", "skip"}))
    BY LinesOfAreOnly
  <2> HIDE DEF ops
  <2>2. ToSet(ops) \subseteq OfKind({"batch", "scope", "skip"})
    BY <2>1, ElementsType
  <2> QED BY <2>1, <2>2, SeqMonotonic DEF OfKind
<1>5. LinesOf(ops, kinds) = LinesOf(lines, kinds)
  BY KindOfKind
<1> HIDE DEF E, ops, count
<1>6. PICK c \in Seq(Line) : c = <<count>> /\ ToSet(c) = {count}
  BY <1>2, OneElement
<1>7. PICK oc \in Seq(Line) : oc = ops \o c
  BY <1>4, ConcatProperties
<1>8. ASSUME NEW k
      PROVE  LinesOf(SweptLog(lines, dead), k) = (LinesOf(ops, k) \o LinesOf(c, k)) \o LinesOf(E, k)
  <2>1. PICK e \in Seq(Line) : e = E
    BY <1>3
  <2>2. PICK o \in Seq(Line) : o = ops
    BY <1>4
  <2>3. InARow(oc, e, k) /\ InARow(o, c, k)
    BY KindOfConcat
  <2> QED BY <1>1, <1>6, <1>7, <2>1, <2>2, <2>3, Zenon DEF InARow
<1>9. LinesOf(SweptLog(lines, dead), kinds) = LinesOf(lines, kinds)
  <2>1. LinesOf(c, kinds) = <<>> /\ LinesOf(E, kinds) = <<>>
    BY <1>2, <1>3, <1>6, NoneOfKind
  <2>2. PICK j \in Seq(OfKind(kinds)) : j = LinesOf(lines, kinds)
    BY LinesOfAreOnly
  <2>3. (j \o <<>>) \o <<>> = j
    BY ConcatEmptySeq
  <2> QED BY <1>5, <1>8, <2>1, <2>2, <2>3, Zenon
<1>10. Swept(SweptLog(lines, dead)) = count.n
  <2> DEFINE k == {"swept"}
  <2>1. LinesOf(ops, k) = <<>> /\ LinesOf(E, k) = <<>>
    BY <1>3, <1>4, NoneOfKind
  <2>2. LinesOf(c, k) = c
    <3>1. c \in Seq(OfKind(k))
      BY <1>2, <1>6, OneElement DEF OfKind
    <3>2. Only(c, OfKind(k)) = c
      BY <3>1, OnlyAll
    <3> QED BY <3>2, LinesOfAreOnly
  <2>3. (<<>> \o c) \o <<>> = c
    BY ConcatEmptySeq
  <2>4. LinesOf(SweptLog(lines, dead), k) = c
    <3> HIDE DEF k
    <3> QED BY <1>8, <2>1, <2>2, <2>3, Zenon
  <2>5. c # <<>> /\ Last(c) = count
    BY <1>6 DEF Last
  <2> QED BY <2>4, <2>5 DEF Swept
<1> QED BY <1>2, <1>9, <1>10

\* A sequence is a prefix of what it begins.
LEMMA PrefixOfConcat ==
  ASSUME NEW V, NEW s \in Seq(V), NEW t \in Seq(V)
  PROVE  IsPrefix(s, s \o t)
<1>1. s \o t \in Seq(V) /\ Len(s \o t) = Len(s) + Len(t) /\ Len(s) \in Nat /\ Len(t) \in Nat
  BY ConcatProperties, LenProperties
<1>2. PICK u \in Seq(V) : u = s \o t
  BY <1>1
<1>3. SubSeq(u, 1, Len(s)) = SubSeq(s, 1, Len(s))
  <2>1. CASE Len(s) = 0
    BY <1>2, <2>1, SubSeqEmpty
  <2>2. CASE Len(s) # 0
    <3>1. 1 \in 1 .. Len(s) /\ Len(s) \in 1 .. Len(s)
      BY <1>1, <2>2
    <3>2. SubSeq(s \o t, 1, Len(s)) = SubSeq(s, 1, Len(s))
      BY <3>1, SubSeqOfConcat1
    <3> QED BY <1>2, <3>2, Zenon
  <2> QED BY <2>1, <2>2
<1>4. Len(s) <= Len(u)
  BY <1>1, <1>2
<1>5. IsPrefix(s, u)
  BY <1>3, <1>4, Zenon DEF IsPrefix
<1> QED BY <1>2, <1>5, Zenon

\* The journal of a log: what rewrites keep of it, but for the count of sweeps.
LEMMA JournalOfAppend ==
  ASSUME NEW s \in Seq(Line), NEW q \in Seq(Line), \A l \in ToSet(q) : l.t # "swept"
  PROVE  /\ IsPrefix(LinesOf(s, {"batch", "scope", "skip"}), LinesOf(s \o q, {"batch", "scope", "skip"}))
         /\ Swept(s \o q) = Swept(s)
<1> DEFINE J == {"batch", "scope", "skip"}
<1>0. \A k : InARow(s, q, k)
  BY KindOfConcat
<1>1. \A k : LinesOf(s \o q, k) = LinesOf(s, k) \o LinesOf(q, k)
  BY <1>0, Zenon DEF InARow
<1>2. LinesOf(s, J) \in Seq(OfKind(J)) /\ LinesOf(q, J) \in Seq(OfKind(J))
  BY LinesOfAreOnly
<1>3. IsPrefix(LinesOf(s, J), LinesOf(s, J) \o LinesOf(q, J))
  BY <1>2, PrefixOfConcat
<1>4. LinesOf(q, {"swept"}) = <<>>
  BY NoneOfKind
<1>5. LinesOf(s, {"swept"}) \in Seq(OfKind({"swept"}))
  BY LinesOfAreOnly
<1>6. LinesOf(s, {"swept"}) \o <<>> = LinesOf(s, {"swept"})
  BY <1>5, ConcatEmptySeq
<1>7. LinesOf(s \o q, {"swept"}) = LinesOf(s, {"swept"})
  BY <1>1, <1>4, <1>6, Zenon
<1>8. Swept(s \o q) = Swept(s)
  BY <1>7, Zenon DEF Swept
<1> QED BY <1>1, <1>3, <1>8, Zenon

\* The journal of the next log begins with that of the lines a step starts from, and sweeps are not forgotten.
LEMMA StepJournal ==
  ASSUME TypeInv, [Next]_vars, log' # log
  PROVE  \A base \in {Base} :
           /\ IsPrefix(LinesOf(base, {"batch", "scope", "skip"}), LinesOf(log', {"batch", "scope", "skip"}))
           /\ Swept(base) <= Swept(log')
<1> DEFINE J == {"batch", "scope", "skip"}
           now == log'
           Grows(base) == IsPrefix(LinesOf(base, J), LinesOf(now, J)) /\ Swept(base) <= Swept(now)
<1> SUFFICES Grows(Base)
  OBVIOUS
<1>t. LogInv /\ log \in Seq(Line) /\ Swept(log) \in Nat
  BY SweptType DEF TypeInv, LogInv
<1>0. ASSUME LinesOf(now, J) = LinesOf(log, J), Swept(log) <= Swept(now) PROVE Grows(log)
  <2>1. LinesOf(log, J) \in Seq(OfKind(J)) /\ <<>> \in Seq(OfKind(J))
    BY <1>t, LinesOfAreOnly, EmptySeq
  <2>2. LinesOf(log, J) \o <<>> = LinesOf(log, J)
    BY <2>1, ConcatEmptySeq
  <2>3. IsPrefix(LinesOf(log, J), LinesOf(log, J) \o <<>>)
    BY <2>1, PrefixOfConcat
  <2>4. IsPrefix(LinesOf(log, J), LinesOf(now, J))
    BY <1>0, <2>2, <2>3, Zenon
  <2> QED BY <1>0, <2>4
<1>2. ASSUME NEW base \in Seq(Line), NEW q \in Seq(Line), now = base \o q, \A l \in ToSet(q) : l.t # "swept"
      PROVE  Grows(base)
  <2>1. Swept(base) \in Nat
    BY SweptType
  <2> QED BY <1>2, <2>1, JournalOfAppend
<1>3. CASE ~Rewrites /\ Captures
  <2>1. PICK q \in Seq(Line) : q = NewEdit /\ ToSet(q) = {Edit(NextId(log), edits + 1, "pending")}
    BY <1>t, NewEditType, OneElement DEF NewEdit
  <2>2. \A l \in ToSet(q) : l.t # "swept"
    BY <2>1 DEF Edit
  <2>3. Base = log /\ now = log \o q
    BY <1>3, <1>t, <2>1, EndedOfLog DEF Captures, Base
  <2>4. Grows(log)
    BY <1>2, <1>t, <2>2, <2>3
  <2> HIDE DEF Grows
  <2> QED BY <2>3, <2>4, Zenon
<1>4. CASE ~Rewrites /\ \E q, r \in Seq(Line) : Appends(q, r)
  <2>1. PICK q \in Seq(Line), p \in Seq(Line) :
          log' = Ended \o q /\ ToSet(q) \subseteq ToSet(p) /\ (Remarks(p) \/ \E st \in Status : Marks(p, st))
    BY <1>4 DEF Appends
  <2>2. \A l \in ToSet(q) : l.t # "swept"
    BY <2>1 DEF Remarks, Marks
  <2>3. PICK base \in Seq(Line) : base = Ended /\ base = Base
    BY <1>4, <1>t, EndedOfLog DEF Base
  <2>4. now = base \o q
    BY <2>1, <2>3
  <2>5. Grows(base)
    BY <1>2, <2>2, <2>4
  <2> HIDE DEF Grows
  <2> QED BY <2>3, <2>5, Zenon
<1>5. ASSUME NEW ids, now = Rewritten(log, ids) PROVE Grows(log)
  <2>1. LinesOf(now, J) = LinesOf(log, J) /\ LinesOf(now, {"swept"}) = LinesOf(log, {"swept"})
    BY <1>t, <1>5, KindOfRewritten
  <2>2. Swept(now) = Swept(log)
    BY <2>1, Zenon DEF Swept
  <2> QED BY <1>0, <1>t, <2>1, <2>2
<1>6. ASSUME NEW dead \in SUBSET Ids(log), now = SweptLog(log, dead) PROVE Grows(log)
  <2>1. LinesOf(now, J) = LinesOf(log, J) /\ Swept(now) = Swept(log) + Cardinality(dead)
    BY <1>t, <1>6, KindOfSwept
  <2>2. Cardinality(dead) \in Nat
    BY <1>t, IdsAreFinite
  <2> QED BY <1>0, <1>t, <2>1, <2>2
<1>7. ASSUME NEW ids, now = DroppedRaw(log, ids) PROVE Grows(log)
  <2>1. LinesOf(now, J) = LinesOf(log, J) /\ LinesOf(now, {"swept"}) = LinesOf(log, {"swept"})
    BY <1>t, <1>7, KindOfDropped
  <2>2. Swept(now) = Swept(log)
    BY <2>1, Zenon DEF Swept
  <2> QED BY <1>0, <1>t, <2>1, <2>2
<1>8. CASE Rewrites /\ (Cleared \/ SweptAway \/ Dropped)
  <2> HIDE DEF Grows
  <2>1. Cleared => Grows(log)
    BY <1>5 DEF Cleared
  <2>2. SweptAway => Grows(log)
    BY <1>6 DEF SweptAway
  <2>3. Dropped => Grows(log)
    BY <1>7 DEF Dropped
  <2>4. Base = log
    BY <1>8 DEF Base
  <2> QED BY <1>8, <2>1, <2>2, <2>3, <2>4, Zenon
<1>9. ~Leaves
  BY DEF Leaves
<1> HIDE DEF Grows
<1> QED BY <1>3, <1>4, <1>8, <1>9, LogSteps, Zenon

\* Capture gaps, journaled operations and attributions only accumulate, and so does the count of what sweeps
\* removed, whatever is appended, torn, cleared, swept or repaired, but for a last line without its newline.
THEOREM JournalIsKept == Spec => JournalOnlyGrows
<1>1. TypeInv /\ [Next]_vars
        => [\A base \in {Base} :
              /\ IsPrefix(LinesOf(base, {"batch", "scope", "skip"}), LinesOf(log', {"batch", "scope", "skip"}))
              /\ Swept(base) <= Swept(log')]_log
  BY StepJournal
<1> QED BY <1>1, Typed, PTL DEF Spec, JournalOnlyGrows

-----------------------------------------------------------------------------
(* Capture gaps.                                                           *)

\* Each variable that is not the log is changed by the actions that are about it alone.
LEMMA OtherSteps ==
  ASSUME TypeInv, [Next]_vars
  PROVE  /\ session' = session
         /\ ReportSkip \/ UNCHANGED <<gaps, filed>>
         /\ WriteRule \/ UNCHANGED rule
<1> DEFINE P == /\ session' = session
                /\ ReportSkip \/ UNCHANGED <<gaps, filed>>
                /\ WriteRule \/ UNCHANGED rule
<1> SUFFICES P
  OBVIOUS
<1>1. CASE CaptureEdit
  BY <1>1 DEF CaptureEdit
<1>2. CASE CaptureTorn
  BY <1>2 DEF CaptureTorn
<1>3. CASE ReportSkip
  BY <1>3 DEF ReportSkip
<1>4. CASE WriteRule
  BY <1>4 DEF WriteRule
<1>5. CASE Sweep
  BY <1>5 DEF Sweep
<1>6. ASSUME NEW f \in FrontEnds, NEW w, Ask(f, w) PROVE P
  BY <1>6 DEF Ask
<1>7. ASSUME NEW f \in FrontEnds, Keep(f) \/ Undo(f) \/ Redo(f) \/ RevertLast(f) PROVE P
  BY <1>6, <1>7, DecisionAsks
<1>8. ASSUME NEW f \in FrontEnds, Repair(f) PROVE P
  BY <1>6, <1>8, RepairAsks
<1>9. ASSUME NEW f \in FrontEnds, ReadStatuses(f) \/ AppendStatuses(f) \/ Abandon(f) PROVE P
  BY <1>9 DEF ReadStatuses, AppendStatuses, Abandon
<1>10. ASSUME NEW f \in FrontEnds, Assign(f) \/ Clear(f) \/ DropRecords(f) PROVE P
  BY <1>10 DEF Assign, Clear, DropRecords
<1>11. CASE UNCHANGED vars
  BY <1>11 DEF vars
<1> HIDE DEF P
<1>12. CASE \E f \in FrontEnds : \/ Keep(f) \/ Undo(f) \/ Redo(f) \/ RevertLast(f) \/ ReadStatuses(f)
                                 \/ AppendStatuses(f) \/ Abandon(f) \/ Assign(f) \/ Clear(f)
                                 \/ Repair(f) \/ DropRecords(f)
  BY <1>7, <1>8, <1>9, <1>10, <1>12
<1> QED BY <1>1, <1>2, <1>3, <1>4, <1>5, <1>11, <1>12 DEF Next

\* The gaps that a log marks.
Marked(lines) == {l.n : l \in {m \in ToSet(lines) : m.t = "skip"}}

\* They are its lines of that kind, whatever else a log holds.
LEMMA MarkedByKind ==
  ASSUME NEW s \in Seq(Line), NEW t \in Seq(Line), LinesOf(t, {"skip"}) = LinesOf(s, {"skip"})
  PROVE  Marked(t) = Marked(s)
<1>1. ASSUME NEW u \in Seq(Line) PROVE Marked(u) = {l.n : l \in ToSet(LinesOf(u, {"skip"}))}
  <2>1. ToSet(Only(u, OfKind({"skip"}))) = ToSet(u) \cap OfKind({"skip"})
    BY OnlyElements
  <2>2. ToSet(u) \subseteq Line
    BY ElementsType
  <2>3. {m \in ToSet(u) : m.t = "skip"} = ToSet(u) \cap OfKind({"skip"})
    BY <2>2 DEF OfKind
  <2>4. LinesOf(u, {"skip"}) = Only(u, OfKind({"skip"}))
    BY LinesOfAreOnly
  <2> QED BY <2>1, <2>3, <2>4, Zenon DEF Marked
<1> QED BY <1>1, Zenon

\* Where no append is cut short, the next gap is reported where readers look, and none is lost.
LEMMA StepGaps == TypeInv /\ GapsStayVisible /\ [Next]_vars => GapsStayVisible'
<1> SUFFICES ASSUME TypeInv, ~session.torn, ReadSkips = 1 .. gaps, [Next]_vars PROVE ReadSkips' = 1 .. gaps'
  BY OtherSteps DEF GapsStayVisible
<1>t. LogInv /\ log \in Seq(Line) /\ gaps \in Nat /\ torn = "no" /\ Ended = log
  BY EndedOfLog DEF TypeInv, LogInv
<1>v. (ReadSkips = Marked(log) \cup filed) /\ (ReadSkips' = Marked(log') \cup filed')
  BY DEF ReadSkips, Marked
<1>1. CASE ReportSkip
  <2>0. ~AppendTorn(<<SkipOp(gaps + 1)>>)
    BY DEF AppendTorn
  <2>1. gaps' = gaps + 1
    BY <1>1, <2>0 DEF ReportSkip
  <2>3. 1 .. gaps' = 1 .. gaps \cup {gaps + 1}
    BY <1>t, <2>1
  <2>4. CASE AppendLines(<<SkipOp(gaps + 1)>>) /\ UNCHANGED filed
    <3>1. SkipOp(gaps + 1) \in Line /\ SkipOp(gaps + 1).t = "skip" /\ SkipOp(gaps + 1).n = gaps + 1
      BY <1>t DEF SkipOp, SkipLine, Line
    <3>2. PICK p \in Seq(Line) : p = <<SkipOp(gaps + 1)>> /\ ToSet(p) = {SkipOp(gaps + 1)}
      BY <3>1, OneElement
    <3>3. log' = log \o p
      BY <1>t, <2>4, <3>2, Appended
    <3>4. ToSet(log \o p) = ToSet(log) \cup ToSet(p)
      BY <1>t, ElementsOfConcat
    <3>5. ToSet(log') = ToSet(log) \cup {SkipOp(gaps + 1)}
      BY <3>2, <3>3, <3>4
    <3>6. Marked(log') = Marked(log) \cup {gaps + 1}
      BY <3>1, <3>5 DEF Marked
    <3> QED BY <1>v, <2>3, <2>4, <3>6
  <2>5. CASE filed' = filed \cup {gaps + 1} /\ UNCHANGED <<log, torn>>
    <3>1. Marked(log') = Marked(log)
      BY <2>5
    <3> QED BY <1>v, <2>3, <2>5, <3>1
  <2> QED BY <1>1, <2>0, <2>4, <2>5 DEF ReportSkip
<1>2. CASE ~ReportSkip
  <2>1. gaps' = gaps /\ filed' = filed
    BY <1>2, OtherSteps
  <2> SUFFICES Marked(log') = Marked(log)
    BY <1>v, <2>1
  <2>2. ASSUME NEW q \in Seq(Line), log' = log \o q, \A l \in ToSet(q) : l.t # "skip" PROVE Marked(log') = Marked(log)
    <3>1. ToSet(log') = ToSet(log) \cup ToSet(q)
      BY <1>t, <2>2, ElementsOfConcat
    <3> QED BY <2>2, <3>1 DEF Marked
  <2>3. CASE Leaves
    BY <2>3 DEF Leaves
  <2>4. CASE Captures
    <3>1. PICK q \in Seq(Line) : q = NewEdit /\ ToSet(q) = {Edit(NextId(log), edits + 1, "pending")}
      BY <1>t, NewEditType, OneElement DEF NewEdit
    <3>2. \A l \in ToSet(q) : l.t # "skip"
      BY <3>1 DEF Edit
    <3> QED BY <2>2, <2>4, <3>1, <3>2 DEF Captures
  <2>5. CASE \E q, r \in Seq(Line) : Appends(q, r)
    <3>1. PICK q \in Seq(Line), p \in Seq(Line) :
            log' = Ended \o q /\ ToSet(q) \subseteq ToSet(p) /\ \A l \in ToSet(p) : l.t # "skip"
      BY <2>1, <2>5 DEF Appends
    <3>2. log' = log \o q /\ \A l \in ToSet(q) : l.t # "skip"
      BY <1>t, <3>1
    <3> QED BY <2>2, <3>2
  <2>6. CASE Cleared
    <3>1. PICK ids : log' = Rewritten(log, ids)
      BY <2>6 DEF Cleared
    <3> QED BY <1>t, <3>1, KindOfRewritten, RewrittenReads, MarkedByKind
  <2>7. CASE SweptAway
    <3>1. PICK dead \in SUBSET Ids(log) : log' = SweptLog(log, dead)
      BY <2>7 DEF SweptAway
    <3>2. LinesOf(SweptLog(log, dead), {"skip"}) = LinesOf(log, {"skip"}) /\ SweptLog(log, dead) \in Seq(Line)
      BY <1>t, KindOfSwept, SweptReads
    <3> QED BY <1>t, <3>1, <3>2, MarkedByKind
  <2>8. CASE Dropped
    <3>1. PICK f \in FrontEnds : log' = DroppedRaw(log, Head(todo[f]).ids)
      BY <2>8 DEF Dropped
    <3> QED BY <1>t, <3>1, KindOfDropped, DroppedRawType, MarkedByKind
  <2> QED BY <2>3, <2>4, <2>5, <2>6, <2>7, <2>8, LogSteps, Zenon
<1> QED BY <1>1, <1>2

\* A capture gap once reported is reported to every later reader, whatever has been cleared, swept or repaired
\* since, where no append is cut short.  (A line appended after a part of one is lost with it, a gap's like any
\* other.)
THEOREM GapsVisible == Spec => []GapsStayVisible
<1>1. Init => GapsStayVisible
  <2> SUFFICES ASSUME Init PROVE GapsStayVisible
    OBVIOUS
  <2>1. session.log \in Seq([t : {"edit"}, id : Nat, uid : Nat, status : {"pending"}])
    BY DEF Init
  <2>2. ToSet(log) \subseteq [t : {"edit"}, id : Nat, uid : Nat, status : {"pending"}]
    BY <2>1, ElementsType DEF Init
  <2>3. {m \in ToSet(log) : m.t = "skip"} = {}
    BY <2>2
  <2> QED BY <2>3 DEF Init, GapsStayVisible, ReadSkips
<1>2. TypeInv /\ GapsStayVisible /\ [Next]_vars => GapsStayVisible'
  BY StepGaps
<1> QED BY <1>1, <1>2, Typed, PTL DEF Spec

-----------------------------------------------------------------------------
(* Logs whose edits were given increasing ids.  (One that unlocked writers *)
(* of the past left with duplicates is not such a log.)                    *)

RawOlder == {p \in EditLine \X EditLine : p[1].id < p[2].id}
IdOlder == {p \in Rec \X Rec : p[1].id < p[2].id}

Clean(lines) == Pairwise(LinesOf(lines, {"edit"}), RawOlder)
RawIds(lines) == {l.id : l \in ToSet(LinesOf(lines, {"edit"}))}

\* The lines of a kind, in a log of one more line.
LEMMA KindOfAppend ==
  ASSUME NEW s \in Seq(Line), NEW x \in Line, NEW kinds
  PROVE  LinesOf(Append(s, x), kinds) = IF x.t \in kinds THEN Append(LinesOf(s, kinds), x) ELSE LinesOf(s, kinds)
<1>1. PICK u \in Seq(Line) : u = Append(s, x)
  BY AppendProperties
<1>2. LinesOf(u, kinds) = Only(u, OfKind(kinds)) /\ LinesOf(s, kinds) = Only(s, OfKind(kinds))
  BY LinesOfAreOnly
<1>3. Only(Append(s, x), OfKind(kinds)) =
        IF x \in OfKind(kinds) THEN Append(Only(s, OfKind(kinds)), x) ELSE Only(s, OfKind(kinds))
  BY OnlyOfAppend
<1>4. x \in OfKind(kinds) <=> x.t \in kinds
  BY DEF OfKind
<1> QED BY <1>1, <1>2, <1>3, <1>4, Zenon

\* Edit lines are edit lines.
LEMMA EditLines ==
  ASSUME NEW s \in Seq(Line)
  PROVE  LinesOf(s, {"edit"}) \in Seq(EditLine)
<1>1. LinesOf(s, {"edit"}) \in Seq(OfKind({"edit"}))
  BY LinesOfAreOnly
<1>2. OfKind({"edit"}) \subseteq EditLine
  BY LineKinds DEF OfKind
<1> QED BY <1>1, <1>2, SeqMonotonic

\* In such a log every edit is read under the id it was written with.
LEMMA CleanReads ==
  ASSUME NEW lines \in Seq(Line), Clean(lines)
  PROVE  Pairwise(ReadLog(lines), IdOlder) /\ Ids(lines) = RawIds(lines)
<1> DEFINE Good(t) == Pairwise(ReadLog(t), IdOlder) /\ IdsOf(ReadLog(t)) = RawIds(t)
           S == {t \in Seq(Line) : Clean(t) => Good(t)}
<1>1. <<>> \in S
  <2>1. <<>> \in Seq(Line) /\ ReadLog(<<>>) = <<>>
    BY EmptySeq, ReadOfEmpty
  <2>2. LinesOf(<<>>, {"edit"}) = <<>>
    BY OnlyOfEmpty DEF LinesOf
  <2>3. ToSet(<<>>) = {}
    BY ElementsOfEmpty
  <2> QED BY <2>1, <2>2, <2>3, EmptySeq DEF Pairwise, IdsOf, RawIds
<1>2. ASSUME NEW t \in Seq(Line), NEW x \in Line, t \in S PROVE Append(t, x) \in S
  <2> SUFFICES ASSUME Clean(Append(t, x)) PROVE Good(Append(t, x))
    BY AppendProperties
  <2>1. PICK raw \in Seq(EditLine) : raw = LinesOf(t, {"edit"})
    BY EditLines
  <2>2. PICK recs \in Seq(Rec) : recs = ReadLog(t) /\ recs \in Records
    BY ReadType DEF Records, Rec
  <2>3. PICK then : then = ReadLog(Append(t, x)) /\ then = Parse(recs, x)
    BY <2>2, ReadOfAppend
  <2>4. CASE x.t = "edit"
    <3>1. x \in EditLine
      BY <2>4, LineKinds
    <3>2. LinesOf(Append(t, x), {"edit"}) = Append(raw, x)
      BY <2>1, <2>4, KindOfAppend
    <3>3. Pairwise(raw, RawOlder) /\ \A y \in ToSet(raw) : <<y, x>> \in RawOlder
      <4>1. Pairwise(Append(raw, x), RawOlder)
        BY <3>2 DEF Clean
      <4> QED BY <3>1, <4>1, PairwiseOfAppend
    <3>4. Pairwise(recs, IdOlder) /\ IdsOf(recs) = {y.id : y \in ToSet(raw)}
      BY <1>2, <2>1, <2>2, <3>3 DEF Clean, RawIds
    <3>5. \A i \in IdsOf(recs) : i < x.id
      BY <3>3, <3>4 DEF RawOlder
    <3>6. x.id \in Nat /\ x.id \notin IdsOf(recs)
      BY <3>1, <3>5 DEF EditLine
    <3> DEFINE r == [id |-> FreshId(recs, x.id), uid |-> x.uid, status |-> x.status]
    <3>7. then = Append(recs, r) /\ r \in Rec /\ r.id = x.id
      BY <2>2, <2>3, <3>1, <3>6, ParseOfEdit, FreshIdIsFree
    <3> HIDE DEF r
    <3>8. \A q \in ToSet(recs) : q \in Rec /\ q.id \in IdsOf(recs)
      BY <2>2, ElementsType DEF ToSet, IdsOf
    <3>9. \A q \in ToSet(recs) : <<q, r>> \in IdOlder
      BY <3>5, <3>7, <3>8 DEF IdOlder
    <3>10. Pairwise(then, IdOlder)
      BY <2>2, <3>4, <3>7, <3>9, PairwiseOfAppend
    <3>11. \A q : IdsOf(q) = {y.id : y \in ToSet(q)}
      BY DEF IdsOf, ToSet
    <3>12. PICK rx : rx = Append(raw, x)
      OBVIOUS
    <3>13. ToSet(then) = ToSet(recs) \cup {r} /\ ToSet(rx) = ToSet(raw) \cup {x}
      BY <2>2, <3>1, <3>7, <3>12, ElementsOfAppend
    <3>14. IdsOf(then) = IdsOf(recs) \cup {x.id}
      BY <3>7, <3>11, <3>13
    <3>15. {y.id : y \in ToSet(rx)} = {y.id : y \in ToSet(raw)} \cup {x.id}
      BY <3>13
    <3> QED BY <2>3, <3>2, <3>4, <3>10, <3>12, <3>14, <3>15 DEF RawIds
  <2>5. CASE x.t # "edit"
    <3>1. LinesOf(Append(t, x), {"edit"}) = raw
      BY <2>1, <2>5, KindOfAppend
    <3>2. Pairwise(recs, IdOlder) /\ IdsOf(recs) = {y.id : y \in ToSet(raw)}
      BY <1>2, <2>1, <2>2, <3>1 DEF Clean, RawIds
    <3>3. CASE x.t = "status"
      <4>1. x \in StatusLine
        BY <3>3, LineKinds
      <4>2. /\ then \in Seq(Rec) /\ Len(then) = Len(recs)
            /\ \A i \in 1 .. Len(recs) : then[i].id = recs[i].id
        <5>1. Parse(recs, x) \in Records /\ Len(Parse(recs, x)) = Len(recs)
              /\ \A i \in 1 .. Len(recs) : Parse(recs, x)[i].id = recs[i].id
          BY <2>2, <4>1, ParseOfStatus
        <5>2. Records = Seq(Rec)
          BY DEF Records, Rec
        <5> QED BY <2>3, <5>1, <5>2, Zenon
      <4>3. DOMAIN then = 1 .. Len(recs) /\ DOMAIN recs = 1 .. Len(recs) /\ \A i \in 1 .. Len(recs) : then[i] \in Rec
        BY <2>2, <4>2, LenProperties, ElementOfSeq
      <4>4. Pairwise(then, IdOlder)
        <5> SUFFICES ASSUME NEW i \in 1 .. Len(recs), NEW j \in 1 .. Len(recs), i < j
                     PROVE  <<then[i], then[j]>> \in IdOlder
          BY <4>3 DEF Pairwise
        <5>1. <<recs[i], recs[j]>> \in IdOlder
          BY <3>2, <4>3 DEF Pairwise
        <5>2. recs[i].id < recs[j].id
          BY <5>1 DEF IdOlder
        <5>3. then[i].id < then[j].id /\ then[i] \in Rec /\ then[j] \in Rec
          BY <4>2, <4>3, <5>2
        <5> QED BY <5>3 DEF IdOlder
      <4>5. IdsOf(then) = IdsOf(recs)
        BY <4>2, <4>3 DEF IdsOf
      <4> QED BY <2>3, <3>1, <3>2, <4>4, <4>5 DEF RawIds
    <3>4. CASE x.t # "status"
      <4>1. then = recs
        BY <2>3, <2>5, <3>4, ParseOfOther
      <4> QED BY <2>3, <3>1, <3>2, <4>1 DEF RawIds
    <3> QED BY <3>3, <3>4
  <2> QED BY <2>4, <2>5
<1>3. Seq(Line) \subseteq S
  <2> HIDE DEF S
  <2> QED BY <1>1, <1>2, SeqInd
<1>4. Ids(lines) = IdsOf(ReadLog(lines))
  BY DEF Ids, IdsOf, ToSet
<1> QED BY <1>3, <1>4

\* The last edit line of such a log has the greatest id.
LEMMA LastIsGreatest ==
  ASSUME NEW raw \in Seq(EditLine), Pairwise(raw, RawOlder), Len(raw) >= 1
  PROVE  \A y \in ToSet(raw) : y.id < raw[Len(raw)].id + 1
<1>1. PICK n : n = Len(raw)
  OBVIOUS
<1>2. n \in Nat /\ n \in DOMAIN raw /\ DOMAIN raw = 1 .. n /\ \A i \in 1 .. n : raw[i] \in EditLine
  BY <1>1, LenProperties, ElementOfSeq
<1>3. \A i \in 1 .. n : raw[i].id \in Nat
  BY <1>2 DEF EditLine
<1>4. ASSUME NEW i \in 1 .. n PROVE raw[i].id < raw[n].id + 1
  <2>1. CASE i < n
    <3>1. <<raw[i], raw[n]>> \in RawOlder
      BY <1>2, <2>1, Zenon DEF Pairwise
    <3>2. raw[i].id < raw[n].id
      BY <3>1 DEF RawOlder
    <3> QED BY <1>2, <1>3, <3>2
  <2>2. CASE i = n
    BY <1>3, <2>2
  <2> QED BY <1>2, <2>1, <2>2
<1> QED BY <1>1, <1>2, <1>4, Zenon DEF ToSet

\* The next id is above all that are in such a log, whether its tail or the whole of it answers.
LEMMA NextIdAbove ==
  ASSUME NEW lines \in Seq(Line), Clean(lines)
  PROVE  \A i \in Ids(lines) : i < NextId(lines)
<1> DEFINE from == Len(lines) - TailLines + 1
           tail == LinesOf(SubSeq(lines, from, Len(lines)), {"edit"})
           ids  == [i \in DOMAIN tail |-> tail[i].id]
<1>1. CASE from > 1 /\ Len(ids) >= 2 /\ IsIncreasing(ids)
  <2>1. Len(lines) \in Nat /\ from \in 2 .. Len(lines) + 1
    BY <1>1, LenProperties
  <2>2. NextId(lines) = Last(ids) + 1
    BY <1>1 DEF NextId
  <2>3. PICK a \in Seq(Line), b \in Seq(Line) : b = SubSeq(lines, from, Len(lines)) /\ lines = a \o b
    <3>1. SubSeq(lines, 1, from - 1) \in Seq(Line) /\ SubSeq(lines, from, Len(lines)) \in Seq(Line)
      <4>1. \A i \in 1 .. Len(lines) : lines[i] \in Line
        BY ElementOfSeq
      <4> QED BY <2>1, <4>1, SubSeqProperties
    <3>2. lines = SubSeq(lines, 1, from - 1) \o SubSeq(lines, from, Len(lines))
      BY <2>1, ConcatAdjacentSubSeq, SubSeqFull
    <3> QED BY <3>1, <3>2
  <2>4. PICK ra \in Seq(EditLine), rb \in Seq(EditLine) :
          ra = LinesOf(a, {"edit"}) /\ rb = LinesOf(b, {"edit"}) /\ LinesOf(lines, {"edit"}) = ra \o rb
    <3>0. InARow(a, b, {"edit"})
      BY KindOfConcat
    <3>1. LinesOf(a \o b, {"edit"}) = LinesOf(a, {"edit"}) \o LinesOf(b, {"edit"})
      BY <3>0, Zenon DEF InARow
    <3>2. LinesOf(lines, {"edit"}) = LinesOf(a, {"edit"}) \o LinesOf(b, {"edit"})
      BY <2>3, <3>1, Zenon
    <3>3. LinesOf(a, {"edit"}) \in Seq(EditLine) /\ LinesOf(b, {"edit"}) \in Seq(EditLine)
      BY EditLines
    <3> QED BY <3>2, <3>3, Zenon
  <2>5. rb = tail /\ DOMAIN ids = DOMAIN rb /\ Len(rb) \in Nat /\ DOMAIN rb = 1 .. Len(rb)
    BY <2>3, <2>4, LenProperties
  <2> HIDE DEF tail
  <2>6. Len(ids) = Len(rb) /\ Last(ids) = rb[Len(rb)].id
    <3>1. ids \in [1 .. Len(rb) -> {rb[i].id : i \in 1 .. Len(rb)}]
      BY <2>5
    <3>2. Len(ids) = Len(rb)
      BY <2>5, <3>1, SeqDef, LenProperties
    <3>3. Len(rb) \in 1 .. Len(rb)
      BY <1>1, <2>5, <3>2
    <3> QED BY <2>5, <3>2, <3>3 DEF Last
  <2> HIDE DEF ids, from
  <2>7. PICK rs \in Seq(EditLine) : rs = ra \o rb /\ Len(rs) = Len(ra) + Len(rb) /\ rs[Len(rs)] = rb[Len(rb)]
    <3>1. Len(rb) >= 1 /\ Len(ra) \in Nat
      BY <1>1, <2>6, LenProperties
    <3>2. ra \o rb \in Seq(EditLine) /\ Len(ra \o rb) = Len(ra) + Len(rb) /\ (ra \o rb)[Len(ra) + Len(rb)] = rb[Len(rb)]
      BY <2>5, <3>1, ConcatProperties
    <3> QED BY <3>2
  <2>8. Pairwise(rs, RawOlder) /\ Ids(lines) = {y.id : y \in ToSet(rs)}
    BY <2>4, <2>7, CleanReads DEF Clean, RawIds
  <2>9. Len(rs) >= 1
    BY <1>1, <2>5, <2>6, <2>7, LenProperties
  <2>12. \A y \in ToSet(rs) : y.id < rs[Len(rs)].id + 1
    BY <2>8, <2>9, LastIsGreatest
  <2>13. NextId(lines) = rs[Len(rs)].id + 1
    BY <2>2, <2>6, <2>7
  <2> QED BY <2>8, <2>12, <2>13
<1>2. CASE ~(from > 1 /\ Len(ids) >= 2 /\ IsIncreasing(ids))
  <2>1. NextId(lines) = Max({0} \cup Ids(lines)) + 1
    BY <1>2 DEF NextId
  <2>2. ReadLog(lines) \in Records /\ Ids(lines) = IdsOf(ReadLog(lines))
    BY ReadType DEF Ids, IdsOf, ToSet
  <2>3. PICK n \in Nat : Ids(lines) \subseteq 0 .. n
    BY <2>2, IdsAreBounded
  <2>4. PICK M : M = {0} \cup Ids(lines)
    OBVIOUS
  <2>5. M \subseteq 0 .. n /\ M # {}
    BY <2>3, <2>4
  <2>6. Max(M) \in M /\ \A i \in M : Max(M) >= i
    BY <2>5, MaxIsGreatest
  <2>7. PICK m \in 0 .. n : m = Max(M) /\ \A i \in M : m >= i
    BY <2>5, <2>6
  <2>8. NextId(lines) = m + 1
    BY <2>1, <2>4, <2>7
  <2>9. ASSUME NEW i \in Ids(lines) PROVE i < m + 1
    <3>1. i \in 0 .. n /\ i \in M
      BY <2>3, <2>4
    <3> QED BY <2>7, <3>1
  <2> QED BY <2>8, <2>9
<1> QED BY <1>1, <1>2

\* A log of edit lines whose ids go up from each to the next is such a log.
LEMMA IncreasingIsClean ==
  ASSUME NEW s \in Sessions, IsIncreasing([i \in DOMAIN s.log |-> s.log[i].id])
  PROVE  Clean(s.log)
<1>1. s.log \in Seq(EditLine)
  <2>1. [t : {"edit"}, id : Nat, uid : Nat, status : {"pending"}] \subseteq EditLine
    BY DEF EditLine, Status
  <2> QED BY <2>1, LogAssumption, SeqMonotonic, Zenon
<1>2. PICK raw \in Seq(EditLine) : raw = s.log
  BY <1>1
<1>3. PICK n \in Nat : n = Len(raw)
  BY LenProperties
<1>4. DOMAIN raw = 1 .. n /\ \A i \in 1 .. n : raw[i] \in EditLine /\ raw[i].id \in Nat
  <2>1. \A i \in 1 .. n : raw[i] \in EditLine
    BY <1>3, ElementOfSeq
  <2> QED BY <1>3, <2>1, LenProperties DEF EditLine
<1>5. \A i \in 1 .. n - 1 : raw[i].id < raw[i + 1].id
  <2> DEFINE ids == [i \in 1 .. n |-> raw[i].id]
  <2>1. IsIncreasing(ids)
    BY <1>2, <1>4
  <2>2. ids \in [1 .. n -> Nat]
    BY <1>4
  <2>3. Len(ids) = n
    BY <1>3, <2>2, SeqDef, LenProperties
  <2> HIDE DEF ids
  <2>4. \A i \in 1 .. n - 1 : ids[i] < ids[i + 1]
    BY <2>1, <2>3 DEF IsIncreasing
  <2>5. \A i \in 1 .. n : ids[i] = raw[i].id
    BY DEF ids
  <2>6. \A i \in 1 .. n - 1 : i \in 1 .. n /\ i + 1 \in 1 .. n
    BY <1>3
  <2> QED BY <2>4, <2>5, <2>6
<1>6. \A d \in Nat : \A i, j \in 1 .. n : j = i + 1 + d => raw[i].id < raw[j].id
  <2> DEFINE S == {d \in Nat : \A i, j \in 1 .. n : j = i + 1 + d => raw[i].id < raw[j].id}
  <2>1. 0 \in S
    BY <1>3, <1>5
  <2>2. ASSUME NEW d \in Nat, d \in S PROVE d + 1 \in S
    <3>0. d + 1 \in Nat
      OBVIOUS
    <3> SUFFICES ASSUME NEW i \in 1 .. n, NEW j \in 1 .. n, j = i + 1 + (d + 1) PROVE raw[i].id < raw[j].id
      BY <3>0, Zenon
    <3>1. j - 1 \in 1 .. n /\ j - 1 = i + 1 + d /\ j - 1 \in 1 .. n - 1
      <4>1. n \in Nat /\ d \in Nat /\ i \in Nat /\ i >= 1 /\ j \in Nat /\ j <= n /\ j = i + 1 + (d + 1)
        BY <1>3
      <4> QED BY <4>1
    <3>2. raw[i].id < raw[j - 1].id
      BY <2>2, <3>1
    <3>3. raw[j - 1].id < raw[j].id
      BY <1>3, <1>5, <3>1
    <3> QED BY <1>4, <3>1, <3>2, <3>3
  <2>3. Nat \subseteq S
    <3> HIDE DEF S
    <3> QED BY <2>1, <2>2, NatInd
  <2> QED BY <2>3
<1>7. Pairwise(raw, RawOlder)
  <2> SUFFICES ASSUME NEW i \in 1 .. n, NEW j \in 1 .. n, i < j PROVE <<raw[i], raw[j]>> \in RawOlder
    BY <1>4 DEF Pairwise
  <2>1. PICK d \in Nat : d = j - i - 1
    BY <1>3
  <2>2. j = i + 1 + d
    BY <1>3, <2>1
  <2>3. raw[i].id < raw[j].id
    BY <1>6, <2>2
  <2> QED BY <1>4, <2>3 DEF RawOlder
<1>8. LinesOf(raw, {"edit"}) = raw
  <2>1. \A l \in EditLine : l.t = "edit"
    BY DEF EditLine
  <2>2. PICK V : V = ToSet(raw) /\ V \subseteq EditLine /\ raw \in Seq(V)
    BY ElementsType, SeqOfElements
  <2>3. PICK A : A = {l \in ToSet(raw) : l.t \in {"edit"}}
    OBVIOUS
  <2>4. V \subseteq A
    BY <2>1, <2>2, <2>3
  <2>5. Only(raw, A) = raw
    BY <2>2, <2>4, OnlyAll
  <2> QED BY <2>3, <2>5, Zenon DEF LinesOf
<1> QED BY <1>2, <1>7, <1>8, Zenon DEF Clean

\* The edit lines of a log that was rewritten or swept.
LEMMA EditsOfRewrites ==
  ASSUME NEW lines \in Seq(Line), NEW dead
  PROVE  /\ LinesOf(Rewritten(lines, dead), {"edit"}) = EditsOf(Survivors(lines, dead))
         /\ dead \subseteq Ids(lines) => LinesOf(SweptLog(lines, dead), {"edit"}) = EditsOf(Survivors(lines, dead))
<1> DEFINE E == EditsOf(Survivors(lines, dead))
           k == {"edit"}
<1>1. E \in Seq(EditLine) /\ E \in Seq(Line) /\ LinesOf(E, k) = E
  <2>1. E \in Seq(EditLine)
    BY RewrittenReads
  <2>2. EditLine \subseteq OfKind(k) /\ EditLine \subseteq Line
    BY DEF EditLine, OfKind, Line
  <2> HIDE DEF E
  <2>3. Only(E, OfKind(k)) = E /\ E \in Seq(Line)
    BY <2>1, <2>2, OnlyAll, SeqMonotonic
  <2> QED BY <2>1, <2>3, LinesOfAreOnly
<1> HIDE DEF E
<1>2. ASSUME NEW ops \in Seq(Line), \A l \in ToSet(ops) : l.t \notin {"edit", "status"}
      PROVE  LinesOf(ops \o E, k) = E
  <2>1. LinesOf(ops, k) = <<>>
    BY <1>2, NoneOfKind
  <2>2. LinesOf(ops \o E, k) = LinesOf(ops, k) \o LinesOf(E, k)
    <3>1. PICK e \in Seq(Line) : e = E
      BY <1>1
    <3>2. InARow(ops, e, k)
      BY KindOfConcat
    <3> QED BY <3>1, <3>2, Zenon DEF InARow
  <2>3. <<>> \o E = E
    BY <1>1, ConcatEmptySeq
  <2> QED BY <1>1, <2>1, <2>2, <2>3, Zenon
<1>3. LinesOf(Rewritten(lines, dead), k) = E
  <2>1. RetainedOps(lines) \in Seq(Line) /\ \A l \in ToSet(RetainedOps(lines)) : l.t \notin {"edit", "status"}
    BY RetainedOpsType
  <2>2. Rewritten(lines, dead) = RetainedOps(lines) \o E
    BY RewrittenReads DEF E
  <2> QED BY <1>2, <2>1, <2>2
<1>4. ASSUME dead \subseteq Ids(lines) PROVE LinesOf(SweptLog(lines, dead), k) = E
  <2> DEFINE ops == LinesOf(lines, {"batch", "scope", "skip"})
             count == SweptOp(Swept(lines) + Cardinality(dead))
  <2>1. SweptLog(lines, dead) = (ops \o <<count>>) \o E /\ count \in SweptLine
    BY <1>4, SweptReads DEF E
  <2>2. ops \in Seq(OfKind({"batch", "scope", "skip"}))
    BY LinesOfAreOnly
  <2> HIDE DEF ops, count
  <2>3. ops \in Seq(Line) /\ \A l \in ToSet(ops) : l.t \notin {"edit", "status"}
    BY <2>2, ElementsType, SeqMonotonic DEF OfKind
  <2>4. PICK c \in Seq(Line) : c = <<count>> /\ ToSet(c) = {count}
    BY <2>1, OneElement DEF Line
  <2>5. PICK oc \in Seq(Line) : oc = ops \o c
    BY <2>3, <2>4, ConcatProperties
  <2>6. ToSet(ops \o c) = ToSet(ops) \cup ToSet(c)
    BY <2>3, <2>4, ElementsOfConcat
  <2>7. \A l \in ToSet(oc) : l.t \notin {"edit", "status"}
    BY <2>1, <2>3, <2>4, <2>5, <2>6 DEF SweptLine
  <2>8. LinesOf(oc \o E, k) = E
    BY <1>2, <2>7
  <2> QED BY <2>1, <2>4, <2>5, <2>8, Zenon
<1> QED BY <1>3, <1>4 DEF E

\* The records that are not in `dead`.
Spared(dead) == {r \in Rec : r.id \notin dead}

\* A status line marks an edit the same, before others are taken out and after.
LEMMA ParseOfSpared ==
  ASSUME NEW recs \in Seq(Rec), NEW x \in StatusLine, NEW dead
  PROVE  Only(Parse(recs, x), Spared(dead)) =
           IF x.id \in dead THEN Only(recs, Spared(dead)) ELSE Parse(Only(recs, Spared(dead)), x)
<1> DEFINE K == Spared(dead)
           mark(y) == [y EXCEPT !.status = IF y.id = x.id THEN x.status ELSE @]
           S == {r \in Seq(Rec) : Only(Parse(r, x), K) = IF x.id \in dead THEN Only(r, K) ELSE Parse(Only(r, K), x)}
<1>0. Records = Seq(Rec)
  BY DEF Records, Rec
<1>1. ASSUME NEW y \in Rec PROVE mark(y) \in Rec /\ mark(y).id = y.id /\ (y.id # x.id => mark(y) = y)
  BY DEF Rec, StatusLine
<1>2. ASSUME NEW r \in Seq(Rec), NEW y \in Rec PROVE Parse(Append(r, y), x) = Append(Parse(r, x), mark(y))
  <2> DEFINE n == Len(r)
             u == Append(r, y)
  <2>1. /\ n \in Nat /\ u \in Seq(Rec) /\ Len(u) = n + 1 /\ DOMAIN u = 1 .. n + 1 /\ DOMAIN r = 1 .. n
        /\ u[n + 1] = y /\ \A i \in 1 .. n : u[i] = r[i]
    BY AppendProperties, LenProperties
  <2>2. PICK p \in Seq(Rec) : p = Parse(r, x) /\ Len(p) = n
    BY <1>0, ParseOfStatus
  <2> HIDE DEF mark
  <2>m. PICK m \in Rec : m = mark(y)
    BY <1>1
  <2> DEFINE q == Append(p, m)
  <2>3. /\ q \in Seq(Rec) /\ Len(q) = Len(p) + 1 /\ DOMAIN q = 1 .. Len(p) + 1 /\ DOMAIN p = 1 .. Len(p)
        /\ q[Len(p) + 1] = m /\ \A i \in 1 .. Len(p) : q[i] = p[i]
    BY AppendProperties, LenProperties
  <2>4. x.t = "status"
    BY DEF StatusLine
  <2> HIDE DEF n, u, q
  <2>5. n \in Nat /\ DOMAIN r = 1 .. n /\ DOMAIN u = 1 .. n + 1 /\ DOMAIN p = 1 .. n /\ DOMAIN q = 1 .. n + 1
    BY <2>1, <2>2, <2>3
  <2>6. p = [i \in 1 .. n |-> IF r[i].id = x.id THEN [r[i] EXCEPT !.status = x.status] ELSE r[i]]
    BY <2>2, <2>4, <2>5 DEF Parse
  <2>7. Parse(u, x) = [i \in 1 .. n + 1 |-> IF u[i].id = x.id THEN [u[i] EXCEPT !.status = x.status] ELSE u[i]]
    BY <2>4, <2>5 DEF Parse
  <2>8. mark(y) = IF y.id = x.id THEN [y EXCEPT !.status = x.status] ELSE y
    BY DEF mark, Rec
  <2>9. q = [i \in 1 .. n + 1 |-> q[i]]
    <3>1. q \in [1 .. Len(q) -> Rec] /\ Len(q) = n + 1
      BY <2>2, <2>3, LenProperties
    <3> QED BY <3>1
  <2>10. ASSUME NEW i \in 1 .. n + 1
         PROVE  q[i] = IF u[i].id = x.id THEN [u[i] EXCEPT !.status = x.status] ELSE u[i]
    <3>1. CASE i = n + 1
      BY <2>1, <2>3, <2>8, <2>m, <2>2, <3>1
    <3>2. CASE i \in 1 .. n
      <4>1. i \in 1 .. Len(p) /\ u[i] = r[i] /\ q[i] = p[i]
        BY <2>1, <2>2, <2>3, <3>2
      <4>2. p[i] = IF r[i].id = x.id THEN [r[i] EXCEPT !.status = x.status] ELSE r[i]
        BY <2>6, <3>2
      <4> QED BY <4>1, <4>2, Zenon
    <3> QED BY <2>5, <3>1, <3>2
  <2>11. Parse(u, x) = q
    BY <2>7, <2>9, <2>10
  <2> QED BY <2>2, <2>11, <2>m, Zenon DEF u, q
<1> HIDE DEF mark
<1>3. <<>> \in S
  <2>1. <<>> \in Seq(Rec) /\ Only(<<>>, K) = <<>>
    BY EmptySeq, OnlyOfEmpty
  <2>2. Parse(<<>>, x) = <<>>
    <3>1. PICK e \in Records : e = <<>> /\ Len(e) = 0
      BY <1>0, EmptySeq
    <3>2. Parse(e, x) \in Seq(Rec) /\ Len(Parse(e, x)) = 0
      BY <1>0, <3>1, ParseOfStatus
    <3>3. Parse(e, x) = <<>>
      BY <3>2, EmptySeq
    <3> QED BY <3>1, <3>3
  <2> QED BY <2>1, <2>2
<1>4. ASSUME NEW r \in Seq(Rec), NEW y \in Rec, r \in S PROVE Append(r, y) \in S
  <2>1. PICK p \in Seq(Rec), k \in Seq(Rec) : p = Parse(r, x) /\ k = Only(r, K)
    BY <1>0, ParseOfStatus, OnlyType
  <2>2. PICK u \in Seq(Rec) : u = Append(r, y)
    BY AppendProperties
  <2>3. Parse(u, x) = Append(p, mark(y))
    BY <1>2, <2>1, <2>2, Zenon
  <2>4. Only(Parse(u, x), K) = IF mark(y) \in K THEN Append(Only(p, K), mark(y)) ELSE Only(p, K)
    BY <1>1, <2>3, OnlyOfAppend
  <2>5. Only(u, K) = IF y \in K THEN Append(k, y) ELSE k
    BY <2>1, <2>2, OnlyOfAppend
  <2>6. y \in K <=> mark(y) \in K
    BY <1>1 DEF Spared
  <2>7. Only(p, K) = IF x.id \in dead THEN k ELSE Parse(k, x)
    BY <1>4, <2>1, Zenon
  <2>8. CASE y \notin K
    BY <2>2, <2>4, <2>5, <2>6, <2>7, <2>8, Zenon
  <2>9. CASE y \in K /\ x.id \in dead
    <3>1. mark(y) = y
      BY <1>1, <2>9 DEF Spared
    <3> QED BY <2>2, <2>4, <2>5, <2>7, <2>9, <3>1, Zenon
  <2>10. CASE y \in K /\ x.id \notin dead
    <3>1. Parse(Append(k, y), x) = Append(Parse(k, x), mark(y))
      BY <1>2
    <3> QED BY <2>2, <2>4, <2>5, <2>6, <2>7, <2>10, <3>1, Zenon
  <2> QED BY <2>8, <2>9, <2>10
<1>5. Seq(Rec) \subseteq S
  <2> HIDE DEF S
  <2> QED BY <1>3, <1>4, SeqInd
<1> QED BY <1>5

\* The lines that a repair leaves in the log.
Left(dead) == {l \in Line : l.t \in {"edit", "status"} => l.id \notin dead}

\* In a log of increasing ids every edit is read under the id it was written with, and so it was before the last line.
LEMMA CleanOfAppend ==
  ASSUME NEW t \in Seq(Line), NEW x \in Line, Clean(Append(t, x))
  PROVE  /\ Clean(t)
         /\ x.t = "edit" => x.id \notin IdsOf(ReadLog(t)) /\ FreshId(ReadLog(t), x.id) = x.id
<1>1. PICK raw \in Seq(EditLine) : raw = LinesOf(t, {"edit"})
  BY EditLines
<1>2. CASE x.t = "edit"
  <2>1. LinesOf(Append(t, x), {"edit"}) = Append(raw, x) /\ x \in EditLine
    BY <1>1, <1>2, KindOfAppend, LineKinds
  <2>2. Pairwise(Append(raw, x), RawOlder)
    BY <2>1 DEF Clean
  <2>3. Pairwise(raw, RawOlder) /\ \A y \in ToSet(raw) : <<y, x>> \in RawOlder
    BY <2>1, <2>2, PairwiseOfAppend
  <2>4. Clean(t)
    BY <1>1, <2>3 DEF Clean
  <2>5. Ids(t) = {y.id : y \in ToSet(raw)}
    BY <1>1, <2>4, CleanReads DEF RawIds
  <2>6. Ids(t) = IdsOf(ReadLog(t))
    BY DEF Ids, IdsOf, ToSet
  <2>7. x.id \notin IdsOf(ReadLog(t))
    <3> SUFFICES ASSUME x.id \in IdsOf(ReadLog(t)) PROVE FALSE
      OBVIOUS
    <3>1. PICK y \in ToSet(raw) : y.id = x.id
      BY <2>5, <2>6
    <3>2. y.id < x.id /\ x.id \in Nat
      BY <2>1, <2>3 DEF RawOlder, EditLine
    <3> QED BY <3>1, <3>2
  <2> QED BY <2>4, <2>7 DEF FreshId
<1>3. CASE x.t # "edit"
  <2>1. LinesOf(Append(t, x), {"edit"}) = LinesOf(t, {"edit"})
    BY <1>3, KindOfAppend
  <2>2. Clean(t)
    BY <2>1, Zenon DEF Clean
  <2> QED BY <1>3, <2>2
<1> QED BY <1>2, <1>3

\* What is left of a log when records are dropped, as a sequence and a set.
LEMMA DroppedIsOnly ==
  ASSUME NEW lines \in Seq(Line), NEW dead
  PROVE  DroppedRaw(lines, dead) = Only(lines, Left(dead))
<1> DEFINE A == {l \in ToSet(lines) : l.t \in {"edit", "status"} => l.id \notin dead}
<1>1. lines \in Seq(ToSet(lines)) /\ ToSet(lines) \subseteq Line
  BY ElementsType
<1>2. \A l \in ToSet(lines) : l \in A <=> l \in Left(dead)
  BY <1>1 DEF Left
<1>3. DroppedRaw(lines, dead) = Only(lines, A)
  BY DEF DroppedRaw
<1> HIDE DEF A
<1>4. Only(lines, A) = Only(lines, Left(dead))
  BY <1>1, <1>2, OnlyAgrees
<1> QED BY <1>3, <1>4

\* In a log of increasing ids a repair takes out the edits it names, and the rest of the log stays, and clean.
LEMMA DroppedReads ==
  ASSUME NEW lines \in Seq(Line), NEW dead, Clean(lines)
  PROVE  /\ ReadLog(DroppedRaw(lines, dead)) = Only(ReadLog(lines), Spared(dead))
         /\ Clean(DroppedRaw(lines, dead))
<1> DEFINE D == Left(dead)
           K == Spared(dead)
           S == {t \in Seq(Line) : Clean(t) => ReadLog(Only(t, D)) = Only(ReadLog(t), K)}
<1>1. <<>> \in S
  BY EmptySeq, OnlyOfEmpty, ReadOfEmpty
<1>2. ASSUME NEW t \in Seq(Line), NEW x \in Line, t \in S PROVE Append(t, x) \in S
  <2>1. PICK u \in Seq(Line) : u = Append(t, x)
    BY AppendProperties
  <2> SUFFICES ASSUME Clean(u) PROVE ReadLog(Only(u, D)) = Only(ReadLog(u), K)
    BY <2>1
  <2>2. PICK recs \in Seq(Rec), left \in Seq(Line), kept \in Seq(Rec) :
          recs = ReadLog(t) /\ left = Only(t, D) /\ kept = Only(recs, K)
    BY ReadRecords, OnlyType
  <2>3. ReadLog(u) = Parse(recs, x)
    BY <2>1, <2>2, ReadOfAppend
  <2>4. Only(u, D) = IF x \in D THEN Append(left, x) ELSE left
    BY <2>1, <2>2, OnlyOfAppend
  <2>5. ReadLog(Append(left, x)) = Parse(ReadLog(left), x)
    BY ReadOfAppend
  <2>6. Clean(t) /\ (x.t = "edit" => x.id \notin IdsOf(recs))
    BY <2>1, <2>2, CleanOfAppend
  <2>7. ReadLog(left) = kept
    BY <1>2, <2>2, <2>6, Zenon
  <2>8. ReadLog(Only(u, D)) = IF x \in D THEN Parse(kept, x) ELSE kept
    BY <2>4, <2>5, <2>7, Zenon
  <2>r. Records = Seq(Rec)
    BY DEF Records, Rec
  <2>9. CASE x.t = "edit"
    <3>1. x \in EditLine
      BY <2>9, LineKinds
    <3>2. x.id \notin IdsOf(recs)
      BY <2>6, <2>9
    <3>3. ToSet(kept) = ToSet(recs) \cap K
      BY <2>2, OnlyElements
    <3>4. x.id \notin IdsOf(kept)
      <4>1. \A q : IdsOf(q) = {y.id : y \in ToSet(q)}
        BY DEF IdsOf, ToSet
      <4> QED BY <3>2, <3>3, <4>1
    <3>5. PICK r \in Rec : r = [id |-> x.id, uid |-> x.uid, status |-> x.status] /\ r.id = x.id
      <4>1. x.id \in Nat /\ x.uid \in Nat /\ x.status \in Status
        BY <3>1 DEF EditLine
      <4>2. [id |-> x.id, uid |-> x.uid, status |-> x.status] \in Rec
        BY <4>1 DEF Rec
      <4> QED BY <4>2
    <3>6. Parse(recs, x) = Append(recs, r) /\ Parse(kept, x) = Append(kept, r)
      <4>1. FreshId(recs, x.id) = x.id /\ FreshId(kept, x.id) = x.id
        BY <3>2, <3>4 DEF FreshId
      <4>2. Parse(recs, x) = Append(recs, [id |-> FreshId(recs, x.id), uid |-> x.uid, status |-> x.status])
        BY <2>r, <3>1, ParseOfEdit
      <4>3. Parse(kept, x) = Append(kept, [id |-> FreshId(kept, x.id), uid |-> x.uid, status |-> x.status])
        BY <2>r, <3>1, ParseOfEdit
      <4> QED BY <3>5, <4>1, <4>2, <4>3, Zenon
    <3>7. Only(Append(recs, r), K) = IF r \in K THEN Append(kept, r) ELSE kept
      BY <2>2, OnlyOfAppend
    <3>8. x \in D <=> r \in K
      BY <2>9, <3>5 DEF Left, Spared
    <3> QED BY <2>3, <2>8, <3>6, <3>7, <3>8, Zenon
  <2>10. CASE x.t = "status"
    <3>1. x \in StatusLine
      BY <2>10, LineKinds
    <3>2. Only(Parse(recs, x), K) = IF x.id \in dead THEN kept ELSE Parse(kept, x)
      BY <2>2, <3>1, ParseOfSpared
    <3>3. x \in D <=> x.id \notin dead
      BY <2>10 DEF Left
    <3> QED BY <2>3, <2>8, <3>2, <3>3, Zenon
  <2>11. CASE x.t \notin {"edit", "status"}
    <3>1. Parse(recs, x) = recs /\ Parse(kept, x) = kept
      BY <2>11, ParseOfOther
    <3> QED BY <2>2, <2>3, <2>8, <3>1, Zenon
  <2> QED BY <2>9, <2>10, <2>11
<1>3. Seq(Line) \subseteq S
  <2> HIDE DEF S
  <2> QED BY <1>1, <1>2, SeqInd
<1>4. DroppedRaw(lines, dead) = Only(lines, D)
  BY DroppedIsOnly
<1>5. Clean(DroppedRaw(lines, dead))
  <2> DEFINE O == OfKind({"edit"})
  <2>1. PICK left \in Seq(Line) : left = Only(lines, D)
    BY OnlyType
  <2>2. LinesOf(left, {"edit"}) = Only(left, O) /\ LinesOf(lines, {"edit"}) = Only(lines, O)
    BY LinesOfAreOnly
  <2>3. Only(Only(lines, D), O) = Only(lines, D \cap O) /\ Only(Only(lines, O), D) = Only(lines, O \cap D)
    BY OnlyOfOnly
  <2>4. D \cap O = O \cap D
    OBVIOUS
  <2>5. PICK raw \in Seq(EditLine) : raw = LinesOf(lines, {"edit"})
    BY EditLines
  <2>6. Pairwise(Only(raw, D), RawOlder)
    BY <2>5, OnlyPairwise DEF Clean
  <2>7. LinesOf(left, {"edit"}) = Only(raw, D)
    BY <2>1, <2>2, <2>3, <2>4, <2>5, Zenon
  <2> QED BY <1>4, <2>1, <2>6, <2>7, Zenon DEF Clean
<1>6. ReadLog(Only(lines, D)) = Only(ReadLog(lines), K)
  BY <1>3
<1> QED BY <1>4, <1>5, <1>6

\* The ids of a log stay increasing, whatever is done to it.
CleanInv == Clean(session.log) => Clean(log)

\* A log that started with increasing ids keeps them so, by every step.
LEMMA StepCleanInv == TypeInv /\ CleanInv /\ [Next]_vars => CleanInv'
<1> SUFFICES ASSUME TypeInv, CleanInv, [Next]_vars, Clean(session.log) PROVE Clean(log')
  BY OtherSteps DEF CleanInv
<1>t. LogInv /\ log \in Seq(Line) /\ Clean(log)
  BY DEF TypeInv, LogInv, CleanInv
<1>1. PICK raw \in Seq(EditLine) : raw = LinesOf(log, {"edit"}) /\ Pairwise(raw, RawOlder)
  BY <1>t, EditLines DEF Clean
<1>2. CASE Leaves
  BY <1>t, <1>2 DEF Leaves
<1>3. CASE Captures
  <2>1. PICK e \in EditLine : NewEdit = <<e>> /\ e.id = NextId(log) /\ e.t = "edit"
    BY <1>t, NewEditType DEF NewEdit, Edit
  <2>2. PICK u \in Seq(Line) : u = Append(log, e) /\ log' = u
    <3>1. e \in Line
      BY DEF Line
    <3>2. Append(log, e) = log \o <<e>> /\ Append(log, e) \in Seq(Line)
      BY <1>t, <3>1, AppendIsConcat, AppendProperties
    <3> QED BY <1>3, <2>1, <3>2 DEF Captures
  <2>3. LinesOf(u, {"edit"}) = Append(raw, e)
    BY <1>t, <1>1, <2>1, <2>2, KindOfAppend DEF Line
  <2>4. \A y \in ToSet(raw) : y \in EditLine /\ y.id < e.id
    BY <1>t, <1>1, <2>1, NextIdAbove, CleanReads, ElementsType DEF RawIds
  <2>5. \A y \in ToSet(raw) : <<y, e>> \in RawOlder
    BY <2>4 DEF RawOlder
  <2>6. Pairwise(Append(raw, e), RawOlder)
    BY <1>1, <2>5, PairwiseOfAppend
  <2> QED BY <2>2, <2>3, <2>6, Zenon DEF Clean
<1>4. ASSUME NEW base \in Seq(Line), Clean(base), NEW q \in Seq(Line), log' = base \o q,
             \A l \in ToSet(q) : l.t # "edit"
      PROVE  Clean(log')
  <2>1. LinesOf(q, {"edit"}) = <<>>
    BY <1>4, NoneOfKind
  <2>2. LinesOf(base \o q, {"edit"}) = LinesOf(base, {"edit"}) \o LinesOf(q, {"edit"})
    <3>1. InARow(base, q, {"edit"})
      BY KindOfConcat
    <3> QED BY <3>1, Zenon DEF InARow
  <2>3. PICK old \in Seq(EditLine) : old = LinesOf(base, {"edit"}) /\ Pairwise(old, RawOlder)
    BY <1>4, EditLines DEF Clean
  <2>4. old \o <<>> = old
    BY ConcatEmptySeq
  <2> QED BY <1>4, <2>1, <2>2, <2>3, <2>4, Zenon DEF Clean
<1>5. CASE \E q, r \in Seq(Line) : Appends(q, r)
  <2>1. PICK q \in Seq(Line), p \in Seq(Line) :
          log' = Ended \o q /\ ToSet(q) \subseteq ToSet(p) /\ (Remarks(p) \/ \E st \in Status : Marks(p, st))
    BY <1>5 DEF Appends
  <2>2. \A l \in ToSet(q) : l.t # "edit"
    BY <2>1 DEF Remarks, Marks
  <2>3. PICK base \in Seq(Line) : base = Ended /\ (log = base \/ \E l \in Line : log = Append(base, l))
    BY <1>t, EndedOfLog
  <2>4. Clean(base)
    <3>1. ASSUME NEW l \in Line, log = Append(base, l) PROVE Clean(base)
      <4>1. Clean(Append(base, l))
        BY <1>t, <3>1, Zenon
      <4> QED BY <4>1, CleanOfAppend
    <3> QED BY <1>t, <2>3, <3>1, Zenon
  <2>5. log' = base \o q
    BY <2>1, <2>3
  <2> QED BY <1>4, <2>2, <2>4, <2>5
<1>6. ASSUME NEW ids, LinesOf(log', {"edit"}) = EditsOf(Survivors(log, ids)) PROVE Clean(log')
  <2>1. PICK k \in Seq(Rec) : k = Survivors(log, ids) /\ Pairwise(k, IdOlder)
    <3>1. ReadLog(log) \in Seq(Rec) /\ Pairwise(ReadLog(log), IdOlder)
      BY <1>t, ReadRecords, CleanReads
    <3> QED BY <3>1, OnlyPairwise, OnlyType DEF Survivors
  <2>2. DOMAIN EditsOf(k) = DOMAIN k /\ \A i \in DOMAIN k : EditsOf(k)[i] \in EditLine /\ EditsOf(k)[i].id = k[i].id
    <3>1. \A i \in DOMAIN k : k[i] \in Rec
      BY ElementOfSeq, LenProperties
    <3> QED BY <3>1 DEF EditsOf, Edit, EditLine, Rec
  <2>3. Pairwise(EditsOf(k), RawOlder)
    <3> SUFFICES ASSUME NEW i \in DOMAIN k, NEW j \in DOMAIN k, i < j
                 PROVE  <<EditsOf(k)[i], EditsOf(k)[j]>> \in RawOlder
      BY <2>2 DEF Pairwise
    <3>1. <<k[i], k[j]>> \in IdOlder
      BY <2>1 DEF Pairwise
    <3>2. k[i].id < k[j].id
      BY <3>1 DEF IdOlder
    <3> QED BY <2>2, <3>2 DEF RawOlder
  <2> QED BY <1>6, <2>1, <2>3, Zenon DEF Clean
<1>7. CASE Cleared
  BY <1>t, <1>6, <1>7, EditsOfRewrites DEF Cleared
<1>8. CASE SweptAway
  BY <1>t, <1>6, <1>8, EditsOfRewrites DEF SweptAway
<1>9. CASE Dropped
  BY <1>t, <1>9, DroppedReads DEF Dropped
<1> QED BY <1>2, <1>3, <1>5, <1>7, <1>8, <1>9, LogSteps, Zenon

-----------------------------------------------------------------------------
(* What a step does to the edits that a log is read as.                    *)

\* A capture that is in the log is read as a pending edit under an id that no other has.
Added(was, now) ==
  \E r \in Rec : now = Append(was, r) /\ r.uid = edits + 1 /\ r.status = "pending" /\ r.id \notin IdsOf(was)

\* Records are taken out, of those in `gone`.
Thinned(was, now, gone) == \E A : now = Only(was, A) /\ \A r \in ToSet(was) : r \in A \/ r \in gone

Settled == {r \in Rec : r.status \in {"kept", "undone"}}
TakenOut == {r \in Rec : r.uid \in Excluded}

\* The records that a repair takes out are those in `gone`, and of a log of increasing ids.
Drops(gone) ==
  \A f \in FrontEnds : DropRecords(f) =>
    Clean(log) /\ \A r \in ToSet(ReadLog(log)) : r.id \in Head(todo[f]).ids => r \in gone

\* The edits that an append starts from, those it leaves, and those of them that are ended, when it captures none:
\* they differ by one status, if at all.
Decides ==
  /\ \E st \in Status : /\ Remarked(ReadLog(Ended), ReadLog(log'), st)
                        /\ Remarked(ReadLog(Ended), ReadLog(Ended'), st)
  /\ edits' = edits \/ (edits' = edits + 1 /\ edits < session.edits)
  /\ Miss

\* Records are taken out by a clear, a sweep or a repair.
Thins(gone) ==
  /\ torn' = "no" /\ UNCHANGED <<edits, missed>>
  /\ \/ (\E f \in FrontEnds : Clear(f)) /\ Thinned(ReadLog(log), ReadLog(log'), Settled)
     \/ Sweep /\ Thinned(ReadLog(log), ReadLog(log'), TakenOut)
     \/ (\E f \in FrontEnds : DropRecords(f)) /\ Thinned(ReadLog(log), ReadLog(log'), gone)

\* A captured edit is read last, under an id that no other edit has.
LEMMA CaptureReads ==
  ASSUME LogInv, log' = log \o NewEdit
  PROVE  /\ Added(ReadLog(log), ReadLog(log'))
         /\ \E r \in Rec : /\ ReadLog(log') = Append(ReadLog(log), r)
                          /\ r.uid = edits + 1 /\ r.id = FreshId(ReadLog(log), NextId(log))
<1>1. PICK e \in EditLine : /\ e = Edit(NextId(log), edits + 1, "pending")
                            /\ e.uid = edits + 1 /\ e.status = "pending" /\ e.id = NextId(log)
  BY NewEditType DEF Edit
<1>2. log \in Seq(Line) /\ e \in Line
  BY DEF LogInv, Line
<1>3. Append(log, e) = log \o <<e>>
  BY <1>2, AppendIsConcat
<1>4. log' = Append(log, e)
  BY <1>1, <1>3, Zenon DEF NewEdit
<1>5. PICK recs \in Records : recs = ReadLog(log)
  BY <1>2, ReadType
<1>6. ReadLog(log') = Parse(recs, e)
  BY <1>2, <1>4, <1>5, ReadOfAppend
<1>7. PICK r \in Rec : /\ Parse(recs, e) = Append(recs, r)
                       /\ r = [id |-> FreshId(recs, e.id), uid |-> e.uid, status |-> e.status]
  BY ParseOfEdit
<1>8. r.id \notin IdsOf(recs) /\ r.uid = edits + 1 /\ r.status = "pending"
  BY <1>1, <1>7, FreshIdIsFree DEF EditLine
<1>9. ReadLog(log') = Append(recs, r) /\ r.id = FreshId(recs, NextId(log))
  BY <1>1, <1>6, <1>7
<1>10. Added(recs, ReadLog(log'))
  BY <1>8, <1>9, Zenon DEF Added
<1> QED BY <1>5, <1>8, <1>9, <1>10, Zenon

\* What a step may do to the edits that are read.
LEMMA ReadSteps ==
  ASSUME TypeInv, [Next]_vars, NEW gone, Drops(gone)
  PROVE  \/ Leaves
         \/ ~Rewrites /\ Captures /\ Added(ReadLog(log), ReadLog(log'))
         \/ ~Rewrites /\ Decides
         \/ Rewrites /\ Thins(gone)
<1>t. LogInv /\ log \in Seq(Line) /\ session \in Sessions
  BY DEF TypeInv, LogInv
<1>r. \A r \in ToSet(ReadLog(log)) : r \in Rec
  BY <1>t, ReadRecords
<1>1. Captures => Added(ReadLog(log), ReadLog(log'))
  BY <1>t, CaptureReads DEF Captures
<1>3. ASSUME NEW q \in Seq(Line), NEW r \in Seq(Line), Appends(q, r) PROVE Decides
  <2>1. PICK p \in Seq(Line) : /\ ToSet(q) \subseteq ToSet(p) /\ ToSet(r) \subseteq ToSet(p)
                               /\ Remarks(p) \/ \E st \in Status : Marks(p, st)
    BY <1>3 DEF Appends
  <2>2. PICK st \in Status : \A l \in ToSet(p) : l.t # "edit" /\ (l.t = "status" => l.status = st)
    <3>1. CASE Remarks(p)
      <4>1. "kept" \in Status
        BY DEF Status
      <4> QED BY <3>1, <4>1 DEF Remarks
    <3>2. CASE \E st \in Status : Marks(p, st)
      BY <3>2 DEF Marks
    <3> QED BY <2>1, <3>1, <3>2
  <2>3. PICK base \in Seq(Line) : base = Ended
    BY <1>t, EndedOfLog
  <2>4. Remarked(ReadLog(base), ReadLog(base \o q), st) /\ Remarked(ReadLog(base), ReadLog(base \o r), st)
    BY <2>1, <2>2, ReadOfStatuses
  <2>5. log' = base \o q /\ Ended' = base \o r
    BY <1>3, <2>3 DEF Appends
  <2>6. Remarked(ReadLog(Ended), ReadLog(log'), st) /\ Remarked(ReadLog(Ended), ReadLog(Ended'), st)
    BY <2>3, <2>4, <2>5, Zenon
  <2> QED BY <1>3, <2>6 DEF Appends, Decides
<1>4. ASSUME Cleared PROVE (\E f \in FrontEnds : Clear(f)) /\ Thinned(ReadLog(log), ReadLog(log'), Settled)
  <2>1. PICK ids \in SUBSET WithStatus({"kept", "undone"}) : log' = Rewritten(log, ids)
    BY <1>4 DEF Cleared
  <2> DEFINE A == {r \in ToSet(ReadLog(log)) : r.id \notin ids}
  <2>2. ReadLog(log') = Only(ReadLog(log), A)
    BY <1>t, <2>1, RewrittenReads DEF Survivors
  <2>3. \A r \in ToSet(ReadLog(log)) : r \in A \/ r \in Settled
    <3> SUFFICES ASSUME NEW r \in ToSet(ReadLog(log)), r.id \in ids PROVE r \in Settled
      OBVIOUS
    <3>1. PICK q \in ToSet(ReadLog(log)) : q.id = r.id /\ q.status \in {"kept", "undone"}
      BY DEF WithStatus
    <3>2. q = r
      BY <1>t, <3>1, IdsTell
    <3> QED BY <1>r, <3>1, <3>2 DEF Settled
  <2>4. Thinned(ReadLog(log), ReadLog(log'), Settled)
    BY <2>2, <2>3 DEF Thinned
  <2> QED BY <1>4, <2>4 DEF Cleared
<1>5. ASSUME SweptAway PROVE Sweep /\ Thinned(ReadLog(log), ReadLog(log'), TakenOut)
  <2>1. PICK dead \in SUBSET Ids(log) : /\ dead = {r.id : r \in {q \in ToSet(ReadLog(log)) : q.uid \in Ignored}}
                                        /\ log' = SweptLog(log, dead)
    BY <1>5 DEF SweptAway
  <2> DEFINE A == {r \in ToSet(ReadLog(log)) : r.id \notin dead}
  <2>2. ReadLog(log') = Only(ReadLog(log), A)
    <3>1. ReadLog(SweptLog(log, dead)) = Survivors(log, dead)
      BY <1>t, SweptReads
    <3>2. Survivors(log, dead) = Only(ReadLog(log), A)
      BY Zenon DEF Survivors
    <3> QED BY <2>1, <3>1, <3>2, Zenon
  <2>3. \A r \in ToSet(ReadLog(log)) : r \in A \/ r \in TakenOut
    <3> SUFFICES ASSUME NEW r \in ToSet(ReadLog(log)), r.id \in dead PROVE r \in TakenOut
      OBVIOUS
    <3>1. PICK q \in ToSet(ReadLog(log)) : q.id = r.id /\ q.uid \in Ignored
      BY <2>1
    <3>2. q = r
      BY <1>t, <3>1, IdsTell
    <3> QED BY <1>r, <3>1, <3>2 DEF TakenOut, Excluded
  <2>4. Thinned(ReadLog(log), ReadLog(log'), TakenOut)
    BY <2>2, <2>3 DEF Thinned
  <2> QED BY <1>5, <2>4 DEF SweptAway
<1>6. ASSUME Dropped PROVE (\E f \in FrontEnds : DropRecords(f)) /\ Thinned(ReadLog(log), ReadLog(log'), gone)
  <2>1. PICK f \in FrontEnds : DropRecords(f) /\ log' = DroppedRaw(log, Head(todo[f]).ids)
    BY <1>6 DEF Dropped
  <2>2. Clean(log) /\ \A r \in ToSet(ReadLog(log)) : r.id \in Head(todo[f]).ids => r \in gone
    BY <2>1 DEF Drops
  <2>3. ReadLog(log') = Only(ReadLog(log), Spared(Head(todo[f]).ids))
    BY <1>t, <2>1, <2>2, DroppedReads
  <2>4. \A r \in ToSet(ReadLog(log)) : r \in Spared(Head(todo[f]).ids) \/ r \in gone
    BY <1>r, <2>2 DEF Spared
  <2>5. Thinned(ReadLog(log), ReadLog(log'), gone)
    BY <2>3, <2>4 DEF Thinned
  <2> QED BY <2>1, <2>5
<1> QED BY <1>1, <1>3, <1>4, <1>5, <1>6, LogSteps, Zenon DEF Thins

\* What a step may do to the work a front end has in hand.
LEMMA TodoSteps ==
  ASSUME TypeInv, [Next]_vars, NEW f \in FrontEnds
  PROVE  \/ todo'[f] = todo[f] /\ ~DropRecords(f)
         \/ todo[f] # <<>> /\ todo'[f] = Tail(todo[f])
         \/ todo'[f] = <<>>
         \/ /\ f \in session.by /\ todo[f] = <<>> /\ log' = log
            /\ \/ todo'[f] \in Seq(Marking)
               \/ \E w \in Asked : todo'[f] = <<w>> /\ NamesPhantoms(w.ids)
<1> DEFINE P == \/ todo'[f] = todo[f] /\ ~DropRecords(f)
                \/ todo[f] # <<>> /\ todo'[f] = Tail(todo[f])
                \/ todo'[f] = <<>>
                \/ /\ f \in session.by /\ todo[f] = <<>> /\ log' = log
                   /\ \/ todo'[f] \in Seq(Marking)
                      \/ \E w \in Asked : todo'[f] = <<w>> /\ NamesPhantoms(w.ids)
<1> SUFFICES P
  OBVIOUS
<1>t. todo \in [FrontEnds -> Seq(Asked)] /\ \A g \in FrontEnds : read[g] # Nothing => todo[g] # <<>>
  BY DEF TypeInv, JobInv
<1>1. ASSUME DropRecords(f) PROVE P
  BY <1>1, <1>t DEF DropRecords, Dropping, Idle
<1>2. ASSUME todo'[f] = todo[f] PROVE P
  BY <1>1, <1>2
<1>3. ASSUME NEW g \in FrontEnds, NEW w, g # f, todo' = [todo EXCEPT ![g] = w] PROVE P
  BY <1>2, <1>3, <1>t
<1>4. CASE CaptureEdit \/ CaptureTorn \/ ReportSkip \/ WriteRule \/ Sweep
  <2>1. todo' = todo
    BY <1>4 DEF CaptureEdit, CaptureTorn, ReportSkip, WriteRule, Sweep
  <2> QED BY <1>2, <2>1, Zenon
<1>5. ASSUME NEW g \in FrontEnds, Keep(g) \/ Undo(g) \/ Redo(g) \/ RevertLast(g) PROVE P
  <2>1. PICK w \in Seq(Marking) : Ask(g, w)
    BY <1>5, DecisionAsks
  <2>2. g \in session.by /\ todo[g] = <<>> /\ log' = log /\ todo' = [todo EXCEPT ![g] = w]
    BY <1>5, <2>1, DecisionAsks DEF Ask, Ready, Idle
  <2>3. CASE g = f
    BY <1>t, <2>2, <2>3
  <2> QED BY <1>3, <2>2, <2>3, Zenon
<1>6. ASSUME NEW g \in FrontEnds, Repair(g) PROVE P
  <2>1. PICK w \in Asked : Ask(g, <<w>>) /\ NamesPhantoms(w.ids)
    BY <1>6, RepairAsks
  <2>2. g \in session.by /\ todo[g] = <<>> /\ log' = log /\ todo' = [todo EXCEPT ![g] = <<w>>]
    BY <1>6, <2>1, RepairAsks DEF Ask, Ready, Idle
  <2>3. CASE g = f
    <3>1. todo'[f] = <<w>>
      BY <1>t, <2>2, <2>3, Zenon
    <3> QED BY <2>1, <2>2, <2>3, <3>1, Zenon
  <2> QED BY <1>3, <2>2, <2>3, Zenon
<1>7. ASSUME NEW g \in FrontEnds, ReadStatuses(g) \/ AppendStatuses(g) \/ Abandon(g) \/ DropRecords(g) PROVE P
  <2>1. \/ todo' = todo
        \/ todo' = [todo EXCEPT ![g] = <<>>]
        \/ todo[g] # <<>> /\ todo' = [todo EXCEPT ![g] = Tail(todo[g])]
    BY <1>7, <1>t DEF ReadStatuses, AppendStatuses, Abandon, DropRecords, Dropping, Idle
  <2>2. CASE g = f
    BY <1>2, <1>t, <2>1, <2>2
  <2> QED BY <1>2, <1>3, <2>1, <2>2, Zenon
<1>8. ASSUME NEW g \in FrontEnds, Assign(g) \/ Clear(g) PROVE P
  <2>1. todo' = todo
    BY <1>8 DEF Assign, Clear
  <2> QED BY <1>2, <2>1, Zenon
<1>9. CASE UNCHANGED vars
  <2>1. todo' = todo
    BY <1>9 DEF vars
  <2> QED BY <1>2, <2>1, Zenon
<1> HIDE DEF P
<1>10. CASE \E g \in FrontEnds : \/ Keep(g) \/ Undo(g) \/ Redo(g) \/ RevertLast(g) \/ ReadStatuses(g)
                                 \/ AppendStatuses(g) \/ Abandon(g) \/ Assign(g) \/ Clear(g)
                                 \/ Repair(g) \/ DropRecords(g)
  BY <1>5, <1>6, <1>7, <1>8, <1>10
<1> QED BY <1>4, <1>9, <1>10 DEF Next

\* Where phantoms may be dropped, ids increase.
Whole == \A s \in Sessions : s.phantoms # {} => Clean(s.log)

\* Only of phantoms has a front end asked that they be dropped.
PhantomInv == \A f \in FrontEnds : todo[f] \notin Seq(Marking) => session.phantoms # {}

\* No step asks for records to be dropped where there are no phantoms.
LEMMA StepPhantomInv == TypeInv /\ PhantomInv /\ [Next]_vars => PhantomInv'
<1> SUFFICES ASSUME TypeInv, PhantomInv, [Next]_vars, NEW f \in FrontEnds, todo'[f] \notin Seq(Marking)
             PROVE  session.phantoms # {}
  BY OtherSteps DEF PhantomInv
<1>1. CASE todo'[f] = todo[f] \/ (todo[f] # <<>> /\ todo'[f] = Tail(todo[f]))
  <2> SUFFICES ASSUME todo[f] \in Seq(Marking) PROVE FALSE
    BY DEF PhantomInv
  <2>1. CASE todo[f] # <<>> /\ todo'[f] = Tail(todo[f])
    <3>1. Tail(todo[f]) \in Seq(Marking)
      BY <2>1, HeadTailProperties
    <3> QED BY <2>1, <3>1, Zenon
  <2> QED BY <1>1, <2>1
<1>2. CASE todo'[f] = <<>>
  BY <1>2, EmptySeq
<1>3. CASE \E w \in Asked : todo'[f] = <<w>> /\ NamesPhantoms(w.ids)
  BY <1>3 DEF NamesPhantoms
<1> QED BY <1>1, <1>2, <1>3, TodoSteps, Zenon

\* What a front end that drops records has asked for is no status.
LEMMA DroppingAsks ==
  ASSUME NEW f \in FrontEnds, DropRecords(f)
  PROVE  todo[f] \notin Seq(Marking)
<1> SUFFICES ASSUME todo[f] \in Seq(Marking) PROVE FALSE
  OBVIOUS
<1>1. todo[f] # <<>> /\ Head(todo[f]).status = "dropped"
  BY DEF DropRecords, Dropping, Idle
<1>2. Head(todo[f]) \in Marking
  BY <1>1, HeadTailProperties
<1> QED BY <1>1, <1>2 DEF Marking, Status

\* Records are dropped from logs with increasing ids, and take only themselves along.
LEMMA DropsSome ==
  ASSUME Whole, TypeInv, CleanInv, PhantomInv
  PROVE  Drops(Rec)
<1>1. log \in Seq(Line) /\ session \in Sessions
  BY DEF TypeInv, LogInv
<1>2. \A r \in ToSet(ReadLog(log)) : r \in Rec
  BY <1>1, ReadRecords
<1>3. \A f \in FrontEnds : DropRecords(f) => Clean(log)
  BY <1>1, DroppingAsks DEF PhantomInv, Whole, CleanInv
<1> QED BY <1>2, <1>3 DEF Drops

-----------------------------------------------------------------------------
(* The edits of the ledger.                                                *)

\* The edits that are read stand in the order they were captured; each was captured whole.
LedgerInv ==
  /\ edits <= session.edits
  /\ missed \subseteq 1 .. edits
  /\ Pairwise(ReadLog(log), Older)
  /\ \A r \in ToSet(ReadLog(log)) : r.uid \in (1 .. edits) \ missed

\* A log of edit lines alone is read as those edits, if not under the ids as written.
LEMMA ReadOfEditLines ==
  ASSUME NEW s \in Seq(EditLine)
  PROVE  /\ Len(ReadLog(s)) = Len(s)
         /\ \A i \in 1 .. Len(s) : ReadLog(s)[i].uid = s[i].uid /\ ReadLog(s)[i].status = s[i].status
<1> DEFINE Same(q) == /\ Len(ReadLog(q)) = Len(q)
                      /\ \A i \in 1 .. Len(q) : ReadLog(q)[i].uid = q[i].uid /\ ReadLog(q)[i].status = q[i].status
           S == {q \in Seq(EditLine) : Same(q)}
<1>1. <<>> \in S
  BY ReadOfEmpty, EmptySeq
<1>2. ASSUME NEW q \in Seq(EditLine), NEW x \in EditLine, q \in S PROVE Append(q, x) \in S
  <2>1. q \in Seq(Line) /\ x \in Line
    BY SeqMonotonic DEF Line
  <2>2. PICK recs \in Records : recs = ReadLog(q)
    BY <2>1, ReadType
  <2>3. recs \in Seq(Rec)
    BY <2>2 DEF Records, Rec
  <2> DEFINE u == Append(q, x)
  <2>4. u \in Seq(EditLine) /\ Len(u) = Len(q) + 1 /\ u[Len(q) + 1] = x /\ \A i \in 1 .. Len(q) : u[i] = q[i]
    BY AppendProperties
  <2>5. ReadLog(u) = Parse(recs, x)
    BY <2>1, <2>2, ReadOfAppend
  <2>6. PICK r \in Rec : Parse(recs, x) = Append(recs, r) /\ r.uid = x.uid /\ r.status = x.status
    BY ParseOfEdit
  <2> DEFINE v == Append(recs, r)
  <2>7. v \in Seq(Rec) /\ Len(v) = Len(recs) + 1 /\ v[Len(recs) + 1] = r /\ \A i \in 1 .. Len(recs) : v[i] = recs[i]
    BY <2>3, AppendProperties
  <2>8. ReadLog(u) = v
    BY <2>5, <2>6
  <2> HIDE DEF u, v
  <2>9. Len(q) \in Nat /\ Len(recs) = Len(q)
        /\ \A i \in 1 .. Len(q) : recs[i].uid = q[i].uid /\ recs[i].status = q[i].status
    BY <1>2, <2>2, LenProperties
  <2>10. Len(v) = Len(u) /\ \A i \in 1 .. Len(u) : v[i].uid = u[i].uid /\ v[i].status = u[i].status
    <3> DEFINE n == Len(q)
    <3>1. n \in Nat /\ Len(u) = n + 1 /\ Len(v) = n + 1 /\ Len(recs) = n
      BY <2>4, <2>7, <2>9
    <3> SUFFICES ASSUME NEW i \in 1 .. n + 1 PROVE v[i].uid = u[i].uid /\ v[i].status = u[i].status
      BY <3>1
    <3>2. CASE i = n + 1
      <4>1. u[i] = x /\ v[i] = r
        BY <2>4, <2>7, <3>1, <3>2
      <4> QED BY <2>6, <4>1
    <3>3. CASE i \in 1 .. n
      <4>1. u[i] = q[i] /\ v[i] = recs[i] /\ recs[i].uid = q[i].uid /\ recs[i].status = q[i].status
        BY <2>4, <2>7, <2>9, <3>1, <3>3
      <4> QED BY <4>1
    <3> QED BY <3>1, <3>2, <3>3
  <2>11. Same(u)
    BY <2>8, <2>10
  <2>12. Append(q, x) \in Seq(EditLine) /\ Same(Append(q, x))
    BY <2>4, <2>11 DEF u
  <2> HIDE DEF Same
  <2> QED BY <2>12
<1>3. Seq(EditLine) \subseteq S
  <2> HIDE DEF S
  <2> QED BY <1>1, <1>2, SeqInd
<1> QED BY <1>3

\* A session starts with the edits of its log, all pending.
LEMMA InitReads ==
  ASSUME Init
  PROVE  /\ ReadLog(log) \in Seq(Rec) /\ Len(ReadLog(log)) = edits
         /\ \A i \in 1 .. edits : ReadLog(log)[i].uid = i /\ ReadLog(log)[i].status = "pending"
<1>1. session \in Sessions /\ log = session.log /\ edits = Len(log)
  BY DEF Init
<1>2. log \in Seq([t : {"edit"}, id : Nat, uid : Nat, status : {"pending"}]) /\ \A i \in DOMAIN log : log[i].uid = i
  BY <1>1
<1>3. [t : {"edit"}, id : Nat, uid : Nat, status : {"pending"}] \subseteq EditLine
  BY DEF EditLine, Status
<1>4. log \in Seq(EditLine) /\ DOMAIN log = 1 .. Len(log) /\ log \in Seq(Line)
  <2>1. log \in Seq(EditLine)
    BY <1>2, <1>3, SeqMonotonic, Zenon
  <2> QED BY <2>1, SeqMonotonic, LenProperties DEF Line
<1>5. \A i \in 1 .. Len(log) : log[i].uid = i /\ log[i].status = "pending"
  <2> DEFINE First == [t : {"edit"}, id : Nat, uid : Nat, status : {"pending"}]
  <2>1. \A l \in First : l.status = "pending"
    OBVIOUS
  <2>2. log \in Seq(First)
    BY <1>2
  <2> HIDE DEF First
  <2>3. \A i \in 1 .. Len(log) : log[i] \in First
    BY <2>2, ElementOfSeq
  <2> QED BY <1>2, <1>4, <2>1, <2>3
<1>6. ReadLog(log) \in Seq(Rec)
  BY <1>4, ReadRecords
<1>7. /\ Len(ReadLog(log)) = Len(log)
      /\ \A i \in 1 .. Len(log) : ReadLog(log)[i].uid = log[i].uid /\ ReadLog(log)[i].status = log[i].status
  BY <1>4, ReadOfEditLines
<1> DEFINE recs == ReadLog(log)
<1> HIDE DEF recs
<1>8. \A i \in 1 .. edits : recs[i].uid = i /\ recs[i].status = "pending"
  BY <1>1, <1>5, <1>7 DEF recs
<1>9. recs \in Seq(Rec) /\ Len(recs) = edits
  BY <1>1, <1>6, <1>7, Zenon DEF recs
<1> QED BY <1>8, <1>9, Zenon DEF recs

\* At the start the edits of the log are those captured, in order.
LEMMA InitLedgerInv == Init => LedgerInv
<1> SUFFICES ASSUME Init PROVE LedgerInv
  OBVIOUS
<1> DEFINE recs == ReadLog(log)
<1>1. recs \in Seq(Rec) /\ Len(recs) = edits /\ \A i \in 1 .. edits : recs[i].uid = i
  BY InitReads
<1>2. session \in Sessions /\ edits = Len(session.log) /\ missed = {}
  BY DEF Init
<1> HIDE DEF recs
<1>3. edits \in Nat /\ DOMAIN recs = 1 .. edits /\ \A i \in 1 .. edits : recs[i] \in Rec
  BY <1>1, LenProperties, ElementOfSeq
<1>4. edits <= session.edits
  BY <1>2
<1>5. Pairwise(recs, Older)
  BY <1>1, <1>3 DEF Pairwise, Older
<1>6. \A r \in ToSet(recs) : r.uid \in (1 .. edits) \ missed
  BY <1>1, <1>2, <1>3 DEF ToSet
<1> QED BY <1>2, <1>4, <1>5, <1>6 DEF LedgerInv, recs

\* Statuses leave the order of edits, and which they are.
LEMMA RemarkedKeeps ==
  ASSUME NEW was \in Seq(Rec), NEW now \in Seq(Rec), NEW st, Remarked(was, now, st)
  PROVE  /\ Pairwise(was, Older) => Pairwise(now, Older)
         /\ \A r \in ToSet(now) : \E q \in ToSet(was) : r.uid = q.uid /\ r.id = q.id /\ r.status \in {q.status, st}
<1>1. /\ DOMAIN was = 1 .. Len(was) /\ DOMAIN now = 1 .. Len(was) /\ \A i \in 1 .. Len(was) : now[i] \in Rec
      /\ \A i \in 1 .. Len(was) :
           now[i].id = was[i].id /\ now[i].uid = was[i].uid /\ now[i].status \in {was[i].status, st}
  BY LenProperties, ElementOfSeq DEF Remarked
<1>2. ASSUME Pairwise(was, Older) PROVE Pairwise(now, Older)
  <2> SUFFICES ASSUME NEW i \in 1 .. Len(was), NEW j \in 1 .. Len(was), i < j PROVE <<now[i], now[j]>> \in Older
    BY <1>1 DEF Pairwise
  <2>1. <<was[i], was[j]>> \in Older
    BY <1>1, <1>2 DEF Pairwise
  <2>2. was[i].uid < was[j].uid
    BY <2>1 DEF Older
  <2> QED BY <1>1, <2>2 DEF Older
<1> QED BY <1>1, <1>2 DEF ToSet

\* What is left of the edits keeps its order.
LEMMA ThinnedKeeps ==
  ASSUME NEW was \in Seq(Rec), NEW now, NEW gone, Thinned(was, now, gone)
  PROVE  /\ Pairwise(was, Older) => Pairwise(now, Older)
         /\ now \in Seq(Rec) /\ ToSet(now) \subseteq ToSet(was)
         /\ \A r \in ToSet(was) : r \in ToSet(now) \/ r \in gone
<1>1. PICK A : now = Only(was, A) /\ \A r \in ToSet(was) : r \in A \/ r \in gone
  BY DEF Thinned
<1>2. ToSet(now) = ToSet(was) \cap A /\ now \in Seq(Rec)
  BY <1>1, OnlyElements, OnlyType
<1> QED BY <1>1, <1>2, OnlyPairwise

\* The edits of the lines that an append leaves readable are among those of the log.
LEMMA EndedIsRead ==
  ASSUME LogInv, Pairwise(ReadLog(log), Older)
  PROVE  /\ Ended \in Seq(Line) /\ ReadLog(Ended) \in Seq(Rec) /\ Pairwise(ReadLog(Ended), Older)
         /\ \A r \in ToSet(ReadLog(Ended)) : \E q \in ToSet(ReadLog(log)) : r.uid = q.uid /\ r.id = q.id
<1>1. log \in Seq(Line)
  BY DEF LogInv
<1>2. PICK base \in Seq(Line) : base = Ended /\ (log = base \/ \E l \in Line : log = Append(base, l))
  BY EndedOfLog
<1>3. ReadLog(base) \in Seq(Rec)
  BY ReadRecords
<1>4. /\ Pairwise(ReadLog(base), Older)
      /\ \A r \in ToSet(ReadLog(base)) : \E q \in ToSet(ReadLog(log)) : r.uid = q.uid /\ r.id = q.id
  BY <1>1, <1>2, EndedReads
<1> QED BY <1>2, <1>3, <1>4

\* No edit that is read is new to the log, but for one that is captured whole.
LEMMA ReadBefore ==
  ASSUME NEW was \in Seq(Rec), NEW back \in Seq(Rec), NEW now \in Seq(Rec), NEW st, Remarked(back, now, st),
         \A r \in ToSet(back) : \E q \in ToSet(was) : r.uid = q.uid /\ r.id = q.id
  PROVE  \A r \in ToSet(now) : \E q \in ToSet(was) : r.uid = q.uid /\ r.id = q.id
<1>1. \A r \in ToSet(now) : \E q \in ToSet(back) : r.uid = q.uid /\ r.id = q.id
  BY RemarkedKeeps
<1> QED BY <1>1

\* Every step keeps the edits of the log captured ones, in order, with ids of their own.
LEMMA StepLedgerInv == Whole /\ TypeInv /\ CleanInv /\ PhantomInv /\ LedgerInv /\ [Next]_vars => LedgerInv'
<1> SUFFICES ASSUME Whole, TypeInv, CleanInv, PhantomInv, LedgerInv, [Next]_vars PROVE LedgerInv'
  OBVIOUS
<1> DEFINE was == ReadLog(log)
           now == ReadLog(log')
<1>1. /\ edits \in Nat /\ session \in Sessions /\ session' = session /\ log \in Seq(Line) /\ log' \in Seq(Line)
      /\ session.edits \in Nat /\ LogInv
  BY OtherSteps, StepTypeInv DEF TypeInv, LogInv
<1>2. /\ was \in Seq(Rec) /\ now \in Seq(Rec) /\ edits <= session.edits /\ missed \subseteq 1 .. edits
      /\ Pairwise(was, Older) /\ \A r \in ToSet(was) : r.uid \in (1 .. edits) \ missed
      /\ \A r \in ToSet(was) : r \in Rec
  BY <1>1, ReadRecords DEF LedgerInv
<1>u. Uids(log) = {r.uid : r \in ToSet(was)} /\ Uids(log') = {r.uid : r \in ToSet(now)}
  BY DEF Uids
<1> SUFFICES /\ edits' <= session.edits /\ missed' \subseteq 1 .. edits' /\ Pairwise(now, Older)
             /\ \A r \in ToSet(now) : r.uid \in (1 .. edits') \ missed'
  BY <1>1 DEF LedgerInv
<1>3. \/ now = was /\ UNCHANGED <<edits, missed>>
      \/ /\ Added(was, now)
         /\ edits' = edits + 1 /\ edits < session.edits /\ Miss
      \/ Decides
      \/ UNCHANGED <<edits, missed>> /\ \E gone \in {Settled, TakenOut, Rec} : Thinned(was, now, gone)
  BY DropsSome, ReadSteps DEF Leaves, Captures, Thins
<1>p. PICK back \in Seq(Rec) : /\ back = ReadLog(Ended) /\ Pairwise(back, Older)
                               /\ \A r \in ToSet(back) : \E q \in ToSet(was) : r.uid = q.uid /\ r.id = q.id
  BY <1>1, <1>2, EndedIsRead
<1> HIDE DEF was, now
<1>4. CASE now = was /\ UNCHANGED <<edits, missed>>
  BY <1>2, <1>4
<1>6. CASE Added(was, now) /\ edits' = edits + 1 /\ edits < session.edits /\ Miss
  <2>1. PICK r \in Rec : now = Append(was, r) /\ r.uid = edits + 1
    BY <1>6 DEF Added
  <2>2. \A y \in ToSet(was) : <<y, r>> \in Older
    BY <1>1, <1>2, <2>1 DEF Older
  <2>3. Pairwise(now, Older) /\ ToSet(now) = ToSet(was) \cup {r}
    BY <1>2, <2>1, <2>2, PairwiseOfAppend, ElementsOfAppend
  <2>4. Uids(log') = Uids(log) \cup {edits + 1}
    BY <1>u, <2>1, <2>3
  <2>5. missed' = missed
    <3>1. (edits + 1) .. edits' = {edits + 1}
      BY <1>1, <1>6
    <3> QED BY <1>6, <2>4, <3>1 DEF Miss
  <2> QED BY <1>1, <1>2, <1>6, <2>1, <2>3, <2>5
<1>7. CASE Decides
  <2>1. PICK st \in Status : Remarked(back, now, st)
    BY <1>7, <1>p DEF Decides, was, now
  <2>2. Pairwise(now, Older)
    BY <1>2, <1>p, <2>1, RemarkedKeeps
  <2>3. \A r \in ToSet(now) : \E q \in ToSet(was) : r.uid = q.uid
    BY <1>2, <1>p, <2>1, ReadBefore
  <2>4. edits' \in Nat /\ edits <= edits' /\ edits' <= session.edits
    BY <1>1, <1>2, <1>7 DEF Decides
  <2>5. missed' = missed \cup ((Uids(log) \cup (edits + 1) .. edits') \ Uids(log'))
    BY <1>7 DEF Decides, Miss
  <2>6. Uids(log) \subseteq 1 .. edits
    BY <1>2, <1>u
  <2>7. missed' \subseteq 1 .. edits'
    <3>1. 1 .. edits \subseteq 1 .. edits' /\ (edits + 1) .. edits' \subseteq 1 .. edits'
      BY <1>1, <2>4
    <3> QED BY <1>2, <2>5, <2>6, <3>1
  <2>8. \A r \in ToSet(now) : r.uid \in 1 .. edits' /\ r.uid \notin missed /\ r.uid \in Uids(log')
    BY <1>1, <1>2, <1>u, <2>3, <2>4
  <2> QED BY <2>2, <2>4, <2>5, <2>7, <2>8
<1>8. CASE UNCHANGED <<edits, missed>> /\ \E gone \in {Settled, TakenOut, Rec} : Thinned(was, now, gone)
  <2>1. Pairwise(now, Older) /\ ToSet(now) \subseteq ToSet(was)
    BY <1>2, <1>8, ThinnedKeeps
  <2> QED BY <1>2, <1>8, <2>1
<1> QED BY <1>3, <1>4, <1>6, <1>7, <1>8

\* What every reachable state satisfies, of sessions that are whole.
KeptInv == TypeInv /\ CleanInv /\ PhantomInv /\ LedgerInv

\* Sessions start in states that the invariant allows.
LEMMA InitKeptInv == Init => KeptInv
<1> SUFFICES ASSUME Init PROVE KeptInv
  OBVIOUS
<1>1. CleanInv
  BY DEF Init, CleanInv
<1>2. PhantomInv
  BY EmptySeq DEF Init, PhantomInv
<1> QED BY <1>1, <1>2, InitTypeInv, InitLedgerInv DEF KeptInv

\* Every step keeps the invariant, of whole sessions.
LEMMA StepKeptInv == Whole /\ KeptInv /\ [Next]_vars => KeptInv'
BY StepTypeInv, StepCleanInv, StepPhantomInv, StepLedgerInv, Zenon DEF KeptInv

\* Every reachable state satisfies the invariant, of whole sessions.
LEMMA Kept ==
  ASSUME Whole
  PROVE  Spec => []KeptInv
<1>1. KeptInv /\ [Next]_vars => KeptInv'
  BY StepKeptInv
<1> QED BY <1>1, InitKeptInv, PTL DEF Spec

\* A step moves no edit to another id.
LEMMA StepStableIds ==
  ASSUME Whole, KeptInv, [Next]_vars
  PROVE  \A was \in {ReadLog(log)}, now \in {ReadLog(log')} :
           /\ \A i, j \in DOMAIN now : now[i].id = now[j].id => i = j
           /\ \A i \in DOMAIN was, j \in DOMAIN now : was[i].uid = now[j].uid => was[i].id = now[j].id
<1> DEFINE P(was, now) == /\ \A i, j \in DOMAIN now : now[i].id = now[j].id => i = j
                          /\ \A i \in DOMAIN was, j \in DOMAIN now : was[i].uid = now[j].uid => was[i].id = now[j].id
<1> SUFFICES ASSUME NEW was, NEW now, was = ReadLog(log), now = ReadLog(log') PROVE P(was, now)
  OBVIOUS
<1>1. /\ TypeInv /\ CleanInv /\ PhantomInv /\ LedgerInv /\ LogInv /\ log \in Seq(Line) /\ log' \in Seq(Line)
  BY StepTypeInv DEF KeptInv, TypeInv, LogInv
<1>2. was \in Seq(Rec) /\ now \in Seq(Rec) /\ Pairwise(now, OtherIds)
  BY <1>1, ReadRecords, ReadIdsDiffer
<1>3. Pairwise(was, Older) /\ \A r \in ToSet(was) : r.uid \in 1 .. edits
  BY <1>1 DEF LedgerInv
<1>4. DOMAIN was = 1 .. Len(was) /\ DOMAIN now = 1 .. Len(now) /\ Len(was) \in Nat /\ Len(now) \in Nat
  BY <1>2, LenProperties
<1>5. \A i, j \in DOMAIN now : now[i].id = now[j].id => i = j
  <2> SUFFICES ASSUME NEW i \in DOMAIN now, NEW j \in DOMAIN now, i < j PROVE now[i].id # now[j].id
    BY <1>4
  <2>1. <<now[i], now[j]>> \in OtherIds
    BY <1>2 DEF Pairwise
  <2> QED BY <2>1 DEF OtherIds
<1>6. \A i, j \in DOMAIN was : was[i].uid = was[j].uid => i = j
  <2> SUFFICES ASSUME NEW i \in DOMAIN was, NEW j \in DOMAIN was, i < j PROVE was[i].uid # was[j].uid
    BY <1>4
  <2>1. <<was[i], was[j]>> \in Older
    BY <1>3 DEF Pairwise
  <2>2. was[i].uid < was[j].uid /\ was[i].uid \in Nat /\ was[j].uid \in Nat
    BY <2>1 DEF Older, Rec
  <2> QED BY <2>2
<1> SUFFICES ASSUME NEW i \in DOMAIN was, NEW j \in DOMAIN now, was[i].uid = now[j].uid PROVE was[i].id = now[j].id
  BY <1>5
<1>7. CASE \A r \in ToSet(now) : \E q \in ToSet(was) : r.uid = q.uid /\ r.id = q.id
  <2>1. PICK k \in DOMAIN was : was[k].uid = now[j].uid /\ was[k].id = now[j].id
    BY <1>7 DEF ToSet
  <2> QED BY <1>6, <2>1
<1>8. CASE Added(was, now)
  <2>1. PICK r \in Rec : now = Append(was, r) /\ r.uid = edits + 1
    BY <1>8 DEF Added
  <2>2. now[j].uid # edits + 1
    BY <1>1, <1>3 DEF ToSet, TypeInv, LogInv
  <2>3. ToSet(now) = ToSet(was) \cup {r} /\ now[j] \in ToSet(now)
    BY <1>2, <2>1, ElementsOfAppend DEF ToSet
  <2>4. now[j] \in ToSet(was)
    BY <2>1, <2>2, <2>3
  <2>5. PICK k \in DOMAIN was : was[k] = now[j]
    BY <2>4 DEF ToSet
  <2> QED BY <1>6, <2>5
<1>9. \/ now = was
      \/ Added(was, now)
      \/ Decides
      \/ \E gone \in {Settled, TakenOut, Rec} : Thinned(was, now, gone)
  BY <1>1, DropsSome, ReadSteps DEF Leaves, Thins
<1>10. CASE Decides
  <2>1. PICK back \in Seq(Rec) : /\ back = ReadLog(Ended)
                                 /\ \A r \in ToSet(back) : \E q \in ToSet(was) : r.uid = q.uid /\ r.id = q.id
    BY <1>1, <1>3, EndedIsRead
  <2>2. PICK st \in Status : Remarked(back, now, st)
    BY <1>10, <2>1 DEF Decides
  <2> QED BY <1>2, <1>7, <2>1, <2>2, ReadBefore
<1>11. CASE \E gone \in {Settled, TakenOut, Rec} : Thinned(was, now, gone)
  BY <1>2, <1>7, <1>11, ThinnedKeeps
<1> QED BY <1>7, <1>8, <1>9, <1>10, <1>11

\* An edit keeps the id it is shown under, shared with no other, whatever is appended, cleared, swept or repaired.
THEOREM StableIdsHold ==
  ASSUME Whole
  PROVE  Spec => StableIds
<1>1. KeptInv /\ [Next]_vars
        => [\A was \in {ReadLog(log)}, now \in {ReadLog(log')} :
              /\ \A i, j \in DOMAIN now : now[i].id = now[j].id => i = j
              /\ \A i \in DOMAIN was, j \in DOMAIN now : was[i].uid = now[j].uid => was[i].id = now[j].id]_log
  BY StepStableIds
<1> QED BY <1>1, Kept, PTL DEF Spec, StableIds

\* The id that a capture is answered is the one every reader gives the edit, after a session that started without
\* duplicate ids, and a log whose last line is whole.
THEOREM AnswersItsIdHolds ==
  ASSUME Whole
  PROVE  Spec => AnswersItsId
<1>1. ASSUME KeptInv, [Next]_vars, CaptureEdit, torn = "no",
             IsIncreasing([i \in DOMAIN session.log |-> session.log[i].id])
      PROVE  Of(log', edits').id = NextId(log)
  <2>0. Clean(session.log)
    BY <1>1, IncreasingIsClean DEF KeptInv, TypeInv, LogInv
  <2>1. /\ LogInv /\ log \in Seq(Line) /\ log' \in Seq(Line) /\ Clean(log) /\ edits \in Nat
        /\ \A r \in ToSet(ReadLog(log)) : r.uid \in 1 .. edits
    BY <1>1, <2>0, StepTypeInv DEF KeptInv, TypeInv, LogInv, CleanInv, LedgerInv
  <2>2. edits' = edits + 1 /\ AppendLines(NewEdit)
    BY <1>1 DEF CaptureEdit
  <2>3. log' = log \o NewEdit
    <3>1. PICK p \in Seq(Line) : p = NewEdit
      BY <2>1, NewEditType
    <3>2. AppendLines(p)
      BY <2>2, <3>1
    <3>3. log' = log \o p
      BY <1>1, <2>1, <3>2, Appended
    <3> QED BY <3>1, <3>3
  <2>4. PICK r \in Rec : /\ ReadLog(log') = Append(ReadLog(log), r)
                         /\ r.uid = edits + 1 /\ r.id = FreshId(ReadLog(log), NextId(log))
    BY <2>1, <2>3, CaptureReads
  <2>5. NextId(log) \notin IdsOf(ReadLog(log))
    <3>1. \A i \in Ids(log) : i < NextId(log) /\ i \in Nat
      BY <2>1, NextIdAbove, ReadRecords
    <3>2. IdsOf(ReadLog(log)) = Ids(log)
      BY DEF IdsOf, Ids, ToSet
    <3> QED BY <3>1, <3>2, NextIdType, <2>1
  <2>6. r.id = NextId(log)
    BY <2>4, <2>5 DEF FreshId
  <2>7. ToSet(ReadLog(log')) = ToSet(ReadLog(log)) \cup {r}
    <3>1. ReadLog(log) \in Seq(Rec)
      BY <2>1, ReadRecords
    <3> QED BY <2>4, <3>1, ElementsOfAppend
  <2>8. \A q \in ToSet(ReadLog(log')) : q.uid = edits' <=> q = r
    BY <2>1, <2>2, <2>4, <2>7
  <2>9. r \in ToSet(ReadLog(log'))
    BY <2>7
  <2>10. Of(log', edits') = r
    BY <2>8, <2>9 DEF Of
  <2> QED BY <2>6, <2>10
<1>2. KeptInv /\ [Next]_vars
        => [CaptureEdit /\ torn = "no" /\ IsIncreasing([i \in DOMAIN session.log |-> session.log[i].id])
              => Of(log', edits').id = NextId(log)]_vars
  BY <1>1
<1> QED BY <1>2, Kept, PTL DEF Spec, AnswersItsId

-----------------------------------------------------------------------------
(* What redo goes by.                                                      *)

\* Status lines that all write the same status move the walk for an edit once, at most.
LEMMA AppendedRemembers ==
  ASSUME NEW lines \in Seq(Line), NEW p \in Seq(Line), NEW st \in Status, NEW id,
         \A l \in ToSet(p) : l.t # "edit" /\ (l.t = "status" => l.status = st)
  PROVE  State(lines \o p, id).cur = "undone" =>
           \/ State(lines, id).cur # "undone" /\ State(lines \o p, id).out = State(lines, id).cur
           \/ State(lines, id).cur = "undone" /\ State(lines \o p, id).out = State(lines, id).out
<1> DEFINE was == State(lines, id)
           V == {l \in Line : l.t # "edit" /\ (l.t = "status" => l.status = st)}
           Good(now) == /\ now.cur \in {was.cur, st}
                        /\ now.cur = "undone" => \/ was.cur # "undone" /\ now.out = was.cur
                                                 \/ was.cur = "undone" /\ now.out = was.out
           S == {q \in Seq(V) : Good(State(lines \o q, id))}
<1>1. <<>> \in S
  BY EmptySeq, ConcatEmptySeq
<1>2. ASSUME NEW q \in Seq(V), NEW x \in V, q \in S PROVE Append(q, x) \in S
  <2>1. q \in Seq(Line) /\ x \in Line
    BY SeqMonotonic
  <2>2. lines \o Append(q, x) = Append(lines \o q, x) /\ lines \o q \in Seq(Line)
    BY <2>1, AppendIsConcat, ConcatAssociative, ConcatProperties, IsASeq
  <2>3. PICK w \in Seq(Line) : w = lines \o q
    BY <2>2
  <2>4. PICK old, now : old = State(w, id) /\ now = State(Append(w, x), id)
    OBVIOUS
  <2>5. Good(old)
    BY <1>2, <2>3, <2>4
  <2>6. CASE x.t = "status" /\ x.id = id
    <3>1. now.cur = st /\ now.out = Remembered(old, st)
      BY <2>1, <2>4, <2>6, StateOfAppend
    <3> QED BY <2>2, <2>3, <2>4, <2>5, <3>1, AppendProperties DEF Remembered
  <2>7. CASE ~(x.t = "status" /\ x.id = id)
    <3>1. now.cur = old.cur /\ now.out = old.out
      BY <2>1, <2>4, <2>7, StateOfAppend
    <3> QED BY <2>2, <2>3, <2>4, <2>5, <3>1, AppendProperties
  <2> QED BY <2>6, <2>7
<1>3. p \in Seq(V)
  <2>1. ToSet(p) \subseteq V
    BY ElementsType
  <2> QED BY <2>1, SeqOfElements
<1>4. Seq(V) \subseteq S
  <2> HIDE DEF S
  <2> QED BY <1>1, <1>2, SeqInd
<1> HIDE DEF V
<1> QED BY <1>3, <1>4

\* A rewrite folds verdicts into the edits it writes: what came before an undo is forgotten for "pending".
LEMMA RewrittenRemembers ==
  ASSUME NEW ops \in Seq(Line), \A l \in ToSet(ops) : l.t \notin {"edit", "status"},
         NEW recs \in Seq(Rec), Pairwise(recs, OtherIds)
  PROVE  \A r \in ToSet(recs) : r.status = "undone" => State(ops \o EditsOf(recs), r.id).out = "pending"
<1> DEFINE Good(k) == \A r \in ToSet(k) : r.status = "undone" => State(ops \o EditsOf(k), r.id).out = "pending"
           S == {k \in Seq(Rec) : Pairwise(k, OtherIds) => Good(k)}
<1>1. <<>> \in S
  BY EmptySeq, ElementsOfEmpty
<1>2. ASSUME NEW k \in Seq(Rec), NEW x \in Rec, k \in S PROVE Append(k, x) \in S
  <2> SUFFICES ASSUME Pairwise(Append(k, x), OtherIds),
                      NEW r \in ToSet(Append(k, x)), r.status = "undone"
               PROVE  State(ops \o EditsOf(Append(k, x)), r.id).out = "pending"
    BY AppendProperties
  <2> DEFINE e == Edit(x.id, x.uid, x.status)
  <2>1. Pairwise(k, OtherIds) /\ \A y \in ToSet(k) : <<y, x>> \in OtherIds
    BY PairwiseOfAppend
  <2>2. e \in EditLine /\ e \in Line /\ e.id = x.id /\ e.t = "edit" /\ e.status = x.status
    BY DEF Rec, Edit, EditLine, Line
  <2>3. EditsOf(k) \in Seq(Line)
    BY EditsOfType, SeqMonotonic DEF Line
  <2>4. EditsOf(Append(k, x)) = Append(EditsOf(k), e)
    BY EditsOfAppend
  <2> HIDE DEF e
  <2>5. ops \o Append(EditsOf(k), e) = Append(ops \o EditsOf(k), e) /\ ops \o EditsOf(k) \in Seq(Line)
    BY <2>2, <2>3, AppendIsConcat, ConcatAssociative, ConcatProperties, IsASeq
  <2>6. PICK w \in Seq(Line) : w = ops \o EditsOf(k)
    BY <2>5
  <2>7. ReadLog(w) = k
    BY <2>1, <2>6, ReadOfEdits
  <2>8. x.id \notin IdsOf(k) /\ FreshId(k, x.id) = x.id
    <3>1. x.id \notin IdsOf(k)
      BY <2>1 DEF OtherIds, IdsOf, ToSet
    <3> QED BY <3>1 DEF FreshId
  <2>9. State(Append(w, e), r.id).out = "pending"
    <3>1. CASE r = x
      BY <2>2, <2>7, <2>8, <3>1, StateOfAppend
    <3>2. CASE r \in ToSet(k)
      <4>1. State(w, r.id).out = "pending"
        BY <1>2, <2>1, <2>6, <3>2
      <4>2. r.id # x.id
        BY <2>1, <3>2 DEF OtherIds
      <4> QED BY <2>2, <2>7, <2>8, <4>1, <4>2, StateOfAppend
    <3> QED BY <3>1, <3>2, ElementsOfAppend
  <2> QED BY <2>4, <2>5, <2>6, <2>9, Zenon
<1>3. Seq(Rec) \subseteq S
  <2> HIDE DEF S
  <2> QED BY <1>1, <1>2, SeqInd
<1> QED BY <1>3

\* In a log of increasing ids the walk for an edit does not see the lines that a repair takes out.
LEMMA DroppedRemembers ==
  ASSUME NEW lines \in Seq(Line), NEW dead, NEW id, Clean(lines), id \notin dead
  PROVE  State(DroppedRaw(lines, dead), id).out = State(lines, id).out
<1> DEFINE D == Left(dead)
           Good(t) == State(Only(t, D), id).cur = State(t, id).cur /\ State(Only(t, D), id).out = State(t, id).out
           S == {t \in Seq(Line) : Clean(t) => Good(t)}
<1>1. <<>> \in S
  BY OnlyOfEmpty, EmptySeq
<1>2. ASSUME NEW t \in Seq(Line), NEW x \in Line, t \in S PROVE Append(t, x) \in S
  <2>1. PICK u \in Seq(Line) : u = Append(t, x)
    BY AppendProperties
  <2> SUFFICES ASSUME Clean(u) PROVE Good(u)
    BY <2>1
  <2>2. PICK left \in Seq(Line) : left = Only(t, D)
    BY OnlyType
  <2>3. Only(u, D) = IF x \in D THEN Append(left, x) ELSE left
    BY <2>1, <2>2, OnlyOfAppend
  <2>4. Clean(t) /\ (x.t = "edit" => x.id \notin IdsOf(ReadLog(t)) /\ FreshId(ReadLog(t), x.id) = x.id)
    BY <2>1, CleanOfAppend
  <2>5. State(left, id).cur = State(t, id).cur /\ State(left, id).out = State(t, id).out
    BY <1>2, <2>2, <2>4
  <2>6. x.t = "edit" => FreshId(ReadLog(left), x.id) = x.id
    <3>1. ReadLog(left) = Only(ReadLog(t), Spared(dead))
      BY <2>2, <2>4, DroppedReads, DroppedIsOnly
    <3>2. ReadLog(t) \in Seq(Rec)
      BY ReadRecords
    <3>3. ToSet(ReadLog(left)) \subseteq ToSet(ReadLog(t))
      BY <3>1, <3>2, OnlyElements
    <3>4. \A q : IdsOf(q) = {y.id : y \in ToSet(q)}
      BY DEF IdsOf, ToSet
    <3>5. IdsOf(ReadLog(left)) \subseteq IdsOf(ReadLog(t))
      BY <3>3, <3>4
    <3> QED BY <2>4, <3>5 DEF FreshId
  <2>7. x \in D <=> (x.t \in {"edit", "status"} => x.id \notin dead)
    BY DEF Left
  <2> HIDE DEF D
  <2>8. State(Only(u, D), id).cur = State(u, id).cur /\ State(Only(u, D), id).out = State(u, id).out
    <3>1. CASE x \notin D
      <4>1. ~(x.t = "edit" /\ FreshId(ReadLog(t), x.id) = id) /\ ~(x.t = "status" /\ x.id = id)
        BY <2>4, <2>7, <3>1
      <4>2. State(u, id).cur = State(t, id).cur /\ State(u, id).out = State(t, id).out
        BY <2>1, <4>1, StateOfAppend
      <4> QED BY <2>3, <2>5, <3>1, <4>2
    <3>2. CASE x \in D
      <4>0. PICK v \in Seq(Line) : v = Append(left, x)
        BY AppendProperties
      <4>1. v = Only(u, D)
        BY <2>3, <3>2, <4>0, Zenon
      <4>2. CASE x.t = "edit" /\ x.id = id
        <5>1. /\ State(u, id).cur = x.status
              /\ State(u, id).out = IF x.status = "undone" THEN "pending" ELSE State(t, id).out
          BY <2>1, <2>4, <4>2, StateOfAppend
        <5>2. /\ State(v, id).cur = x.status
              /\ State(v, id).out = IF x.status = "undone" THEN "pending" ELSE State(left, id).out
          BY <2>6, <4>0, <4>2, StateOfAppend
        <5> QED BY <2>5, <4>1, <5>1, <5>2
      <4>3. CASE x.t = "status" /\ x.id = id
        <5>1. State(u, id).cur = x.status /\ State(u, id).out = Remembered(State(t, id), x.status)
          BY <2>1, <4>3, StateOfAppend
        <5>2. State(v, id).cur = x.status /\ State(v, id).out = Remembered(State(left, id), x.status)
          BY <4>0, <4>3, StateOfAppend
        <5>3. Remembered(State(t, id), x.status) = Remembered(State(left, id), x.status)
          BY <2>5, Zenon DEF Remembered
        <5> QED BY <4>1, <5>1, <5>2, <5>3, Zenon
      <4>4. CASE ~(x.t = "edit" /\ x.id = id) /\ ~(x.t = "status" /\ x.id = id)
        <5>1. State(u, id).cur = State(t, id).cur /\ State(u, id).out = State(t, id).out
          BY <2>1, <2>4, <4>4, StateOfAppend
        <5>2. State(v, id).cur = State(left, id).cur /\ State(v, id).out = State(left, id).out
          BY <2>6, <4>0, <4>4, StateOfAppend
        <5> QED BY <2>5, <4>1, <5>1, <5>2
      <4> QED BY <4>2, <4>3, <4>4
    <3> QED BY <3>1, <3>2
  <2> QED BY <2>8 DEF D
<1>3. Seq(Line) \subseteq S
  <2> HIDE DEF S
  <2> QED BY <1>1, <1>2, SeqInd
<1> QED BY <1>3, DroppedIsOnly

\* What a rewrite writes ends in the edits it spares, and has none before them.
LEMMA RewritesEndInEdits ==
  ASSUME NEW lines \in Seq(Line), NEW dead
  PROVE  /\ \E ops \in Seq(Line) : /\ Rewritten(lines, dead) = ops \o EditsOf(Survivors(lines, dead))
                                   /\ \A l \in ToSet(ops) : l.t \notin {"edit", "status"}
         /\ dead \subseteq Ids(lines) =>
              \E ops \in Seq(Line) : /\ SweptLog(lines, dead) = ops \o EditsOf(Survivors(lines, dead))
                                     /\ \A l \in ToSet(ops) : l.t \notin {"edit", "status"}
<1> DEFINE E == EditsOf(Survivors(lines, dead))
<1>1. \E ops \in Seq(Line) : Rewritten(lines, dead) = ops \o E /\ \A l \in ToSet(ops) : l.t \notin {"edit", "status"}
  <2>1. RetainedOps(lines) \in Seq(Line) /\ \A l \in ToSet(RetainedOps(lines)) : l.t \notin {"edit", "status"}
    BY RetainedOpsType
  <2>2. Rewritten(lines, dead) = RetainedOps(lines) \o E
    BY RewrittenReads
  <2> QED BY <2>1, <2>2, Zenon
<1>2. ASSUME dead \subseteq Ids(lines)
      PROVE  \E ops \in Seq(Line) : /\ SweptLog(lines, dead) = ops \o E
                                    /\ \A l \in ToSet(ops) : l.t \notin {"edit", "status"}
  <2> DEFINE kinds == {"batch", "scope", "skip"}
             ops == LinesOf(lines, kinds)
             count == SweptOp(Swept(lines) + Cardinality(dead))
  <2>1. SweptLog(lines, dead) = (ops \o <<count>>) \o E /\ count \in SweptLine
    BY <1>2, SweptReads
  <2>2. ops \in Seq(OfKind(kinds))
    BY LinesOfAreOnly
  <2> HIDE DEF ops, count, E
  <2>3. ops \in Seq(Line) /\ \A l \in ToSet(ops) : l.t \notin {"edit", "status"}
    BY <2>2, ElementsType, SeqMonotonic DEF OfKind
  <2>4. PICK c \in Seq(Line) : c = <<count>> /\ ToSet(c) = {count}
    BY <2>1, OneElement DEF Line
  <2>5. PICK oc \in Seq(Line) : oc = ops \o c
    BY <2>3, <2>4, ConcatProperties
  <2>6. ToSet(ops \o c) = ToSet(ops) \cup ToSet(c)
    BY <2>3, <2>4, ElementsOfConcat
  <2>7. \A l \in ToSet(oc) : l.t \notin {"edit", "status"}
    BY <2>1, <2>3, <2>4, <2>5, <2>6 DEF SweptLine
  <2> QED BY <2>1, <2>4, <2>5, <2>7, Zenon
<1> QED BY <1>1, <1>2

\* What a step does to the status that redo would give an edit back.
LEMMA StepRemembers ==
  ASSUME Whole, KeptInv, [Next]_vars, log' # log, NEW base \in Seq(Line), base = Base,
         NEW r \in ToSet(ReadLog(base)), NEW q \in ToSet(ReadLog(log')),
         r.id = q.id, q.status = "undone"
  PROVE  \/ r.status # "undone" /\ BeforeUndone(log', q.id) = r.status
         \/ r.status = "undone" /\ BeforeUndone(log', q.id) = BeforeUndone(base, r.id)
         \/ (Sweep \/ \E f \in FrontEnds : Clear(f)) /\ BeforeUndone(log', q.id) = "pending"
<1> DEFINE id == r.id
           was == State(base, id)
           now == State(log', id)
<1>1. /\ TypeInv /\ CleanInv /\ PhantomInv /\ LedgerInv /\ LogInv /\ log \in Seq(Line) /\ log' \in Seq(Line)
  BY StepTypeInv DEF KeptInv, TypeInv, LogInv
<1>2. was.cur = r.status /\ now.cur = "undone"
  <2>1. ReadLog(base) \in Seq(Rec) /\ ReadLog(log') \in Seq(Rec)
    BY <1>1, ReadRecords
  <2>2. PICK i \in DOMAIN ReadLog(base) : ReadLog(base)[i] = r
    BY DEF ToSet
  <2>3. PICK j \in DOMAIN ReadLog(log') : ReadLog(log')[j] = q
    BY DEF ToSet
  <2>4. i \in 1 .. Len(ReadLog(base)) /\ j \in 1 .. Len(ReadLog(log'))
    <3>1. DOMAIN ReadLog(base) = 1 .. Len(ReadLog(base)) /\ DOMAIN ReadLog(log') = 1 .. Len(ReadLog(log'))
      BY <2>1, LenProperties
    <3> QED BY <2>2, <2>3, <3>1
  <2>5. State(base, id).cur = r.status
    BY <2>2, <2>4, StateTellsStatus
  <2>6. State(log', id).cur = q.status
    BY <1>1, <2>3, <2>4, StateTellsStatus
  <2> QED BY <2>5, <2>6
<1>3. BeforeUndone(base, r.id) = was.out /\ BeforeUndone(log', q.id) = now.out
  BY <1>1, BeforeUndoneType DEF State
<1>4. id \in IdsOf(ReadLog(base))
  BY DEF IdsOf, ToSet
<1> HIDE DEF was, now
<1> DEFINE Same == was.cur = "undone" /\ now.out = was.out
           Before == was.cur # "undone" /\ now.out = was.cur
<1> SUFFICES Same \/ Before \/ ((Sweep \/ \E f \in FrontEnds : Clear(f)) /\ now.out = "pending")
  BY <1>2, <1>3
<1>5. ~Leaves /\ (Rewrites => base = log) /\ (~Rewrites => base = Ended)
  BY DEF Leaves, Base
<1>6. CASE ~Rewrites /\ Captures
  <2>0. base = log /\ log' = base \o NewEdit
    BY <1>1, <1>5, <1>6, EndedOfLog DEF Captures
  <2>1. PICK e \in EditLine : NewEdit = <<e>>
    <3>1. PICK e \in EditLine : e = Edit(NextId(log), edits + 1, "pending")
      BY <1>1, NewEditType
    <3> QED BY <3>1 DEF NewEdit
  <2>2. e \in Line /\ e.t = "edit" /\ e.id \in Nat
    BY DEF Line, EditLine
  <2>3. Append(base, e) = base \o <<e>>
    BY <2>2, AppendIsConcat
  <2>4. log' = Append(base, e)
    BY <2>0, <2>1, <2>3, Zenon
  <2>5. FreshId(ReadLog(base), e.id) # id
    <3>1. PICK recs \in Records : recs = ReadLog(base)
      BY ReadType
    <3>2. FreshId(recs, e.id) \notin IdsOf(recs)
      BY <2>2, FreshIdIsFree
    <3> QED BY <1>4, <3>1, <3>2, Zenon
  <2>6. State(Append(base, e), id).cur = was.cur /\ State(Append(base, e), id).out = was.out
    BY <2>2, <2>5, StateOfAppend DEF was
  <2> QED BY <1>2, <2>4, <2>6, Zenon DEF now
<1>7. CASE ~Rewrites /\ \E p, s \in Seq(Line) : Appends(p, s)
  <2>1. PICK p \in Seq(Line), whole \in Seq(Line) :
          log' = base \o p /\ ToSet(p) \subseteq ToSet(whole) /\ (Remarks(whole) \/ \E st \in Status : Marks(whole, st))
    BY <1>5, <1>7 DEF Appends
  <2>2. PICK st \in Status : \A l \in ToSet(p) : l.t # "edit" /\ (l.t = "status" => l.status = st)
    BY <2>1 DEF Remarks, Marks, Status
  <2>3. State(base \o p, id).cur = "undone" =>
          \/ State(base, id).cur # "undone" /\ State(base \o p, id).out = State(base, id).cur
          \/ State(base, id).cur = "undone" /\ State(base \o p, id).out = State(base, id).out
    BY <2>2, AppendedRemembers
  <2> QED BY <1>2, <2>1, <2>3, Zenon DEF was, now
<1>8. ASSUME NEW dead, NEW ops \in Seq(Line), log' = ops \o EditsOf(Survivors(log, dead)),
             \A l \in ToSet(ops) : l.t \notin {"edit", "status"}
      PROVE  now.out = "pending"
  <2>1. Survivors(log, dead) \in Seq(Rec) /\ Pairwise(Survivors(log, dead), OtherIds)
    <3>1. ReadLog(log) \in Seq(Rec) /\ Pairwise(ReadLog(log), OtherIds)
      BY <1>1, ReadRecords, ReadIdsDiffer
    <3> QED BY <3>1, OnlyPairwise, OnlyType DEF Survivors
  <2>2. ReadLog(log') = Survivors(log, dead)
    BY <1>8, <2>1, ReadOfEdits
  <2>3. \A x \in ToSet(Survivors(log, dead)) :
          x.status = "undone" => State(ops \o EditsOf(Survivors(log, dead)), x.id).out = "pending"
    BY <1>8, <2>1, RewrittenRemembers
  <2>4. State(ops \o EditsOf(Survivors(log, dead)), q.id).out = "pending"
    BY <2>2, <2>3
  <2> QED BY <1>8, <2>4 DEF now
<1>9. CASE Rewrites /\ Cleared
  <2>1. PICK ids : log' = Rewritten(log, ids)
    BY <1>9 DEF Cleared
  <2>2. PICK ops \in Seq(Line) : /\ Rewritten(log, ids) = ops \o EditsOf(Survivors(log, ids))
                                 /\ \A l \in ToSet(ops) : l.t \notin {"edit", "status"}
    BY <1>1, RewritesEndInEdits
  <2>3. now.out = "pending"
    BY <1>8, <2>1, <2>2
  <2> QED BY <1>9, <2>3 DEF Cleared
<1>10. CASE Rewrites /\ SweptAway
  <2>1. PICK dead \in SUBSET Ids(log) : log' = SweptLog(log, dead)
    BY <1>10 DEF SweptAway
  <2>2. PICK ops \in Seq(Line) : /\ SweptLog(log, dead) = ops \o EditsOf(Survivors(log, dead))
                                 /\ \A l \in ToSet(ops) : l.t \notin {"edit", "status"}
    BY <1>1, RewritesEndInEdits
  <2>3. now.out = "pending"
    BY <1>8, <2>1, <2>2
  <2> QED BY <1>10, <2>3 DEF SweptAway
<1>11. CASE Rewrites /\ Dropped
  <2>1. PICK f \in FrontEnds : DropRecords(f) /\ log' = DroppedRaw(log, Head(todo[f]).ids)
    BY <1>11 DEF Dropped
  <2>2. PICK dead : dead = Head(todo[f]).ids
    OBVIOUS
  <2>3. Clean(log)
    BY <1>1, <2>1, DropsSome DEF Drops
  <2>4. ReadLog(log') = Only(ReadLog(log), Spared(dead))
    BY <1>1, <2>1, <2>2, <2>3, DroppedReads
  <2>5. q \in ToSet(ReadLog(log)) /\ q.id \notin dead
    <3>1. ReadLog(log) \in Seq(Rec)
      BY <1>1, ReadRecords
    <3> QED BY <2>4, <3>1, OnlyElements DEF Spared
  <2>6. q = r
    BY <1>1, <1>5, <1>11, <2>5, IdsTell
  <2>7. State(DroppedRaw(log, dead), id).out = was.out
    BY <1>5, <1>11, <2>3, <2>5, <2>6, DroppedRemembers DEF was
  <2>8. now.out = was.out
    BY <2>1, <2>2, <2>7, Zenon DEF now
  <2> QED BY <1>2, <2>6, <2>8
<1> QED BY <1>1, <1>5, <1>6, <1>7, <1>9, <1>10, <1>11, LogSteps, Zenon

\* Redo restores the verdict an edit had when it was undone, whatever is appended since, until a rewrite folds it; a
\* verdict whose line lacks its newline is not yet one that an append starts from.
THEOREM RedoRemembersHolds ==
  ASSUME Whole
  PROVE  Spec => RedoRemembers
<1>1. ASSUME KeptInv, [Next]_vars, log' # log
      PROVE  \A base \in {Base} : \A was \in {ReadLog(base)}, now \in {ReadLog(log')} :
               \A i \in DOMAIN was, j \in DOMAIN now :
                 was[i].uid = now[j].uid /\ now[j].status = "undone" =>
                   LET remembered == BeforeUndone(log', now[j].id)
                   IN  \/ was[i].status # "undone" /\ remembered = was[i].status
                       \/ was[i].status = "undone" /\ remembered = BeforeUndone(base, was[i].id)
                       \/ (Sweep \/ \E f \in FrontEnds : Clear(f)) /\ remembered = "pending"
  <2>0. /\ LogInv /\ log \in Seq(Line) /\ ReadLog(log) \in Seq(Rec) /\ Pairwise(ReadLog(log), Older)
        /\ \A r \in ToSet(ReadLog(log)) : r \in Rec
    BY <1>1, ReadRecords DEF KeptInv, TypeInv, LogInv, LedgerInv
  <2>1. PICK base \in Seq(Line) :
          /\ base = Base
          /\ \A r \in ToSet(ReadLog(base)) : \E x \in ToSet(ReadLog(log)) : r.uid = x.uid /\ r.id = x.id
    <3>1. CASE Rewrites
      BY <2>0, <3>1 DEF Base
    <3>2. CASE ~Rewrites
      BY <2>0, <3>2, EndedIsRead DEF Base
    <3> QED BY <3>1, <3>2
  <2> SUFFICES ASSUME NEW was, NEW now, was = ReadLog(base), now = ReadLog(log'),
                      NEW i \in DOMAIN was, NEW j \in DOMAIN now, was[i].uid = now[j].uid, now[j].status = "undone"
               PROVE  \/ was[i].status # "undone" /\ BeforeUndone(log', now[j].id) = was[i].status
                      \/ was[i].status = "undone" /\ BeforeUndone(log', now[j].id) = BeforeUndone(base, was[i].id)
                      \/ (Sweep \/ \E f \in FrontEnds : Clear(f)) /\ BeforeUndone(log', now[j].id) = "pending"
    BY <2>1
  <2>2. was[i] \in ToSet(ReadLog(base)) /\ now[j] \in ToSet(ReadLog(log'))
    BY DEF ToSet
  <2>3. was[i].id = now[j].id
    <3>1. PICK k \in DOMAIN ReadLog(log) : ReadLog(log)[k].uid = was[i].uid /\ ReadLog(log)[k].id = was[i].id
      BY <2>1, <2>2 DEF ToSet
    <3> QED BY <1>1, <3>1, StepStableIds
  <2> QED BY <1>1, <2>1, <2>2, <2>3, StepRemembers
<1>2. KeptInv /\ [Next]_vars
        => [\A base \in {Base} : \A was \in {ReadLog(base)}, now \in {ReadLog(log')} :
              \A i \in DOMAIN was, j \in DOMAIN now :
                was[i].uid = now[j].uid /\ now[j].status = "undone" =>
                  LET remembered == BeforeUndone(log', now[j].id)
                  IN  \/ was[i].status # "undone" /\ remembered = was[i].status
                      \/ was[i].status = "undone" /\ remembered = BeforeUndone(base, was[i].id)
                      \/ (Sweep \/ \E f \in FrontEnds : Clear(f)) /\ remembered = "pending"]_log
  BY <1>1
<1> QED BY <1>2, Kept, PTL DEF Spec, RedoRemembers

-----------------------------------------------------------------------------
(* The log implements the ledger.                                          *)

\* What front ends have asked for: statuses, or that phantoms be dropped.
DropInv ==
  \A f \in FrontEnds :
    /\ todo[f] # <<>> => f \in session.by
    /\ todo[f] \in Seq(Marking) \/ (Len(todo[f]) = 1 /\ NamesPhantoms(Head(todo[f]).ids))

\* Where phantoms may be dropped, ids increase, one front end reviews, no rule takes edits out meanwhile, and no
\* append is cut short.
Tidy == \A s \in Sessions : s.phantoms # {} => /\ Clean(s.log) /\ s.ignorable = {} /\ ~s.torn
                                               /\ \A f, g \in s.by : f = g

\* A write to drop phantoms goes on naming phantoms until it is made.
LEMMA NamesStay ==
  ASSUME Tidy, TypeInv, DropInv, [Next]_vars, NEW f \in FrontEnds, todo[f] # <<>>, ~DropRecords(f),
         NEW ids, NamesPhantoms(ids)
  PROVE  NamesPhantoms(ids)'
<1>t. LogInv /\ log \in Seq(Line) /\ session \in Sessions /\ session' = session
  BY OtherSteps DEF TypeInv, LogInv
<1>1. /\ ids \subseteq Ids(log) /\ session.phantoms # {}
      /\ \A r \in ToSet(ReadLog(log)) : r.id \in ids => r.uid \in Phantoms
  BY DEF NamesPhantoms
<1>2. session.ignorable = {} /\ torn = "no" /\ \A g \in FrontEnds : g \in session.by => g = f
  BY <1>t, <1>1 DEF Tidy, DropInv, LogInv
<1>3. ~Sweep
  <2>1. Ignored = {}
    BY <1>2 DEF Ignored
  <2> QED BY <2>1 DEF Sweep
<1>4. \A g \in FrontEnds : ~Clear(g)
  <2> SUFFICES ASSUME NEW g \in FrontEnds, Clear(g) PROVE FALSE
    OBVIOUS
  <2>1. g \in session.by /\ todo[g] = <<>>
    BY DEF Clear, Ready, Idle
  <2> QED BY <1>2, <2>1
<1>5. \A g \in FrontEnds : ~DropRecords(g)
  <2> SUFFICES ASSUME NEW g \in FrontEnds, DropRecords(g) PROVE FALSE
    OBVIOUS
  <2>1. todo[g] # <<>>
    BY DEF DropRecords, Dropping, Idle
  <2> QED BY <1>2, <2>1 DEF DropInv
<1> DEFINE was == ReadLog(log)
           now == ReadLog(log')
<1>6. ids \subseteq IdsOf(was) /\ \A i \in DOMAIN was : was[i].id \in ids => was[i].uid \in Phantoms
  BY <1>1 DEF Ids, IdsOf, ToSet
<1> SUFFICES ids \subseteq IdsOf(now) /\ \A i \in DOMAIN now : now[i].id \in ids => now[i].uid \in Phantoms
  <2> DEFINE G == ids \subseteq IdsOf(now) /\ \A i \in DOMAIN now : now[i].id \in ids => now[i].uid \in Phantoms
  <2> SUFFICES ASSUME G PROVE NamesPhantoms(ids)'
    OBVIOUS
  <2>1. (session.phantoms # {})' /\ Phantoms' = Phantoms
    BY <1>1, <1>t DEF Phantoms
  <2>2. Ids(log') = IdsOf(now)
    BY DEF Ids, IdsOf, ToSet
  <2>3. \A r \in ToSet(now) : r.id \in ids => r.uid \in Phantoms
    BY DEF ToSet
  <2> QED BY <2>1, <2>2, <2>3 DEF NamesPhantoms
<1>7. was \in Seq(Rec) /\ now \in Seq(Rec)
  <2>1. log' \in Seq(Line)
    BY StepTypeInv DEF TypeInv, LogInv
  <2> QED BY <1>t, <2>1, ReadRecords
<1>8. \/ now = was
      \/ Added(was, now)
      \/ \E st \in Status : Remarked(was, now, st)
  <2>1. Drops(Rec)
    BY <1>5 DEF Drops
  <2>2. Ended = log
    BY <1>2 DEF Ended
  <2>3. Leaves => now = was
    BY DEF Leaves
  <2>4. Decides => \E st \in Status : Remarked(was, now, st)
    BY <2>2 DEF Decides
  <2>5. ~Thins(Rec)
    BY <1>3, <1>4, <1>5 DEF Thins
  <2> HIDE DEF was, now
  <2> QED BY <2>1, <2>3, <2>4, <2>5, ReadSteps DEF was, now
<1> HIDE DEF was, now
<1>9. CASE now = was
  BY <1>6, <1>9
<1>10. CASE Added(was, now)
  <2>1. PICK r \in Rec : now = Append(was, r) /\ r.id \notin IdsOf(was)
    BY <1>10 DEF Added
  <2>2. DOMAIN was = 1 .. Len(was) /\ DOMAIN now = 1 .. Len(was) + 1 /\ Len(was) \in Nat
        /\ now[Len(was) + 1] = r /\ \A i \in 1 .. Len(was) : now[i] = was[i]
    BY <1>7, <2>1, AppendProperties, LenProperties
  <2>3. r.id \notin ids
    BY <1>6, <2>1
  <2>4. ids \subseteq IdsOf(now)
    BY <1>6, <2>2 DEF IdsOf
  <2> QED BY <1>6, <2>2, <2>3, <2>4
<1>11. CASE \E st \in Status : Remarked(was, now, st)
  <2>1. DOMAIN now = DOMAIN was /\ \A i \in DOMAIN was : now[i].id = was[i].id /\ now[i].uid = was[i].uid
    BY <1>7, <1>11, LenProperties DEF Remarked
  <2> QED BY <1>6, <2>1 DEF IdsOf
<1> QED BY <1>8, <1>9, <1>10, <1>11

\* What a tidy session's front end asked to be dropped stays phantoms until it is dropped.
LEMMA StepDropInv == Tidy /\ TypeInv /\ DropInv /\ [Next]_vars => DropInv'
<1> SUFFICES ASSUME Tidy, TypeInv, DropInv, [Next]_vars, NEW f \in FrontEnds
             PROVE  /\ todo'[f] # <<>> => f \in session'.by
                    /\ todo'[f] \in Seq(Marking) \/ (Len(todo'[f]) = 1 /\ NamesPhantoms(Head(todo[f]).ids)')
  BY DEF DropInv
<1>1. session' = session
  BY OtherSteps
<1>2. /\ todo[f] # <<>> => f \in session.by
      /\ todo[f] \in Seq(Marking) \/ (Len(todo[f]) = 1 /\ NamesPhantoms(Head(todo[f]).ids))
      /\ todo[f] \in Seq(Asked)
  BY DEF DropInv, TypeInv, JobInv
<1>3. CASE todo'[f] = todo[f] /\ ~DropRecords(f)
  <2>1. CASE todo[f] \in Seq(Marking)
    BY <1>1, <1>2, <1>3, <2>1
  <2>2. CASE todo[f] \notin Seq(Marking)
    <3>1. Len(todo[f]) = 1 /\ NamesPhantoms(Head(todo[f]).ids) /\ todo[f] # <<>>
      BY <1>2, <2>2, EmptySeq
    <3>2. PICK ids : ids = Head(todo[f]).ids
      OBVIOUS
    <3>3. NamesPhantoms(ids)'
      BY <1>3, <3>1, <3>2, NamesStay
    <3>4. Head(todo'[f]).ids = ids
      BY <1>3, <3>2, Zenon
    <3>5. NamesPhantoms(Head(todo[f]).ids)'
      BY <3>3, <3>4 DEF NamesPhantoms
    <3> QED BY <1>1, <1>2, <1>3, <3>1, <3>5, Zenon
  <2> QED BY <2>1, <2>2
<1>4. CASE todo'[f] = <<>>
  BY <1>4, EmptySeq
<1>5. CASE todo[f] # <<>> /\ todo'[f] = Tail(todo[f])
  <2>1. CASE todo[f] \in Seq(Marking)
    <3>1. Tail(todo[f]) \in Seq(Marking)
      BY <1>5, <2>1, HeadTailProperties
    <3> QED BY <1>1, <1>2, <1>5, <3>1, Zenon
  <2>2. CASE Len(todo[f]) = 1
    <3>1. Tail(todo[f]) \in Seq(Asked) /\ Len(Tail(todo[f])) = Len(todo[f]) - 1
      BY <1>2, <1>5, HeadTailProperties, Zenon
    <3>2. PICK rest \in Seq(Asked) : rest = Tail(todo[f]) /\ Len(rest) = Len(todo[f]) - 1
      BY <3>1, Zenon
    <3>3. rest = <<>>
      BY <2>2, <3>2, EmptySeq
    <3> QED BY <1>4, <1>5, <3>2, <3>3, Zenon
  <2> QED BY <1>2, <2>1, <2>2
<1>6. CASE /\ f \in session.by /\ todo[f] = <<>> /\ log' = log
           /\ \/ todo'[f] \in Seq(Marking)
              \/ \E w \in Asked : todo'[f] = <<w>> /\ NamesPhantoms(w.ids)
  <2>1. CASE todo'[f] \in Seq(Marking)
    BY <1>1, <1>6, <2>1
  <2>2. CASE \E w \in Asked : todo'[f] = <<w>> /\ NamesPhantoms(w.ids)
    <3>1. PICK w \in Asked : todo'[f] = <<w>> /\ NamesPhantoms(w.ids)
      BY <2>2
    <3>2. Len(todo'[f]) = 1 /\ Head(todo'[f]).ids = w.ids
      BY <3>1
    <3>3. ReadLog(log') = ReadLog(log) /\ Ids(log') = Ids(log) /\ Phantoms' = Phantoms
      BY <1>1, <1>6 DEF Phantoms
    <3>4. NamesPhantoms(Head(todo[f]).ids)'
      BY <1>1, <3>1, <3>2, <3>3 DEF NamesPhantoms
    <3> QED BY <1>1, <1>6, <3>2, <3>4
  <2> QED BY <1>6, <2>1, <2>2
<1> QED BY <1>3, <1>4, <1>5, <1>6, TodoSteps, Zenon

\* What every reachable state satisfies, of tidy sessions.
LogIInv == KeptInv /\ DropInv

\* Every reachable state satisfies the stronger invariant, of tidy sessions.
LEMMA Ledgers ==
  ASSUME Tidy
  PROVE  Spec => []LogIInv
<1>1. Init => LogIInv
  <2> SUFFICES ASSUME Init PROVE LogIInv
    OBVIOUS
  <2>1. DropInv
    BY EmptySeq DEF Init, DropInv
  <2> QED BY <2>1, InitKeptInv DEF LogIInv
<1>2. LogIInv /\ [Next]_vars => LogIInv'
  <2>1. Whole
    BY DEF Tidy, Whole
  <2> QED BY <2>1, StepKeptInv, StepDropInv, Zenon DEF LogIInv, KeptInv
<1> QED BY <1>1, <1>2, PTL DEF Spec

\* A repair drops phantoms and nothing else, of tidy sessions.
LEMMA DropsPhantoms ==
  ASSUME Tidy, LogIInv
  PROVE  Drops(TakenOut)
<1>1. log \in Seq(Line) /\ session \in Sessions /\ CleanInv /\ DropInv
  BY DEF LogIInv, KeptInv, TypeInv, LogInv
<1>2. \A r \in ToSet(ReadLog(log)) : r \in Rec
  BY <1>1, ReadRecords
<1> SUFFICES ASSUME NEW f \in FrontEnds, DropRecords(f)
             PROVE  Clean(log) /\ \A r \in ToSet(ReadLog(log)) : r.id \in Head(todo[f]).ids => r \in TakenOut
  BY DEF Drops
<1>3. NamesPhantoms(Head(todo[f]).ids)
  BY <1>1, DroppingAsks DEF DropInv
<1>4. Clean(log)
  BY <1>1, <1>3 DEF NamesPhantoms, Tidy, CleanInv
<1> QED BY <1>2, <1>3, <1>4 DEF NamesPhantoms, TakenOut, Excluded, Phantoms

\* The verdicts that edits read as `recs` stand for, when `es` were captured and `ms` of them missed.
Held(recs, es, ms) ==
  [e \in 1 .. MaxEdits |->
     IF \E i \in DOMAIN recs : recs[i].uid = e THEN recs[CHOOSE i \in DOMAIN recs : recs[i].uid = e].status
     ELSE IF e <= es /\ e \notin ms THEN "cleared" ELSE "none"]

\* An edit that is read has the verdict it is read with.
LEMMA HeldOf ==
  ASSUME NEW recs \in Seq(Rec), Pairwise(recs, Older), NEW es, NEW ms
  PROVE  /\ \A r \in ToSet(recs) : r.uid \in 1 .. MaxEdits => Held(recs, es, ms)[r.uid] = r.status
         /\ \A e \in 1 .. MaxEdits :
              (\A r \in ToSet(recs) : r.uid # e)
                => Held(recs, es, ms)[e] = IF e <= es /\ e \notin ms THEN "cleared" ELSE "none"
         /\ \A r, q \in ToSet(recs) : r.uid = q.uid => r = q
<1>1. DOMAIN recs = 1 .. Len(recs) /\ Len(recs) \in Nat /\ \A i \in DOMAIN recs : recs[i] \in Rec
  BY LenProperties, ElementOfSeq
<1>2. \A i, j \in DOMAIN recs : recs[i].uid = recs[j].uid => i = j
  <2> SUFFICES ASSUME NEW i \in DOMAIN recs, NEW j \in DOMAIN recs, i < j PROVE recs[i].uid # recs[j].uid
    BY <1>1
  <2>1. <<recs[i], recs[j]>> \in Older
    BY DEF Pairwise
  <2>2. recs[i].uid < recs[j].uid /\ recs[i].uid \in Nat /\ recs[j].uid \in Nat
    BY <2>1 DEF Older, Rec
  <2> QED BY <2>2
<1>3. ASSUME NEW k \in DOMAIN recs, recs[k].uid \in 1 .. MaxEdits PROVE Held(recs, es, ms)[recs[k].uid] = recs[k].status
  <2>1. (CHOOSE i \in DOMAIN recs : recs[i].uid = recs[k].uid) = k
    BY <1>2
  <2> QED BY <1>3, <2>1 DEF Held
<1>4. \A r \in ToSet(recs) : \E k \in DOMAIN recs : recs[k] = r
  BY DEF ToSet
<1>5. \A k \in DOMAIN recs : recs[k] \in ToSet(recs)
  BY DEF ToSet
<1>6. ASSUME NEW e \in 1 .. MaxEdits, \A r \in ToSet(recs) : r.uid # e
      PROVE  Held(recs, es, ms)[e] = IF e <= es /\ e \notin ms THEN "cleared" ELSE "none"
  <2>1. ~ \E i \in DOMAIN recs : recs[i].uid = e
    BY <1>5, <1>6
  <2> QED BY <2>1, Zenon DEF Held
<1> QED BY <1>2, <1>3, <1>4, <1>6

\* Each edit has one of the ledger's statuses, or none.
LEMMA HeldType ==
  ASSUME NEW recs \in Seq(Rec), Pairwise(recs, Older), NEW es, NEW ms
  PROVE  /\ Held(recs, es, ms) \in [1 .. MaxEdits -> Ledger!Status \cup {"none", "cleared"}]
         /\ DOMAIN Held(recs, es, ms) = 1 .. MaxEdits
<1> DEFINE V == Held(recs, es, ms)
<1>1. V = [e \in 1 .. MaxEdits |-> V[e]]
  BY DEF Held
<1>2. ASSUME NEW e \in 1 .. MaxEdits PROVE V[e] \in Ledger!Status \cup {"none", "cleared"}
  <2>1. CASE \E r \in ToSet(recs) : r.uid = e
    <3>1. PICK r \in ToSet(recs) : r.uid = e
      BY <2>1
    <3>2. V[e] = r.status /\ r \in Rec
      BY <3>1, HeldOf, ElementsType
    <3> QED BY <3>2 DEF Rec, Status, Ledger!Status
  <2>2. CASE \A r \in ToSet(recs) : r.uid # e
    <3>1. V[e] = IF e <= es /\ e \notin ms THEN "cleared" ELSE "none"
      BY <2>2, HeldOf
    <3> QED BY <3>1
  <2> QED BY <2>1, <2>2
<1> HIDE DEF V
<1>3. V \in [1 .. MaxEdits -> Ledger!Status \cup {"none", "cleared"}] /\ DOMAIN V = 1 .. MaxEdits
  BY <1>1, <1>2
<1> QED BY <1>3 DEF V

\* What is lost with a last line that lacks its newline.
Hanging == Uids(log) \ Uids(Ended)

\* The verdicts are those, and so are they without such a line.
LEMMA VerdictsAreHeld ==
  ASSUME LogInv, LogInv'
  PROVE  /\ Verdicts = Held(ReadLog(log), edits, missed)
         /\ Verdicts' = Held(ReadLog(log'), edits', missed')
         /\ EndedVerdicts = Held(ReadLog(Ended), edits, missed \cup Hanging)
         /\ EndedVerdicts' = Held(ReadLog(Ended'), edits', missed' \cup Hanging')
<1>1. /\ ReadLog(log) \in Records /\ ReadLog(log') \in Records
      /\ ReadLog(Ended) \in Records /\ ReadLog(Ended') \in Records
  <2>1. log \in Seq(Line) /\ log' \in Seq(Line) /\ Ended \in Seq(Line)
    BY EndedOfLog DEF LogInv
  <2>2. PICK base \in Seq(Line) : base = IF torn' = "line" THEN Front(log') ELSE log'
    BY <2>1, EndedType
  <2>3. Ended' \in Seq(Line)
    BY <2>2 DEF Ended
  <2> QED BY <2>1, <2>3, ReadType
<1>2. Verdicts = Held(ReadLog(log), edits, missed) /\ Verdicts' = Held(ReadLog(log'), edits', missed')
  BY <1>1 DEF Verdicts, LedgerOf, Held
<1>3. EndedVerdicts = Held(ReadLog(Ended), edits, missed \cup Hanging)
  <2>1. CASE torn = "line"
    <3>1. LedgerOf(Ended, missed \cup Hanging) = Held(ReadLog(Ended), edits, missed \cup Hanging)
      BY <1>1 DEF LedgerOf, Held
    <3> QED BY <2>1, <3>1 DEF EndedVerdicts, Hanging
  <2>2. CASE torn # "line"
    <3>1. Ended = log /\ missed \cup Hanging = missed /\ EndedVerdicts = Verdicts
      BY <2>2 DEF Ended, EndedVerdicts, Hanging
    <3> QED BY <1>2, <3>1
  <2> QED BY <2>1, <2>2
<1>4. EndedVerdicts' = Held(ReadLog(Ended'), edits', missed' \cup Hanging')
  <2>1. CASE torn' = "line"
    <3>1. LedgerOf(Ended, missed \cup Hanging)' = Held(ReadLog(Ended'), edits', missed' \cup Hanging')
      BY <1>1 DEF LedgerOf, Held
    <3> QED BY <2>1, <3>1 DEF EndedVerdicts, Hanging
  <2>2. CASE torn' # "line"
    <3>1. Ended' = log' /\ missed' \cup Hanging' = missed' /\ EndedVerdicts' = Verdicts'
      BY <2>2 DEF Ended, EndedVerdicts, Hanging
    <3> QED BY <1>2, <3>1
  <2> QED BY <2>1, <2>2
<1> QED BY <1>2, <1>3, <1>4

\* A status that some edits are given is a decision, where no other edit comes or goes.
LEMMA GivenIsDecided ==
  ASSUME NEW was \in Seq(Rec), NEW now \in Seq(Rec), NEW st \in Status, Remarked(was, now, st), Pairwise(was, Older),
         NEW es, NEW ms, NEW es2, NEW ms2,
         \A r \in ToSet(was) : r.uid \in 1 .. MaxEdits,
         \A e \in 1 .. MaxEdits :
           (\A r \in ToSet(was) : r.uid # e) => (e <= es /\ e \notin ms <=> e <= es2 /\ e \notin ms2)
  PROVE  Ledger!Decided(Held(was, es, ms), Held(now, es2, ms2))
<1> DEFINE V == Held(was, es, ms)
           W == Held(now, es2, ms2)
<1>1. Pairwise(now, Older)
  BY RemarkedKeeps
<1>2. /\ \A r \in ToSet(was) : V[r.uid] = r.status
      /\ \A e \in 1 .. MaxEdits :
           (\A r \in ToSet(was) : r.uid # e) => V[e] = IF e <= es /\ e \notin ms THEN "cleared" ELSE "none"
  BY HeldOf
<1>3. /\ \A r \in ToSet(now) : r.uid \in 1 .. MaxEdits => W[r.uid] = r.status
      /\ \A e \in 1 .. MaxEdits :
           (\A r \in ToSet(now) : r.uid # e) => W[e] = IF e <= es2 /\ e \notin ms2 THEN "cleared" ELSE "none"
  BY <1>1, HeldOf
<1> HIDE DEF V, W
<1>4. /\ DOMAIN was = 1 .. Len(was) /\ DOMAIN now = 1 .. Len(was) /\ \A i \in 1 .. Len(was) : was[i] \in Rec
      /\ \A i \in 1 .. Len(was) : now[i].uid = was[i].uid /\ now[i].status \in {was[i].status, st}
  BY LenProperties, ElementOfSeq DEF Remarked
<1>5. ASSUME NEW e \in 1 .. MaxEdits PROVE W[e] = V[e] \/ (V[e] \in Status /\ W[e] = st)
  <2>1. CASE \E i \in 1 .. Len(was) : was[i].uid = e
    <3>1. PICK i \in 1 .. Len(was) : was[i].uid = e
      BY <2>1
    <3>2. was[i] \in ToSet(was) /\ now[i] \in ToSet(now)
      BY <1>4 DEF ToSet
    <3>3. V[e] = was[i].status /\ W[e] = now[i].status /\ was[i].status \in Status
      BY <1>2, <1>3, <1>4, <3>1, <3>2 DEF Rec
    <3> QED BY <1>4, <3>3
  <2>2. CASE ~ \E i \in 1 .. Len(was) : was[i].uid = e
    <3>1. (\A r \in ToSet(was) : r.uid # e) /\ (\A r \in ToSet(now) : r.uid # e)
      BY <1>4, <2>2 DEF ToSet
    <3> QED BY <1>2, <1>3, <3>1
  <2> QED BY <2>1, <2>2
<1>6. Ledger!Decided(V, W)
  BY <1>5 DEF Ledger!Decided, Ledger!Status, Status
<1> QED BY <1>6 DEF V, W

\* A decision that gives nothing is one too.
LEMMA NoneDecided ==
  ASSUME NEW V
  PROVE  Ledger!Decided(V, V)
BY DEF Ledger!Decided, Ledger!Status

\* An edit captured whole enters the ledger as pending.
LEMMA AddedIsCaptured ==
  ASSUME NEW was \in Seq(Rec), NEW now \in Seq(Rec), Added(was, now), Pairwise(was, Older), Pairwise(now, Older),
         edits \in Nat, edits < MaxEdits, MaxEdits \in Nat, NEW ms,
         \A r \in ToSet(was) : r.uid \in 1 .. edits
  PROVE  Ledger!Captured(Held(was, edits, ms), Held(now, edits + 1, ms))
<1> DEFINE V == Held(was, edits, ms)
           W == Held(now, edits + 1, ms)
<1>1. PICK r \in Rec : now = Append(was, r) /\ r.uid = edits + 1 /\ r.status = "pending"
  BY DEF Added
<1>2. ToSet(now) = ToSet(was) \cup {r}
  BY <1>1, ElementsOfAppend
<1>3. /\ \A q \in ToSet(was) : q.uid \in 1 .. MaxEdits /\ V[q.uid] = q.status
      /\ \A e \in 1 .. MaxEdits :
           (\A q \in ToSet(was) : q.uid # e) => V[e] = IF e <= edits /\ e \notin ms THEN "cleared" ELSE "none"
  <2>1. \A q \in ToSet(was) : q.uid \in 1 .. MaxEdits
    OBVIOUS
  <2> QED BY <2>1, HeldOf
<1>4. /\ \A q \in ToSet(now) : q.uid \in 1 .. MaxEdits /\ W[q.uid] = q.status
      /\ \A e \in 1 .. MaxEdits :
           (\A q \in ToSet(now) : q.uid # e) => W[e] = IF e <= edits + 1 /\ e \notin ms THEN "cleared" ELSE "none"
  <2>1. \A q \in ToSet(now) : q.uid \in 1 .. MaxEdits
    BY <1>1, <1>2
  <2> QED BY <2>1, HeldOf
<1>5. V = [e \in 1 .. MaxEdits |-> V[e]] /\ W = [e \in 1 .. MaxEdits |-> W[e]] /\ DOMAIN V = 1 .. MaxEdits
  BY DEF Held
<1> HIDE DEF V, W
<1>6. r.uid \in 1 .. MaxEdits /\ V[r.uid] = "none" /\ W[r.uid] = "pending"
  <2>1. \A q \in ToSet(was) : q.uid # r.uid
    BY <1>1
  <2>2. r.uid \in 1 .. MaxEdits /\ ~(r.uid <= edits) /\ r \in ToSet(now)
    BY <1>1, <1>2
  <2> QED BY <1>1, <1>3, <1>4, <2>1, <2>2
<1>7. ASSUME NEW e \in 1 .. MaxEdits, e # r.uid PROVE W[e] = V[e]
  <2>1. CASE \E q \in ToSet(was) : q.uid = e
    BY <1>2, <1>3, <1>4, <2>1
  <2>2. CASE ~ \E q \in ToSet(was) : q.uid = e
    <3>1. \A q \in ToSet(now) : q.uid # e
      BY <1>2, <1>7, <2>2
    <3>2. e <= edits <=> e <= edits + 1
      BY <1>1, <1>7
    <3> QED BY <1>3, <1>4, <2>2, <3>1, <3>2
  <2> QED BY <2>1, <2>2
<1>8. W = [V EXCEPT ![r.uid] = "pending"]
  BY <1>5, <1>6, <1>7
<1>9. Ledger!Captured(V, W)
  BY <1>6, <1>8 DEF Ledger!Captured
<1> QED BY <1>9 DEF V, W

\* What is taken out of the log is cleared from the ledger.
LEMMA ThinnedIsCleared ==
  ASSUME NEW was \in Seq(Rec), NEW now \in Seq(Rec), NEW gone, Thinned(was, now, gone),
         Pairwise(was, Older), Pairwise(now, Older), NEW es \in Nat, NEW ms,
         \A r \in ToSet(was) : r.uid \in (1 .. es) \ ms /\ r.uid \in 1 .. MaxEdits,
         NEW e \in 1 .. MaxEdits
  PROVE  \/ Held(now, es, ms)[e] = Held(was, es, ms)[e]
         \/ /\ Held(now, es, ms)[e] = "cleared"
            /\ \E r \in Rec \cap gone : r.uid = e /\ Held(was, es, ms)[e] = r.status
<1> DEFINE V == Held(was, es, ms)
           W == Held(now, es, ms)
<1>1. ToSet(now) \subseteq ToSet(was) /\ \A r \in ToSet(was) : r \in ToSet(now) \/ r \in gone
  BY ThinnedKeeps
<1>2. /\ \A q \in ToSet(was) : V[q.uid] = q.status /\ q \in Rec
      /\ (\A q \in ToSet(was) : q.uid # e) => V[e] = IF e <= es /\ e \notin ms THEN "cleared" ELSE "none"
  BY HeldOf, ElementsType
<1>3. /\ \A q \in ToSet(now) : W[q.uid] = q.status
      /\ (\A q \in ToSet(now) : q.uid # e) => W[e] = IF e <= es /\ e \notin ms THEN "cleared" ELSE "none"
  BY <1>1, HeldOf
<1> SUFFICES W[e] = V[e] \/ (W[e] = "cleared" /\ \E r \in Rec \cap gone : r.uid = e /\ V[e] = r.status)
  OBVIOUS
<1> HIDE DEF V, W
<1>4. CASE \E r \in ToSet(now) : r.uid = e
  BY <1>1, <1>2, <1>3, <1>4
<1>5. CASE ~ \E r \in ToSet(was) : r.uid = e
  BY <1>1, <1>2, <1>3, <1>5
<1>6. CASE (~ \E r \in ToSet(now) : r.uid = e) /\ \E r \in ToSet(was) : r.uid = e
  <2>1. PICK r \in ToSet(was) : r.uid = e
    BY <1>6
  <2>2. r \in gone /\ r \in Rec /\ V[e] = r.status
    BY <1>1, <1>2, <1>6, <2>1
  <2>3. e <= es /\ e \notin ms
    BY <2>1
  <2>4. W[e] = "cleared"
    BY <1>3, <1>6, <2>3
  <2> QED BY <2>1, <2>2, <2>4
<1> QED BY <1>4, <1>5, <1>6

\* Whatever is done to a session is one of the ledger's steps, or none.
LEMMA StepLedger ==
  ASSUME Tidy, LogIInv, [Next]_vars
  PROVE  Ledger!Next
<1> DEFINE was == ReadLog(log)
           now == ReadLog(log')
           back == ReadLog(Ended)
           safe == ReadLog(Ended')
           V == Held(was, edits, missed)
           B == Held(back, edits, missed \cup Hanging)
           W == Held(now, edits', missed')
           S == Held(safe, edits', missed' \cup Hanging')
<1>1. TypeInv /\ CleanInv /\ DropInv /\ LedgerInv /\ LedgerInv' /\ LogInv /\ LogInv'
  <2>1. Whole
    BY DEF Tidy, Whole
  <2> QED BY <2>1, StepLedgerInv, StepTypeInv DEF LogIInv, KeptInv, TypeInv
<1>2. /\ edits \in Nat /\ session \in Sessions /\ session' = session /\ log \in Seq(Line) /\ log' \in Seq(Line)
      /\ session.edits \in 0 .. MaxEdits /\ MaxEdits \in Nat
  BY <1>1, OtherSteps DEF LogInv
<1>3. /\ was \in Seq(Rec) /\ now \in Seq(Rec) /\ Pairwise(was, Older) /\ Pairwise(now, Older) /\ edits <= session.edits
      /\ \A r \in ToSet(was) : r.uid \in (1 .. edits) \ missed
      /\ \A r \in ToSet(now) : r.uid \in (1 .. edits') \ missed'
      /\ edits' <= session.edits /\ missed \subseteq 1 .. edits
  BY <1>1, <1>2, ReadRecords DEF LedgerInv
<1>b. /\ back \in Seq(Rec) /\ Pairwise(back, Older)
      /\ \A r \in ToSet(back) : \E q \in ToSet(was) : r.uid = q.uid /\ r.id = q.id
  BY <1>1, <1>3, EndedIsRead
<1>s. safe \in Seq(Rec) /\ Pairwise(safe, Older)
  <2>1. PICK base \in Seq(Line) : /\ base = IF torn' = "line" THEN Front(log') ELSE log'
                                  /\ log' = base \/ \E l \in Line : log' = Append(base, l)
    BY <1>2, EndedType
  <2>2. base = Ended'
    BY <2>1 DEF Ended
  <2>3. ReadLog(base) \in Seq(Rec) /\ Pairwise(ReadLog(base), Older)
    BY <1>2, <1>3, <2>1, ReadRecords, EndedReads
  <2> QED BY <2>2, <2>3
<1>4. \/ Leaves
      \/ Captures /\ Added(was, now)
      \/ Decides
      \/ torn' = "no" /\ UNCHANGED <<edits, missed>> /\ (Thinned(was, now, Settled) \/ Thinned(was, now, TakenOut))
  BY <1>1, DropsPhantoms, ReadSteps DEF Thins
<1>5. Verdicts = V /\ Verdicts' = W /\ EndedVerdicts = B /\ EndedVerdicts' = S
  BY <1>1, VerdictsAreHeld
<1>6. Excluded' \in SUBSET (1 .. MaxEdits)
  <2>1. session'.ignorable \subseteq 1 .. MaxEdits /\ session'.phantoms \subseteq (1 .. MaxEdits) \X (1 .. MaxEdits)
    BY <1>2
  <2> QED BY <2>1 DEF Excluded, Ignored
<1>u. /\ Uids(log) = {r.uid : r \in ToSet(was)} /\ Uids(log') = {r.uid : r \in ToSet(now)}
      /\ Uids(Ended) = {r.uid : r \in ToSet(back)} /\ Uids(Ended') = {r.uid : r \in ToSet(safe)}
  BY DEF Uids
<1>7. /\ \A r \in ToSet(was) : r.uid \in 1 .. MaxEdits
      /\ \A r \in ToSet(back) : r.uid \in 1 .. MaxEdits
  <2>1. \A r \in ToSet(was) : r.uid \in 1 .. MaxEdits
    BY <1>2, <1>3
  <2> QED BY <1>b, <2>1
<1>8. {W, S} \subseteq [1 .. MaxEdits -> Ledger!Status \cup {"none", "cleared"}]
  <2> HIDE DEF now, safe
  <2> QED BY <1>3, <1>s, HeldType
<1> HIDE DEF V, W, B, S
<1> SUFFICES (W = V /\ S = B) \/ \E from \in {V, B} : Ledger!Step(from, W) /\ Ledger!Step(from, S)
  BY <1>5, <1>6, <1>8 DEF Ledger!Next
<1> HIDE DEF was, now, back, safe
<1>9. CASE Leaves
  <2>1. now = was /\ safe = back /\ Hanging' = Hanging /\ edits' = edits /\ missed' = missed
    <3>1. Ended' = Ended /\ log' = log
      BY <1>9 DEF Leaves, Ended
    <3> QED BY <1>9, <3>1 DEF Leaves, Hanging, Uids, was, now, back, safe
  <2> QED BY <2>1 DEF V, W, B, S
<1>10. CASE Captures /\ Added(was, now)
  <2>1. edits' = edits + 1 /\ edits < session.edits /\ Ended' \in {log, log'} /\ Miss
    BY <1>10 DEF Captures
  <2>2. PICK r \in Rec : now = Append(was, r) /\ r.uid = edits + 1
    BY <1>10 DEF Added
  <2>3. Uids(log') = Uids(log) \cup {edits + 1}
    <3>1. ToSet(now) = ToSet(was) \cup {r}
      BY <1>3, <2>2, ElementsOfAppend
    <3> QED BY <1>u, <2>2, <3>1
  <2>4. missed' = missed
    <3>1. (edits + 1) .. edits' = {edits + 1}
      BY <1>2, <2>1
    <3> QED BY <2>1, <2>3, <3>1 DEF Miss
  <2>5. Ledger!Captured(V, W)
    <3>1. Ledger!Captured(Held(was, edits, missed), Held(now, edits + 1, missed))
      BY <1>2, <1>3, <1>10, <2>1, AddedIsCaptured
    <3> QED BY <2>1, <2>4, <3>1 DEF V, W
  <2>6. CASE Ended' = log'
    <3>1. S = W
      <4>1. safe = now /\ missed' \cup Hanging' = missed'
        BY <2>6 DEF safe, now, Hanging
      <4> QED BY <4>1 DEF S, W
    <3> QED BY <2>5, <3>1 DEF Ledger!Step
  <2>7. CASE Ended' = log
    <3>1. safe = was /\ missed' \cup Hanging' = missed \cup {edits + 1}
      <4>1. Hanging' = Uids(log') \ Uids(log)
        BY <2>7 DEF Hanging
      <4>2. Hanging' = {edits + 1}
        <5>1. edits + 1 \notin Uids(log)
          BY <1>2, <1>3, <1>u
        <5> QED BY <2>3, <4>1, <5>1
      <4> QED BY <2>4, <2>7, <4>2 DEF safe, was
    <3>2. S = V
      <4>1. \A e \in 1 .. MaxEdits :
              (e <= edits + 1 /\ e \notin missed \cup {edits + 1}) <=> (e <= edits /\ e \notin missed)
        BY <1>2
      <4>2. S = Held(was, edits + 1, missed \cup {edits + 1})
        BY <2>1, <3>1 DEF S
      <4> QED BY <4>1, <4>2 DEF V, Held
    <3> QED BY <2>5, <3>2, NoneDecided DEF Ledger!Step
  <2> QED BY <2>1, <2>6, <2>7
<1>11. CASE Decides
  <2>1. PICK st \in Status, su \in Status : Remarked(back, now, st) /\ Remarked(back, safe, su)
    BY <1>11 DEF Decides, back, now, safe
  <2>2. edits' \in Nat /\ edits <= edits' /\ missed' = missed \cup ((Uids(log) \cup (edits + 1) .. edits') \ Uids(log'))
    BY <1>2, <1>11 DEF Decides, Miss
  <2>3. Uids(log') = Uids(Ended) /\ Uids(Ended') = Uids(Ended)
    <3>1. ASSUME NEW r \in Seq(Rec), NEW s, Remarked(back, r, s)
          PROVE  {x.uid : x \in ToSet(r)} = {x.uid : x \in ToSet(back)}
      <4>1. /\ DOMAIN back = 1 .. Len(back) /\ DOMAIN r = 1 .. Len(back)
            /\ \A i \in 1 .. Len(back) : r[i].uid = back[i].uid
        BY <1>b, <3>1, LenProperties DEF Remarked
      <4> QED BY <4>1 DEF ToSet
    <3> QED BY <1>3, <1>s, <1>u, <2>1, <3>1
  <2>4. ASSUME NEW e \in 1 .. MaxEdits, \A r \in ToSet(back) : r.uid # e
        PROVE  /\ e <= edits /\ e \notin missed \cup Hanging <=> e <= edits' /\ e \notin missed'
               /\ e <= edits /\ e \notin missed \cup Hanging <=> e <= edits' /\ e \notin missed' \cup Hanging'
    <3>1. e \notin Uids(Ended)
      BY <1>u, <2>4
    <3>2. Hanging' = {} /\ Hanging = Uids(log) \ Uids(Ended)
      BY <2>3 DEF Hanging
    <3>3. e \notin missed' <=> e \notin missed /\ e \notin Uids(log) /\ ~(e \in (edits + 1) .. edits')
      BY <2>2, <2>3, <3>1
    <3>4. e <= edits <=> e <= edits' /\ ~(e \in (edits + 1) .. edits')
      BY <1>2, <2>2
    <3>5. e \notin missed \cup Hanging <=> e \notin missed /\ e \notin Uids(log)
      BY <3>1, <3>2
    <3> QED BY <3>2, <3>3, <3>4, <3>5
  <2>5. Ledger!Decided(Held(back, edits, missed \cup Hanging), Held(now, edits', missed'))
    BY <1>3, <1>7, <1>b, <2>1, <2>4, GivenIsDecided
  <2>6. Ledger!Decided(Held(back, edits, missed \cup Hanging), Held(safe, edits', missed' \cup Hanging'))
    BY <1>7, <1>b, <1>s, <2>1, <2>4, GivenIsDecided
  <2>7. Ledger!Step(B, W) /\ Ledger!Step(B, S)
    BY <2>5, <2>6 DEF B, W, S, Ledger!Step
  <2> QED BY <2>7
<1>12. CASE torn' = "no" /\ UNCHANGED <<edits, missed>> /\ (Thinned(was, now, Settled) \/ Thinned(was, now, TakenOut))
  <2>1. S = W
    <3>1. Ended' = log'
      BY <1>12 DEF Ended
    <3>2. safe = now /\ missed' \cup Hanging' = missed'
      BY <3>1 DEF safe, now, Hanging
    <3> QED BY <3>2 DEF S, W
  <2>2. ASSUME NEW gone, Thinned(was, now, gone), NEW e \in 1 .. MaxEdits
        PROVE  W[e] = V[e] \/ (W[e] = "cleared" /\ \E r \in Rec \cap gone : r.uid = e /\ V[e] = r.status)
    <3>1. /\ W = Held(now, edits, missed) /\ V = Held(was, edits, missed)
          /\ \A r \in ToSet(was) : r.uid \in (1 .. edits) \ missed /\ r.uid \in 1 .. MaxEdits
      BY <1>3, <1>7, <1>12 DEF V, W
    <3>2. \/ Held(now, edits, missed)[e] = Held(was, edits, missed)[e]
          \/ /\ Held(now, edits, missed)[e] = "cleared"
             /\ \E r \in Rec \cap gone : r.uid = e /\ Held(was, edits, missed)[e] = r.status
      BY <1>2, <1>3, <2>2, <3>1, ThinnedIsCleared, SMTT(30)
    <3> QED BY <3>1, <3>2
  <2>3. CASE Thinned(was, now, Settled)
    <3>1. \A e \in 1 .. MaxEdits : W[e] = V[e] \/ (W[e] = "cleared" /\ V[e] \in {"kept", "undone"})
      BY <2>2, <2>3 DEF Settled
    <3>2. Ledger!Cleared(V, W)
      BY <3>1 DEF Ledger!Cleared
    <3> QED BY <2>1, <3>2 DEF Ledger!Step
  <2>4. CASE Thinned(was, now, TakenOut)
    <3>1. \A e \in 1 .. MaxEdits : W[e] = V[e] \/ (W[e] = "cleared" /\ e \in Excluded /\ V[e] \in Status)
      BY <2>2, <2>4 DEF TakenOut, Rec
    <3>2. Ledger!TakenOut(V, W)
      BY <3>1 DEF Ledger!TakenOut, Ledger!Status, Status
    <3> QED BY <2>1, <3>2 DEF Ledger!Step
  <2> QED BY <1>12, <2>3, <2>4
<1> QED BY <1>4, <1>9, <1>10, <1>11, <1>12

\* A log as a session starts with it maps to a ledger whose edits are all pending.
LEMMA InitLedger == Init => Ledger!Init
<1> SUFFICES ASSUME Init PROVE Ledger!Init
  OBVIOUS
<1> DEFINE recs == ReadLog(log)
           V == Held(recs, edits, missed)
<1>1. LogInv /\ log \in Seq(Line) /\ LedgerInv
  BY InitTypeInv, InitLedgerInv DEF TypeInv, LogInv
<1>2. recs \in Seq(Rec) /\ recs \in Records /\ Pairwise(recs, Older)
  BY <1>1, ReadRecords, ReadType DEF LedgerInv
<1>3. Verdicts = V /\ EndedVerdicts = Verdicts
  BY <1>2 DEF Verdicts, LedgerOf, Held, EndedVerdicts, Init
<1>4. /\ edits \in Nat /\ missed = {} /\ Len(recs) = edits
      /\ \A i \in 1 .. edits : recs[i].uid = i /\ recs[i].status = "pending"
  BY <1>1, InitReads DEF Init, LogInv
<1>5. V \in [1 .. MaxEdits -> {"none", "pending"}]
  <2> HIDE DEF recs
  <2>1. DOMAIN recs = 1 .. edits
    BY <1>2, <1>4, LenProperties
  <2>2. ASSUME NEW e \in 1 .. MaxEdits PROVE V[e] \in {"none", "pending"}
    <3>1. CASE e <= edits
      <4>1. e \in DOMAIN recs
        BY <1>4, <2>1, <3>1
      <4>2. recs[e] \in ToSet(recs) /\ recs[e].uid = e /\ recs[e].status = "pending"
        BY <1>4, <2>1, <4>1 DEF ToSet
      <4> QED BY <1>2, <4>2, HeldOf
    <3>2. CASE ~(e <= edits)
      <4>1. \A r \in ToSet(recs) : r.uid # e
        BY <1>4, <2>1, <3>2 DEF ToSet
      <4> QED BY <1>2, <3>2, <4>1, HeldOf
    <3> QED BY <3>1, <3>2
  <2>3. V = [e \in 1 .. MaxEdits |-> V[e]]
    BY DEF Held
  <2> HIDE DEF V
  <2> QED BY <2>2, <2>3
<1>6. Excluded \in SUBSET (1 .. MaxEdits)
  <2>1. session.ignorable \subseteq 1 .. MaxEdits /\ session.phantoms \subseteq (1 .. MaxEdits) \X (1 .. MaxEdits)
    BY <1>1 DEF LogInv
  <2> QED BY <2>1 DEF Excluded, Ignored
<1> QED BY <1>3, <1>5, <1>6 DEF Ledger!Init

\* The log keeps the ledger's promise: an edit is lost only by a clear that found a verdict on it, or as one of those
\* that a rule or a repair takes out, and no append or rewrite changes a verdict but a reviewer's, or that of a last
\* line without its newline.
THEOREM LedgerIsKept ==
  ASSUME Tidy
  PROVE  Spec => ImplementsLedger
<1>1. LogIInv /\ [Next]_vars => [Ledger!Next]_<<Verdicts, EndedVerdicts, Excluded>>
  BY StepLedger
<1> QED BY <1>1, InitLedger, Ledgers, PTL DEF Spec, ImplementsLedger, Ledger!Spec

=============================================================================
