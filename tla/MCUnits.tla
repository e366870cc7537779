------------------------------ MODULE MCUnits ------------------------------
(* Small files for checking Units. *)
EXTENDS Units, TLC

CONSTANTS l1, l2, l3

\* Up to two lines, none of them twice.
ShortTexts == {s \in UNION {[1 .. n -> {l1, l2, l3}] : n \in 0 .. 2} : \A i, j \in DOMAIN s : s[i] = s[j] => i = j}

\* The file may be there before the session, and someone may put it back as it was.
ForeignTexts == {Absent, <<l3>>}

\* One line is in a function.
ScopedLines == {l3}

Symmetry == Permutations({l1, l2})

=============================================================================
