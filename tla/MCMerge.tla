------------------------------ MODULE MCMerge ------------------------------
(* Small texts for checking Merge. *)
EXTENDS Merge

\* Texts of at most n lines; only a last line that is not blank may lack its terminator.
TextsOf(bodies, ends, n) ==
  {s \in UNION {[1 .. k -> [body : bodies, end : ends \cup {"none"}]] : k \in 0 .. n} :
     \A i \in DOMAIN s : s[i].end = "none" => i = Len(s) /\ s[i].body # ""}

\* Two lines that may be alike, blank, or end in either way; three lines that end alike.
FewLines == TextsOf({"a", ""}, {"lf", "crlf"}, 2)
MoreLines == TextsOf({"a", "b"}, {"lf"}, 3)
SmallTexts == FewLines \cup MoreLines

=============================================================================
