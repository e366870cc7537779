---------------------------- MODULE MCFileReview ----------------------------
(***************************************************************************)
(* Model checking FileReview: sets of verbs, and interchangeable reviewers.*)
(***************************************************************************)
EXTENDS FileReview, TLC

CONSTANTS r1, r2

Symmetry == Permutations(Reviewers)

\* What Accounted excludes: a verb that overwrites, with an edit that deletes; and two reviewers of whom one redoes or
\* keeps.
RiskySessions ==
  {[by |-> {r}, verbs |-> {"undo", "restoreFile"}, edits |-> 3, crashes |-> 0] : r \in Reviewers}
  \cup
  {[by |-> Reviewers, verbs |-> {"undoScope", "redoScope"}, edits |-> 2, crashes |-> 0],
   [by |-> Reviewers, verbs |-> {"undo", "keepGroup", "keepIds"}, edits |-> 2, crashes |-> 0]}

\* Every verb that merges, by one reviewer: three edits, and two with deaths; undo and repair by two, on three edits
\* or on two with a death; and the verbs that overwrite or keep by id, with undo and redo, by two on two edits.
Merging == {"undo", "undoScope", "redo", "redoScope", "keepGroup", "recordOnly"}
Repairing == {"undo", "undoScope", "recordOnly"}

ManySessions ==
  {[by |-> {r}, verbs |-> Merging, edits |-> 3, crashes |-> 0] : r \in Reviewers}
  \cup
  {[by |-> {r}, verbs |-> Merging, edits |-> 2, crashes |-> 2] : r \in Reviewers}
  \cup
  {[by |-> Reviewers, verbs |-> Repairing, edits |-> 3, crashes |-> 0],
   [by |-> Reviewers, verbs |-> Repairing, edits |-> 2, crashes |-> 1],
   [by |-> Reviewers, verbs |-> {"undo", "redo", "reapplyFile", "keepIds"}, edits |-> 2, crashes |-> 0],
   [by |-> Reviewers, verbs |-> {"undo", "restoreFile", "keepGroup"}, edits |-> 2, crashes |-> 0]}

=============================================================================
