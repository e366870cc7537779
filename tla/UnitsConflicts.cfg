SPECIFICATION UnitsSpec
CONSTANTS
  l1 = l1
  l2 = l2
  l3 = l3
  Absent = Absent
  Texts <- ShortTexts
  Foreign <- ForeignTexts
  Scoped <- ScopedLines
  MaxEdits = 3
  MaxAsks = 2
  MaxWrites = 1
  MaxVerbs = 1
\* Neither holds.
SYMMETRY Symmetry
INVARIANTS ClosureUndoes ConflictNamed
CHECK_DEADLOCK FALSE
