SPECIFICATION Spec
CONSTANTS
  r1 = r1
  r2 = r2
  Reviewers = {r1, r2}
  Nobody = Nobody
  Sessions <- ManySessions
  Kinds = {"modify"}
  AgentsRace = FALSE
SYMMETRY Symmetry
INVARIANTS TypeOK Accounted
PROPERTIES OnlyItsEdit ScopeConflictsAreOthers
CHECK_DEADLOCK FALSE
