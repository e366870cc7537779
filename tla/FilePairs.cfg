SPECIFICATION Spec
CONSTANTS
  r1 = r1
  r2 = r2
  Reviewers = {r1, r2}
  Nobody = Nobody
  Sessions <- RiskySessions
  Kinds = {"modify", "delete"}
  AgentsRace = FALSE
\* Neither holds; and with AgentsRace = TRUE the property OnlyItsEdit does not.
INVARIANTS KeptIsOnDisk AccountedAlways
CHECK_DEADLOCK FALSE
