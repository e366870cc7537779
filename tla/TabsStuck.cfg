SPECIFICATION Spec
CONSTANTS
  a1 = a1
  a2 = a2
  s1 = s1
  s2 = s2
  Apps = {a1}
  Syncs = {s1, s2}
  Blank = Blank
  Persons = Persons
  None = None
  AgentTitle = None
  MaxTitle = 2
  MaxNames = 0
  MaxFailures = 0
SYMMETRY Symmetry
\* Neither holds.
INVARIANT ClaimedAlways
PROPERTY OldTitleStaysAlways
CHECK_DEADLOCK FALSE
