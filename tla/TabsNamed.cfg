SPECIFICATION Spec
CONSTANTS
  a1 = a1
  a2 = a2
  s1 = s1
  s2 = s2
  Apps = {a1}
  Syncs = {s1}
  Blank = Blank
  Persons = Persons
  None = None
  AgentTitle = None
  MaxTitle = 2
  MaxNames = 1
  MaxFailures = 1
SYMMETRY Symmetry
INVARIANTS PersonsNameStays Claimed
PROPERTY OldTitleStays
CHECK_DEADLOCK FALSE
