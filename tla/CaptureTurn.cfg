SPECIFICATION Spec
CONSTANTS
  Edits = {e1, e2}
  Commands = {b1}
  Contents = {x, y}
  Absent = Absent
  None = None
  MaxVersions = 3
  MaxCrashes = 1
  Deletes = TRUE
SYMMETRY Symmetry
INVARIANTS TypeOK RecordedBlobsExist NothingSilent
PROPERTY NoTwins
CHECK_DEADLOCK FALSE
