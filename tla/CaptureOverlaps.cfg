SPECIFICATION Spec
CONSTANTS
  Edits = {e1}
  Commands = {b1, b2}
  Contents = {x, y}
  Absent = Absent
  None = None
  MaxVersions = 3
  MaxCrashes = 0
  Deletes = FALSE
SYMMETRY Symmetry
INVARIANTS RecordedBlobsExist NothingSilent
PROPERTY ChainUnbroken
CHECK_DEADLOCK FALSE
