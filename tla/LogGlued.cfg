CONSTANTS
  f1 = f1
  f2 = f2
  FrontEnds = {f1}
  MaxEdits = 1
  TailLines = 3
  Sessions <- TornSolo
SPECIFICATION Spec
PROPERTIES SeenStays
CHECK_DEADLOCK FALSE
