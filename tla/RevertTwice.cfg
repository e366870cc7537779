CONSTANTS
  f1 = f1
  f2 = f2
  FrontEnds = {f1}
  MaxEdits = 2
  TailLines = 3
  Sessions <- RevertSolo
SPECIFICATION RevertSpec
SYMMETRY Symmetry
INVARIANT TwiceLandsWhereItStarted
CHECK_DEADLOCK FALSE
