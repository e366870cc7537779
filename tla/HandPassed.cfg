SPECIFICATION Spec
CONSTANTS
  c1 = c1
  c2 = c2
  c3 = c3
  k1 = k1
  k2 = k2
  k3 = k3
  NoCall = NoCall
  Calls = {c1, c2, c3}
  Keys = {k1, k2, k3}
  MaxTime = 3
  MaxNotes = 0
  MaxDrops = 0
SYMMETRY Symmetry
INVARIANT NewerPromptStays
CHECK_DEADLOCK FALSE
