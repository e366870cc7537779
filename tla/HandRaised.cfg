SPECIFICATION Spec
CONSTANTS
  c1 = c1
  c2 = c2
  c3 = c3
  k1 = k1
  k2 = k2
  k3 = k3
  NoCall = NoCall
  Calls = {c1, c2}
  Keys = {k1, k2}
  MaxTime = 2
  MaxNotes = 1
  MaxDrops = 1
SYMMETRY Symmetry
INVARIANTS LedgerBalanced PromptShown AnsweredIsLowered
PROPERTY SamePromptSameTime
CHECK_DEADLOCK FALSE
