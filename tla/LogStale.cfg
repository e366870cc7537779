CONSTANTS
  f1 = f1
  f2 = f2
  FrontEnds = {f1, f2}
  MaxEdits = 3
  TailLines = 3
  Sessions <- Stale
SPECIFICATION Spec
SYMMETRY Symmetry
\* None of them holds; the last for phantoms among duplicates.
PROPERTIES DecisionLandsOnItsEdit JournalTellsBefore FreshIds CapturedIsReadable ImplementsLedger
CHECK_DEADLOCK FALSE
