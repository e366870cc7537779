CONSTANTS
  f1 = f1
  f2 = f2
  FrontEnds = {f1, f2}
  MaxEdits = 4
  TailLines = 2
  Sessions <- ManySessions
SPECIFICATION Spec
SYMMETRY Symmetry
INVARIANTS GapsStayVisible
PROPERTIES ImplementsLedger JournalOnlyGrows StableIds AnswersItsId RedoRemembers
CHECK_DEADLOCK FALSE
