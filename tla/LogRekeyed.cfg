CONSTANTS
  f1 = f1
  f2 = f2
  FrontEnds = {f1}
  MaxEdits = 4
  TailLines = 2
  Sessions <- Rekeyed
SPECIFICATION Spec
PROPERTIES AnswersInAnyLog
CHECK_DEADLOCK FALSE
