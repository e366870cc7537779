SPECIFICATION Spec
CONSTANT FileTexts <- SmallTexts
INVARIANTS RedoRestores Conserved EndingKept GuardAgrees
CHECK_DEADLOCK FALSE
