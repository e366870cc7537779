SPECIFICATION Spec
CONSTANT FileTexts <- SmallTexts
\* Neither holds.
INVARIANTS RedoRestoresAlways RedoPlacesLines
CHECK_DEADLOCK FALSE
