SPECIFICATION Spec
CONSTANTS
  p1 = p1
  p2 = p2
  p3 = p3
  s1 = s1
  s2 = s2
  Surfaces = {p1, p2}
  Agents = {s1, s2}
  StaleAfter = 1
  Cooldown = 2
  Day = 2
  MaxTime = 4
  MaxCrashes = 0
SYMMETRY Symmetry
INVARIANT HandHeard
CHECK_DEADLOCK FALSE
