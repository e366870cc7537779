SPECIFICATION Spec
CONSTANTS
  p1 = p1
  p2 = p2
  p3 = p3
  s1 = s1
  s2 = s2
  Surfaces = {p1, p2}
  Agents = {s1}
  StaleAfter = 1
  Cooldown = 2
  Day = 2
  MaxTime = 4
  MaxCrashes = 1
SYMMETRY Symmetry
INVARIANTS OncePerHand CooldownKept
CHECK_DEADLOCK FALSE
