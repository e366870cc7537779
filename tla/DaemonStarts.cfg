SPECIFICATION DaemonSpec
CONSTANTS
  f1 = f1
  f2 = f2
  p1 = p1
  p2 = p2
  p3 = p3
  NoProcess = NoProcess
  Fronts = {f1, f2}
  Pids = {p1, p2}
  MaxCrashes = 1
  MaxStrangers = 1
SYMMETRY Symmetry
INVARIANTS ServedAsNamed StartsWhenAlone
CHECK_DEADLOCK FALSE
