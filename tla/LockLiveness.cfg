CONSTANTS
  p1 = p1
  p2 = p2
  p3 = p3
  p4 = p4
  f1 = f1
  f2 = f2
  Procs = {p1, p2}
  Files = {f1, f2, f3}
  Nobody = Nobody
  NoFile = NoFile
  MaxClaim = 2
  MaxCrashes = 2
  Pauses = {}
SPECIFICATION DemandSpec
PROPERTIES EveryCallReturns DeadLockBroken
