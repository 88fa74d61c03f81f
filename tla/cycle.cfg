SPECIFICATION FairSpec
CONSTANTS
  r1 = r1  r2 = r2
  e1 = e1  e2 = e2  n1 = n1  s1 = s1  b1 = b1
  NoRoute = NoRoute
  NoUnit = NoUnit
  Routes = {r1}
  Units = {s1, b1}
  Kind <- KindOf
  BlockedStop = {}
  InitList <- CycleLine
  Ops = {"Start", "Stop"}
  MaxOps = 3
  MaxDisturb = 1
PROPERTIES CycleServed StopEnds
INVARIANT CmdsInRange
CHECK_DEADLOCK FALSE
