SPECIFICATION SplitSpec
CONSTANTS
  r1 = r1  r2 = r2
  e1 = e1  e2 = e2  n1 = n1  s1 = s1  b1 = b1
  NoRoute = NoRoute
  NoUnit = NoUnit
  Routes = {r1, r2}
  Units = {e1, e2, n1}
  Kind <- KindOf
  BlockedStop = {e1}
  InitList <- SharedLines
  Ops = {"Start", "Stop", "CleanStop", "Freeze"}
  MaxOps = 2
  MaxDisturb = 0
INVARIANT NoOrphanedUnit
PROPERTY Reserves
CHECK_DEADLOCK FALSE
