SPECIFICATION PatientSpec
CONSTANTS
  r1 = r1  r2 = r2
  e1 = e1  e2 = e2  n1 = n1  s1 = s1  b1 = b1
  NoRoute = NoRoute
  NoUnit = NoUnit
  Routes = {r1}
  Units = {e1, n1, s1}
  Kind <- KindOf
  BlockedStop = {e1}
  InitList <- SilosLine
  Ops = {"Start", "Stop", "CleanStop", "Freeze"}
  MaxOps = 2
  MaxDisturb = 1
INVARIANTS StartedRuns CoveredRuns
PROPERTIES StartInOrder StopInOrder
CHECK_DEADLOCK FALSE
