SPECIFICATION FairAlarms
CONSTANTS
  km = km  sensor = sensor  engine = engine  line = line
  NoUnit = NoUnit
  Tags = {km, sensor}
  Low = {sensor}
  Timed = {km}
  SelfResetting = {sensor}
  Units = {engine, line}
  Owner <- OwnerOf
  Parent <- ParentOf
  Rank <- RankOf
  SelfReset = {line}
  Values = {0, 1}
  Levels = {1, 2}
  InitLevel <- LevelOf
  MaxSteps = 4
INVARIANTS AlarmTypeOK AlarmKnown
PROPERTIES WatchKept NoticedInTime AlarmArrives
CHECK_DEADLOCK FALSE
