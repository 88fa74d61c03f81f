SPECIFICATION FairSpec
CONSTANTS
  a = a
  b = b
  Tags = {a}
  Values = {0, 1}
  Ranges <- OneRange
  Timed = {a}
  Default = 0
  Patient = TRUE
  MaxSets = 2
  MaxDisturb = 1
INVARIANTS
  OutputTypeOK
  PollingGoesOn
  TasksBounded
  BeliefFollows
PROPERTIES
  DemandServed
  BeliefReal
CHECK_DEADLOCK FALSE
