SPECIFICATION Spec
CONSTANTS
  f1 = f1
  f2 = f2
  b1 = b1
  b2 = b2
  CFs <- TwoFans
  Brs <- TwoBurners
  BlockedStop = {f1}
  Handled = {f1}
  Lossy = {}
  Patient = FALSE
  MaxClicks = 2
  MaxDisturb = 0
  MaxEvents = 2
INVARIANTS
  DryerTypeOK
  BlocksFollow
  BurnersGuarded
PROPERTIES
  StopHolds
CHECK_DEADLOCK FALSE
