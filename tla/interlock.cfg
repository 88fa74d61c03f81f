SPECIFICATION Spec
CONSTANTS
  f1 = f1
  f2 = f2
  b1 = b1
  b2 = b2
  CFs <- OneFan
  Brs <- TwoBurners
  BlockedStop = {}
  Handled = {f1, b1, b2}
  Lossy = {}
  Patient = TRUE
  MaxClicks = 4
  MaxDisturb = 0
  MaxEvents = 2
INVARIANTS
  BurnersGuarded
CHECK_DEADLOCK FALSE
