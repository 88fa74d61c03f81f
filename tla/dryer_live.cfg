SPECIFICATION FairSpec
CONSTANTS
  f1 = f1
  f2 = f2
  b1 = b1
  b2 = b2
  CFs <- TwoFans
  Brs <- OneBurner
  BlockedStop = {}
  Handled = {}
  Lossy = {b1}
  Patient = TRUE
  MaxClicks = 2
  MaxDisturb = 1
  MaxEvents = 2
PROPERTIES
  OrdersEnd
  FireNeedsAir
CHECK_DEADLOCK FALSE
