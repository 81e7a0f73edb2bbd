SPECIFICATION FairSpec
CONSTANTS
  N = 2
  Frames = 3
  Window = 2
  TxFails = {}
  Arrivals = 4
  Damaged = {2}
  RxFails = {}
  Filled = {0, 1, 2}
  Mail = 2
  Errors = 0
  Stops = 0
INVARIANT LockHeld
PROPERTIES TxReturns TxDrains RxDrains
CHECK_DEADLOCK FALSE
