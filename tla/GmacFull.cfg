SPECIFICATION Spec
CONSTANTS
  N = 2
  Frames = 3
  Window = 3
  TxFails = {}
  Arrivals = 0
  Damaged = {}
  RxFails = {}
  Filled = {2}
  Mail = 2
  Errors = 0
  Stops = 0
INVARIANT LockHeld
CHECK_DEADLOCK FALSE
