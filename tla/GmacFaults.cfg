SPECIFICATION Spec
CONSTANTS
  N = 2
  Frames = 3
  Window = 3
  TxFails = {}
  Arrivals = 3
  Damaged = {}
  RxFails = {}
  Filled = {2}
  Mail = 2
  Errors = 1
  Stops = 1
INVARIANTS TxNoStale WireOnce
CHECK_DEADLOCK FALSE
