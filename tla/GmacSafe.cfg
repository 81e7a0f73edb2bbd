SPECIFICATION Spec
CONSTANTS
  N = 3
  Frames = 5
  Window = 5
  TxFails = {5}
  Arrivals = 4
  Damaged = {2}
  RxFails = {4}
  Filled = {0, 2, 3}
  Mail = 2
  Errors = 0
  Stops = 0
INVARIANTS TypeOK TxRing TxCopies RxRing
PROPERTIES RxKeepsBuffers TxIsFifo RxIsFifo
CHECK_DEADLOCK FALSE
