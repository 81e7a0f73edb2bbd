\* 256, 896 and 1024 words.
SPECIFICATION FairSpec
CONSTANTS
  Requests = {0, 1, 2, 4}
  Batch = 2
  Limit = 7
  Size = 8
  Pace = 3
  HoldUp = 9
  Sound = 16
  Past = 2
INVARIANTS TypeOK NothingLost InOrder
PROPERTY Ends
CHECK_DEADLOCK FALSE
