SPECIFICATION FairSpec
CONSTANTS
  Cap = 12
  Conns = {"c1"}
  Requests <- LongHead
  FileLen = 3
  Block = 2
INVARIANTS AskedFirst
CHECK_DEADLOCK FALSE
