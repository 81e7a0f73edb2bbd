SPECIFICATION FairSpec
CONSTANTS
  Cap = 12
  Conns = {"c1", "c2"}
  Requests <- MixedRequests
  FileLen = 3
  Block = 2
INVARIANTS TypeOK UploadsWhole
PROPERTIES Exchanges Closes
CHECK_DEADLOCK FALSE
