SPECIFICATION FairSpec
CONSTANTS
  BlockMod = 65536
  BlkSize = 2
  MaxRetry = 2
  Late = TRUE
  Faults = 1
  Clients = {1}
  Ops = {"push", "pull"}
  Lengths = {2, 3}
  Olds = {5}
  SendOk = {TRUE, FALSE}
  LocalOk = {TRUE, FALSE}
  Slots = 1
  Pools = {2, 3}
  SendFails = {0, 3}
  DiskOk = {TRUE, FALSE}
  Writable = TRUE
  Stops = TRUE
INVARIANTS TypeOK PullsInOrder SocketsSound
PROPERTIES PushCopies TransfersEnd
CHECK_DEADLOCK FALSE
