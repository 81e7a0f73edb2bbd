SPECIFICATION FairSpec
CONSTANTS
  BlockMod = 65536
  BlkSize = 2
  MaxRetry = 2
  Late = FALSE
  Faults = 1
  Clients = {1}
  Ops = {"push", "pull"}
  Lengths = {3}
  Olds = {5}
  SendOk = {TRUE}
  LocalOk = {TRUE}
  Slots = 1
  Pools = {3}
  SendFails = {0}
  DiskOk = {TRUE}
  Writable = TRUE
  Stops = FALSE
INVARIANT PulledIsSource
CHECK_DEADLOCK FALSE
