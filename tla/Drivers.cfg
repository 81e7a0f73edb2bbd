SPECIFICATION Spec
CONSTANTS
  Users = {shell}
  Devices = {"codec", "converter"}
  Chunks = {1, 3}
  Span = 10
  Inputs = {0, 4}
  Calls = 3
  Size = 6
  Reach = 4
  Page = 2
  Bytes = {1, 2}
  Counts = {0, 1, 2, 3}
  Jobs = 2
  Total = 3
INVARIANTS TypeOK Hears
PROPERTIES Done Reported
CHECK_DEADLOCK FALSE
