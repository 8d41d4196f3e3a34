SPECIFICATION Spec
CONSTANTS
  MaxHandles = 1
  FileChunks = 1
  HighWaterMark = 1
  MaxCalls = 1
  MaxFaults = 1
INVARIANTS
  NeverExits
CHECK_DEADLOCK FALSE
