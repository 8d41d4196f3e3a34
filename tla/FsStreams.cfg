SPECIFICATION FairSpec
CONSTANTS
  MaxHandles = 2
  FileChunks = 2
  HighWaterMark = 2
  MaxCalls = 4
  MaxFaults = 1
INVARIANTS
  ReadsServed
  WritesServed
PROPERTIES
  CallsSettle
CHECK_DEADLOCK FALSE
