SPECIFICATION FairSpec
CONSTANTS
  WorkerCount = 2
  MaxSeq = 5
  MaxTimeouts = 0
  MaxCrashes = 1
  MaxCheckpoints = 1
  Failing <- AllFaults
  Closers <- BothClosers
PROPERTIES
  EveryCallSettles
  ShutdownExits
