SPECIFICATION Spec
CONSTANTS
  WorkerCount = 2
  MaxSeq = 6
  MaxTimeouts = 1
  MaxCrashes = 1
  MaxCheckpoints = 1
  Failing <- AllFaults
  Closers <- ShutdownOnly
INVARIANTS
  TypeOK
  OkMeansExecuted
  WritesInOrder
  Bookkeeping
PROPERTIES
  ImplementsService
