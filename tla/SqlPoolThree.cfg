SPECIFICATION Spec
CONSTANTS
  WorkerCount = 3
  MaxSeq = 9
  MaxTimeouts = 0
  MaxCrashes = 0
  MaxCheckpoints = 1
  Failing <- NoFaults
  Closers <- ShutdownOnly
INVARIANTS
  EndsInOrder
