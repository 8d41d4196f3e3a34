SPECIFICATION Spec
CONSTANTS
  WorkerCount = 2
  MaxSeq = 6
  MaxTimeouts = 0
  MaxCrashes = 0
  MaxCheckpoints = 0
  Failing <- NoFaults
  Closers <- BothClosers
INVARIANTS
  ExitsWithDbClosed
