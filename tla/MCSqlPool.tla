----------------------------- MODULE MCSqlPool -----------------------------
(* Model checking SqlPool: the sets of faults and closers of each run.      *)
EXTENDS SqlPool

NoFaults   == {}
CallFaults == {"read", "write"}
AllFaults  == Kind
ShutdownOnly == {"shutdown"}
BothClosers  == {"remove-db", "shutdown"}
=============================================================================
