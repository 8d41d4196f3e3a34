------------------------------ MODULE MCBridge ------------------------------
(* Model checking Bridge: the operations of each run, and the symmetry of the *)
(* tabs and links, which no action tells apart (only used for invariants).    *)
EXTENDS Bridge, TLC

HandleOps   == {"use", "sync"}
AsyncOps    == {"mint", "use", "call"}
CallbackOps == {"call"}
LiveOps     == {"plain", "call", "send"}

Symmetry == {f @@ g : f \in Permutations(Tab), g \in Permutations(Link)}
=============================================================================
