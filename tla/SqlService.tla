----------------------------- MODULE SqlService -----------------------------
(***************************************************************************)
(* What sqlCall promises, with no worker, port or timer in sight: a request*)
(* is issued, takes effect at most once, and is settled at most once.  A   *)
(* success means the effect happened first.  A rejection promises nothing: *)
(* the effect may have happened, may still happen, or may never happen.    *)
(***************************************************************************)
CONSTANT Request

VARIABLES status,   \* what the caller of each request knows
          effected  \* the requests that were executed successfully

vars == <<status, effected>>

Init == status = [r \in Request |-> "unsent"] /\ effected = {}

\* The ways one request may move in one step; many may move together (the death
\* of a worker rejects all it was given, an init issues one request per worker).
StatusMoves(r) ==
  \/ status'[r] = status[r]
  \/ status[r] = "unsent" /\ status'[r] \in {"waiting", "failed"}
  \/ status[r] = "waiting" /\ status'[r] = "failed"
  \/ status[r] = "waiting" /\ status'[r] = "ok" /\ r \in effected

EffectMoves(r) ==
  r \in effected' \ effected => status[r] # "unsent" /\ status[r] # "ok"

Next ==
  /\ effected \subseteq effected'
  /\ \A r \in Request : StatusMoves(r) /\ EffectMoves(r)

Spec == Init /\ [][Next]_vars
=============================================================================
