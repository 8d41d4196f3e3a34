--------------------------- MODULE SqlPoolProofs ---------------------------
(***************************************************************************)
(* Theorems about SqlPool, for every number of workers and every bound:    *)
(* type correctness first, then PoolInv, which is inductive relative to    *)
(* TypeOK, and from it the safety invariants, the action property and the  *)
(* refinement of SqlService.  Actions that send, settle or do neither are  *)
(* treated by one lemma each: SendX, SettleX, QuietX.  Then the life of    *)
(* the pool: the order of writes, the books, and how it starts and ends.   *)
(***************************************************************************)
EXTENDS SqlPool, FiniteSetTheorems, TLAPS

USE DEF Primary, Worker, Rest, Seqs, vars, mainVars, callVars, workerVars, env

\* The assumption on the constants, one fact each.
LEMMA Bounds ==
  /\ WorkerCount \in Nat /\ WorkerCount > 1
  /\ MaxSeq \in Nat /\ MaxTimeouts \in Nat /\ MaxCrashes \in Nat /\ MaxCheckpoints \in Nat
BY PoolAssumption DEF PoolAssumption

\* The part of TypeOK that send() touches.
CallType ==
  /\ seq \in 0 .. MaxSeq
  /\ pending \subseteq Seqs
  /\ entrySeqs \in [Worker -> SUBSET Seqs]
  /\ kind \in [Seqs -> Kind]
  /\ target \in [Seqs -> Worker]
  /\ outcome \in [Seqs -> {"unsent", "waiting"} \cup Settled]
  /\ inbox \in [Worker -> SUBSET Seqs]
  /\ outbox \in [Worker -> SUBSET Seqs]
  /\ reply \in [Seqs -> {"none", "ok", "error"}]
  /\ db \in [Worker -> {"fresh", "open", "closed"}]

\* send() keeps the types: the numbers it hands out and the workers it names exist.
LEMMA SendType ==
  ASSUME TypeOK, NEW lo \in Worker, NEW hi \in Worker, lo <= hi, NEW k \in Kind, Send(lo, hi, k)
  PROVE  CallType'
<1> DEFINE new == seq .. (seq + hi - lo)
<1>1. /\ seq \in 0 .. MaxSeq /\ seq + hi - lo < MaxSeq
      /\ lo \in 0 .. (WorkerCount - 1) /\ hi \in 0 .. (WorkerCount - 1)
  BY Bounds DEF Send, TypeOK
<1>2. new \subseteq Seqs /\ \A s \in new : s - seq + lo \in Worker
  BY <1>1, Bounds
<1>3. seq' \in 0 .. MaxSeq
  BY <1>1, Bounds DEF Send
<1>4. pending' \subseteq Seqs
  BY <1>2 DEF Send, TypeOK
<1>5. kind' \in [Seqs -> Kind]
  BY DEF Send, TypeOK
<1>6. target' \in [Seqs -> Worker]
  BY <1>2 DEF Send, TypeOK
<1>7. outcome' \in [Seqs -> {"unsent", "waiting"} \cup Settled]
  BY DEF Send, TypeOK
<1>8. entrySeqs' \in [Worker -> SUBSET Seqs]
  BY <1>2 DEF Send, TypeOK
<1>9. inbox' \in [Worker -> SUBSET Seqs]
  BY <1>2 DEF Send, TypeOK
<1>10. QED
  BY <1>3, <1>4, <1>5, <1>6, <1>7, <1>8, <1>9 DEF CallType, Send, TypeOK

\* Settling promises keeps the types.
LEMMA SettleType ==
  ASSUME TypeOK, NEW S \in SUBSET Seqs, NEW how \in Settled, Settle(S, how)
  PROVE  /\ seq' \in 0 .. MaxSeq
         /\ pending' \subseteq Seqs
         /\ load' \in [Worker -> Int]
         /\ kind' \in [Seqs -> Kind]
         /\ target' \in [Seqs -> Worker]
         /\ outcome' \in [Seqs -> {"unsent", "waiting"} \cup Settled]
<1>1. \A w \in Worker : Cardinality({s \in S : kind[s] \in Calls /\ target[s] = w}) \in Nat
  <2>1. IsFiniteSet(Seqs)
    BY FS_Interval, Bounds
  <2>2. QED  BY <2>1, FS_Subset, FS_CardinalityType
<1>2. load' \in [Worker -> Int]
  BY <1>1 DEF Settle, Returned, TypeOK
<1>3. QED
  BY <1>2 DEF Settle, TypeOK
\* Every action of the pool keeps TypeOK.
LEMMA TypeStep ==
  ASSUME TypeOK, Next
  PROVE  TypeOK'
<1> USE Bounds
<1> Primary \in Worker /\ 1 \in Worker /\ WorkerCount - 1 \in Worker /\ 1 <= WorkerCount - 1
  OBVIOUS
<1>1. CASE StartInit
  <2>1. CallType'
    BY <1>1, SendType DEF StartInit, Kind
  <2>2. QED  BY <1>1, <2>1 DEF StartInit, TypeOK, CallType
<1>2. CASE InitRest
  <2>1. CallType'
    BY <1>2, SendType DEF InitRest, PoolEmptied, Kind
  <2>2. QED  BY <1>2, <2>1 DEF InitRest, PoolEmptied, TypeOK, CallType
<1>3. CASE InitDone
  BY <1>3 DEF InitDone, TypeOK
<1>4. CASE InitFail
  BY <1>4 DEF InitFail, TypeOK
<1>5. CASE ExitAfterInitFailed
  BY <1>5 DEF ExitAfterInitFailed, TypeOK
<1>6. CASE ExitAfterShutdown
  BY <1>6 DEF ExitAfterShutdown, TypeOK
<1>7. ASSUME NEW a \in Calls, NEW w \in Worker, SqlCall(a, w)
      PROVE  TypeOK'
  <2>1. a \in Kind
    BY DEF Calls, Kind
  <2>2. CallType'
    <3>1. Send(w, w, a) /\ w <= w
      BY <1>7 DEF SqlCall
    <3>2. QED  BY <2>1, <3>1, SendType
  <2>3. load' \in [Worker -> Int]
    BY <1>7 DEF SqlCall, TypeOK
  <2>4. QED  BY <1>7, <2>2, <2>3 DEF SqlCall, TypeOK, CallType
<1>8. ASSUME NEW a \in Calls, NEW w \in Worker, SqlCallUnposted(a, w)
      PROVE  TypeOK'
  <2>1. a \in Kind
    BY DEF Calls, Kind
  <2>2. seq \in Seqs /\ seq + 1 \in 0 .. MaxSeq
    BY <1>8 DEF SqlCallUnposted, CanCall, TypeOK
  <2>3. QED  BY <1>8, <2>1, <2>2 DEF SqlCallUnposted, TypeOK, Settled
<1>9. CASE WalCheckpoint
  <2>1. checkpointDue' \in Nat
    BY <1>9 DEF WalCheckpoint, TypeOK
  <2>2. CASE pool # {} /\ seq + 2 * WorkerCount <= MaxSeq
    <3>1. CallType'
      BY <1>9, <2>2, SendType DEF WalCheckpoint, Kind
    <3>2. QED  BY <1>9, <2>1, <3>1 DEF WalCheckpoint, TypeOK, CallType
  <2>3. CASE ~(pool # {} /\ seq + 2 * WorkerCount <= MaxSeq)
    BY <1>9, <2>1, <2>3 DEF WalCheckpoint, TypeOK
  <2>4. QED  BY <2>2, <2>3
<1>10. ASSUME NEW w \in Worker, NEW s \in Seqs, Deliver(w, s)
       PROVE  TypeOK'
  BY <1>10, SettleType DEF Deliver, TakeAnswer, TypeOK, Settled
<1>11. ASSUME NEW w \in Worker, ErrorEvent(w)
       PROVE  TypeOK'
  BY <1>11, SettleType DEF ErrorEvent, FailAll, Abandon, TypeOK, Settled
<1>12. ASSUME NEW w \in Worker, ExitEvent(w)
       PROVE  TypeOK'
  BY <1>12, SettleType DEF ExitEvent, FailAll, Abandon, TypeOK, Settled
<1>13. ASSUME NEW s \in Seqs, Timeout(s)
       PROVE  TypeOK'
  <2>1. timeouts' \in Nat
    BY <1>13 DEF Timeout, MayExpire, TypeOK
  <2>2. QED  BY <1>13, <2>1, SettleType DEF Timeout, MayExpire, TypeOK, Settled
<1>14. ASSUME NEW c \in Closers, CloseSQL(c)
       PROVE  TypeOK'
  <2>1. CASE pool = {}
    BY <1>14, <2>1 DEF CloseSQL, TypeOK
  <2>2. CASE pool # {}
    <3>1. CallType'
      BY <1>14, <2>2, SendType DEF CloseSQL, Kind
    <3>2. QED  BY <1>14, <2>2, <3>1 DEF CloseSQL, TypeOK, CallType
  <2>3. QED  BY <2>1, <2>2
<1>15. ASSUME NEW c \in Closers, ClosePrimary(c)
       PROVE  TypeOK'
  <2>1. CallType'
    BY <1>15, SendType DEF ClosePrimary, Kind
  <2>2. QED  BY <1>15, <2>1 DEF ClosePrimary, TypeOK, CallType
<1>16. ASSUME NEW c \in Closers, TerminateWorkers(c)
       PROVE  TypeOK'
  BY <1>16 DEF TerminateWorkers, TypeOK
<1>17. ASSUME NEW c \in Closers, CloseFinish(c)
       PROVE  TypeOK'
  BY <1>17, SettleType DEF CloseFinish, Abandon, TypeOK, Settled
<1>18. ASSUME NEW w \in Worker, NEW s \in Seqs, WorkerStep(w, s)
       PROVE  TypeOK'
  <2>1. CASE WorkerOk(w, s)
    <3>1. checkpointDue' \in Nat
      BY <2>1 DEF WorkerOk, AskCheckpoint, TypeOK
    <3>2. db' \in [Worker -> {"fresh", "open", "closed"}]
      BY <2>1 DEF WorkerOk, DbAfter, TypeOK
    <3>3. thread' \in [Worker -> {"none", "running", "crashed", "dead", "gone"}]
      BY <2>1 DEF WorkerOk, TypeOK
    <3>4. reply' \in [Seqs -> {"none", "ok", "error"}]
      BY <2>1 DEF WorkerOk, TypeOK
    <3>5. QED  BY SMTT(30), <1>18, <3>1, <3>2, <3>3, <3>4 DEF WorkerStep, TypeOK
  <2>2. CASE WorkerError(w, s)
    BY <1>18, <2>2 DEF WorkerStep, WorkerError, TypeOK
  <2>3. QED  BY <1>18, <2>1, <2>2 DEF WorkerStep
<1>19. ASSUME NEW w \in Worker, Stop(w)
       PROVE  TypeOK'
  BY <1>19 DEF Stop, TypeOK
<1>20. ASSUME NEW w \in Worker, Crash(w)
       PROVE  TypeOK'
  BY <1>20 DEF Crash, TypeOK
<1>21. CASE Exited
  BY <1>21 DEF Exited, TypeOK
<1>22. QED
  BY <1>1, <1>2, <1>3, <1>4, <1>5, <1>6, <1>7, <1>8, <1>9, <1>10, <1>11, <1>12, <1>13,
     <1>14, <1>15, <1>16, <1>17, <1>18, <1>19, <1>20, <1>21
     DEF Next, Microtask, Macrotask, WorkerEvent, WorkerThread, WorkerProgress

\* The bookkeeping of sql.node.ts stays well formed: at most MaxSeq numbers are
\* handed out, `pool` is all of the workers or none, entry.seqs holds numbers only.
THEOREM TypeCorrect == Spec => []TypeOK
<1>1. Init => TypeOK
  <2>1. Primary \in Worker /\ 0 \in 0 .. MaxSeq
    BY Bounds
  <2> SUFFICES ASSUME Init PROVE TypeOK
    OBVIOUS
  <2>3. kind \in [Seqs -> Kind] /\ target \in [Seqs -> Worker]
    BY <2>1 DEF Init, Kind
  <2>4. pool \in {{}, Worker} /\ pending \subseteq Seqs /\ seq \in 0 .. MaxSeq
    BY <2>1 DEF Init
  <2>5. timeouts \in Nat /\ crashes \in Nat /\ checkpointDue \in Nat
    BY Bounds DEF Init
  <2>6. closePc \in [Closers -> {"idle", "rest", "primary", "terminating", "done", "skipped"}]
    BY DEF Init
  <2>7. /\ outcome \in [Seqs -> {"unsent", "waiting"} \cup Settled]
        /\ reply \in [Seqs -> {"none", "ok", "error"}]
    BY DEF Init
  <2>8. load \in [Worker -> Int]
    BY DEF Init
  <2>9. /\ entrySeqs \in [Worker -> SUBSET Seqs]
        /\ inbox \in [Worker -> SUBSET Seqs]
        /\ outbox \in [Worker -> SUBSET Seqs]
    BY DEF Init
  <2>10. /\ db \in [Worker -> {"fresh", "open", "closed"}]
         /\ thread \in [Worker -> {"none", "running", "crashed", "dead", "gone"}]
    BY DEF Init
  <2>11. QED
    BY <2>3, <2>4, <2>5, <2>6, <2>7, <2>8, <2>9, <2>10 DEF Init, TypeOK
<1>2. TypeOK /\ [Next]_vars => TypeOK'
  BY TypeStep DEF TypeOK
<1>3. QED  BY <1>1, <1>2, PTL DEF Spec

-----------------------------------------------------------------------------

\* send() keeps the invariant: the new numbers were unissued.
LEMMA SendInv ==
  ASSUME TypeOK, PoolInv, NEW lo \in Worker, NEW hi \in Worker, lo <= hi, NEW k \in Kind,
         Send(lo, hi, k)
  PROVE  PoolInv'
<1> DEFINE new == seq .. (seq + hi - lo)
<1>1. /\ seq \in 0 .. MaxSeq /\ seq + hi - lo < MaxSeq /\ seq' = seq + hi - lo + 1
      /\ lo \in 0 .. (WorkerCount - 1) /\ hi \in 0 .. (WorkerCount - 1)
  BY Bounds DEF Send, TypeOK
<1>2. new \subseteq Seqs /\ \A s \in new : s - seq + lo \in Worker /\ s >= seq
  BY <1>1, Bounds
<1>3. \A s \in new : outcome[s] = "unsent" /\ reply[s] = "none" /\ s \notin pending
  BY <1>2 DEF PoolInv, Unissued, PendingIsWaiting
<1>4. \A s \in Seqs : s >= seq' => s >= seq /\ s \notin new
  BY <1>1, Bounds
<1>5. Unissued'
  BY <1>4 DEF Send, PoolInv, Unissued
<1>6. PendingIsWaiting'
  BY <1>2 DEF Send, PoolInv, PendingIsWaiting, TypeOK
<1>7. EveryCallIsTracked'
  BY <1>2, <1>3 DEF Send, PoolInv, EveryCallIsTracked, TypeOK
<1>8. InboxNotRun'
  <2> SUFFICES ASSUME NEW w \in Worker, NEW s \in inbox'[w]
               PROVE  target'[s] = w /\ reply'[s] = "none" /\ outcome'[s] # "unsent"
    BY DEF InboxNotRun
  <2>1. CASE s \in new
    <3>1. s \notin inbox[w]
      BY <1>3, <2>1 DEF PoolInv, InboxNotRun
    <3>2. QED  BY <1>2, <1>3, <2>1, <3>1 DEF Send, TypeOK
  <2>2. CASE s \notin new
    BY <2>2 DEF Send, PoolInv, InboxNotRun, TypeOK
  <2>3. QED  BY <2>1, <2>2
<1>9. OkMeansExecuted'
  BY DEF Send, PoolInv, OkMeansExecuted
<1>10. QED
  BY <1>5, <1>6, <1>7, <1>8, <1>9 DEF PoolInv

\* Settling waiting promises keeps it, if a success is one the worker reported.
LEMMA SettleInv ==
  ASSUME TypeOK, PoolInv, NEW S \in SUBSET pending, NEW how \in Settled, Settle(S, how),
         how = "ok" => \A s \in S : reply[s] = "ok",
         \A s \in pending \ S : s \in entrySeqs'[target[s]],
         \A w \in Worker : inbox'[w] \subseteq inbox[w],
         reply' = reply
  PROVE  PoolInv'
<1>1. Unissued'
  BY DEF Settle, PoolInv, Unissued, PendingIsWaiting, TypeOK
<1>2. PendingIsWaiting'
  BY DEF Settle, PoolInv, PendingIsWaiting, TypeOK, Settled
<1>3. EveryCallIsTracked'
  BY DEF Settle, EveryCallIsTracked
<1>4. InboxNotRun'
  BY DEF Settle, PoolInv, InboxNotRun, TypeOK, Settled
<1>5. OkMeansExecuted'
  BY DEF Settle, PoolInv, OkMeansExecuted, TypeOK
<1>6. QED
  BY <1>1, <1>2, <1>3, <1>4, <1>5 DEF PoolInv

\* A step that leaves the bookkeeping, the ports and the answers alone.
LEMMA QuietInv ==
  ASSUME PoolInv, UNCHANGED <<callVars, inbox, reply>>
  PROVE  PoolInv'
BY DEF PoolInv, Unissued, PendingIsWaiting, EveryCallIsTracked, InboxNotRun, OkMeansExecuted

\* Every action of the pool keeps PoolInv.
LEMMA PoolStep ==
  ASSUME TypeOK, PoolInv, Next
  PROVE  PoolInv'
<1> USE Bounds
<1> Primary \in Worker /\ 1 \in Worker /\ WorkerCount - 1 \in Worker /\ 1 <= WorkerCount - 1
  OBVIOUS
<1>1. CASE StartInit
  BY <1>1, SendInv DEF StartInit, Kind
<1>2. CASE InitRest
  BY <1>2, SendInv DEF InitRest, PoolEmptied, Kind
<1>3. CASE InitDone \/ InitFail \/ ExitAfterInitFailed \/ ExitAfterShutdown \/ Exited
  BY <1>3, QuietInv DEF InitDone, InitFail, ExitAfterInitFailed, ExitAfterShutdown, Exited
<1>4. ASSUME NEW a \in Calls, NEW w \in Worker, SqlCall(a, w)
      PROVE  PoolInv'
  <2>1. a \in Kind /\ w <= w
    BY DEF Calls, Kind
  <2>2. QED  BY <1>4, <2>1, SendInv DEF SqlCall
<1>5. ASSUME NEW a \in Calls, NEW w \in Worker, SqlCallUnposted(a, w)
      PROVE  PoolInv'
  <2>1. seq \in Seqs /\ outcome[seq] = "unsent" /\ reply[seq] = "none"
    BY <1>5 DEF SqlCallUnposted, CanCall, TypeOK, PoolInv, Unissued
  <2>2. seq \notin pending /\ \A v \in Worker : seq \notin inbox[v]
    BY <2>1 DEF PoolInv, PendingIsWaiting, InboxNotRun
  <2>3. Unissued'
    BY <1>5, <2>1 DEF SqlCallUnposted, PoolInv, Unissued, TypeOK
  <2>4. PendingIsWaiting'
    BY <1>5, <2>1, <2>2 DEF SqlCallUnposted, PoolInv, PendingIsWaiting, TypeOK
  <2>5. EveryCallIsTracked'
    BY <1>5, <2>1, <2>2 DEF SqlCallUnposted, PoolInv, EveryCallIsTracked, TypeOK
  <2>6. InboxNotRun'
    BY <1>5, <2>1, <2>2 DEF SqlCallUnposted, PoolInv, InboxNotRun, TypeOK
  <2>7. OkMeansExecuted'
    BY <1>5 DEF SqlCallUnposted, PoolInv, OkMeansExecuted, TypeOK
  <2>8. QED  BY <2>3, <2>4, <2>5, <2>6, <2>7 DEF PoolInv
<1>6. CASE WalCheckpoint
  <2>1. CASE pool # {} /\ seq + 2 * WorkerCount <= MaxSeq
    BY <1>6, <2>1, SendInv DEF WalCheckpoint, Kind
  <2>2. CASE ~(pool # {} /\ seq + 2 * WorkerCount <= MaxSeq)
    BY <1>6, <2>2, QuietInv DEF WalCheckpoint
  <2>3. QED  BY <2>1, <2>2
<1>7. ASSUME NEW w \in Worker, NEW s \in Seqs, Deliver(w, s)
      PROVE  PoolInv'
  <2> DEFINE how == IF reply[s] = "ok" THEN "ok" ELSE "error"
  <2>1. how \in Settled /\ (how = "ok" => \A t \in {s} \cap pending : reply[t] = "ok")
    BY DEF Settled
  <2>2. \A t \in pending \ ({s} \cap pending) : t \in entrySeqs'[target[t]]
    BY <1>7 DEF Deliver, TakeAnswer, PoolInv, EveryCallIsTracked, TypeOK
  <2>3. Settle({s} \cap pending, how) /\ inbox' = inbox /\ reply' = reply
    BY <1>7 DEF Deliver, TakeAnswer
  <2>4. QED  BY <2>1, <2>2, <2>3, SettleInv
<1>8. ASSUME NEW w \in Worker, ErrorEvent(w) \/ ExitEvent(w)
      PROVE  PoolInv'
  <2>1. FailAll(w) /\ reply' = reply /\ \A v \in Worker : inbox'[v] \subseteq inbox[v]
    BY <1>8 DEF ErrorEvent, ExitEvent, TypeOK
  <2>2. \A t \in pending \ (entrySeqs[w] \cap pending) : t \in entrySeqs'[target[t]]
    BY <2>1 DEF FailAll, Abandon, PoolInv, EveryCallIsTracked, TypeOK
  <2>3. QED  BY <2>1, <2>2, SettleInv DEF FailAll, Abandon, Settled
<1>9. ASSUME NEW s \in Seqs, Timeout(s)
      PROVE  PoolInv'
  <2>1. \A t \in pending \ {s} : t \in entrySeqs'[target[t]]
    BY <1>9 DEF Timeout, MayExpire, PoolInv, EveryCallIsTracked, TypeOK
  <2>2. {s} \subseteq pending /\ Settle({s}, "timeout") /\ inbox' = inbox /\ reply' = reply
    BY <1>9 DEF Timeout, MayExpire
  <2>3. QED  BY <2>1, <2>2, SettleInv DEF Settled
<1>10. ASSUME NEW c \in Closers, CloseSQL(c)
       PROVE  PoolInv'
  <2>1. CASE pool = {}
    BY <1>10, <2>1, QuietInv DEF CloseSQL
  <2>2. CASE pool # {}
    BY <1>10, <2>2, SendInv DEF CloseSQL, Kind
  <2>3. QED  BY <2>1, <2>2
<1>11. ASSUME NEW c \in Closers, ClosePrimary(c)
       PROVE  PoolInv'
  BY <1>11, SendInv DEF ClosePrimary, Kind
<1>12. ASSUME NEW c \in Closers, TerminateWorkers(c)
       PROVE  PoolInv'
  BY <1>12, QuietInv DEF TerminateWorkers
<1>13. ASSUME NEW c \in Closers, CloseFinish(c)
       PROVE  PoolInv'
  BY <1>13, SettleInv DEF CloseFinish, Abandon, Settled
<1>14. ASSUME NEW w \in Worker, NEW s \in Seqs, WorkerStep(w, s)
       PROVE  PoolInv'
  <2>1. /\ s \in inbox[w] /\ target[s] = w /\ reply[s] = "none"
        /\ outcome[s] \notin {"unsent", "ok"} /\ s < seq
    BY <1>14 DEF WorkerStep, IsOldest, PoolInv, InboxNotRun, OkMeansExecuted, Unissued, TypeOK
  <2>2. PICK r \in {"ok", "error"} : reply' = [reply EXCEPT ![s] = r]
    BY <1>14 DEF WorkerStep, WorkerOk, WorkerError
  <2>3. UNCHANGED callVars /\ inbox' = [inbox EXCEPT ![w] = @ \ {s}]
    BY <1>14 DEF WorkerStep
  <2>4. Unissued'
    BY <2>1, <2>2, <2>3 DEF PoolInv, Unissued, TypeOK
  <2>5. PendingIsWaiting' /\ EveryCallIsTracked'
    BY <2>3 DEF PoolInv, PendingIsWaiting, EveryCallIsTracked
  <2>6. InboxNotRun'
    BY <2>1, <2>2, <2>3 DEF PoolInv, InboxNotRun, TypeOK
  <2>7. OkMeansExecuted'
    BY <2>1, <2>2, <2>3 DEF PoolInv, OkMeansExecuted, TypeOK
  <2>8. QED  BY <2>4, <2>5, <2>6, <2>7 DEF PoolInv
<1>15. ASSUME NEW w \in Worker, Stop(w) \/ Crash(w)
       PROVE  PoolInv'
  BY <1>15, QuietInv DEF Stop, Crash
<1>16. QED
  BY <1>1, <1>2, <1>3, <1>4, <1>5, <1>6, <1>7, <1>8, <1>9, <1>10, <1>11, <1>12, <1>13,
     <1>14, <1>15
     DEF Next, Microtask, Macrotask, WorkerEvent, WorkerThread, WorkerProgress

\* PoolInv is inductive relative to TypeOK.
LEMMA PoolInvariant == Spec => [](TypeOK /\ PoolInv)
<1>1. Init => PoolInv
  BY Bounds DEF Init, PoolInv, Unissued, PendingIsWaiting, EveryCallIsTracked, InboxNotRun,
     OkMeansExecuted
<1>2. TypeOK /\ PoolInv /\ [Next]_vars => PoolInv'
  BY PoolStep, QuietInv
<1>3. QED  BY <1>1, <1>2, TypeCorrect, PTL DEF Spec

\* No pending request is ever missing from the entry.seqs of its worker, so failAll
\* (sql.node.ts:109-114) rejects all that a dead worker was given.
THEOREM TrackedCalls == Spec => []EveryCallIsTracked
<1>1. PoolInv => EveryCallIsTracked
  BY DEF PoolInv
<1>2. QED  BY <1>1, PoolInvariant, PTL

\* sqlCall resolves only if the worker ran that very request successfully.
THEOREM OkExecuted == Spec => []OkMeansExecuted
<1>1. PoolInv => OkMeansExecuted
  BY DEF PoolInv
<1>2. QED  BY <1>1, PoolInvariant, PTL

-----------------------------------------------------------------------------

\* What one step may do to the promise, and to the answer, of one request.
PromiseMoves(s) ==
  \/ outcome'[s] = outcome[s]
  \/ outcome[s] = "unsent" /\ outcome'[s] \in {"waiting", "error"}
  \/ outcome[s] = "waiting" /\ outcome'[s] \in Settled /\ (outcome'[s] = "ok" => reply[s] = "ok")

AnswerMoves(s) ==
  \/ reply'[s] = reply[s]
  \/ reply[s] = "none" /\ outcome[s] \notin {"unsent", "ok"}

StepMoves == \A s \in Seqs : PromiseMoves(s) /\ AnswerMoves(s)

\* A send() moves unissued requests to waiting, as the service allows.
LEMMA SendMoves ==
  ASSUME TypeOK, PoolInv, NEW lo \in Worker, NEW hi \in Worker, lo <= hi, NEW k \in Kind,
         Send(lo, hi, k)
  PROVE  StepMoves
<1> SUFFICES ASSUME NEW s \in Seqs PROVE PromiseMoves(s) /\ AnswerMoves(s)
  BY DEF StepMoves
<1>1. reply'[s] = reply[s]
  BY DEF Send
<1>2. CASE s \in seq .. (seq + hi - lo)
  <2>1. outcome[s] = "unsent"
    BY <1>2 DEF PoolInv, Unissued, TypeOK
  <2>2. outcome'[s] = "waiting"
    BY <1>2 DEF Send
  <2>3. QED  BY <1>1, <2>1, <2>2 DEF PromiseMoves, AnswerMoves
<1>3. CASE s \notin seq .. (seq + hi - lo)
  BY <1>1, <1>3 DEF Send, PromiseMoves, AnswerMoves
<1>4. QED  BY <1>2, <1>3

\* Settling moves waiting requests only, to ok only after their effect.
LEMMA SettleMoves ==
  ASSUME TypeOK, PoolInv, NEW S \in SUBSET pending, NEW how \in Settled, Settle(S, how),
         how = "ok" => \A s \in S : reply[s] = "ok",
         reply' = reply
  PROVE  StepMoves
BY DEF Settle, PoolInv, PendingIsWaiting, TypeOK, StepMoves, PromiseMoves, AnswerMoves

\* A step that leaves promises and answers alone moves nothing.
LEMMA QuietMoves ==
  ASSUME UNCHANGED <<outcome, reply>>
  PROVE  StepMoves
BY DEF StepMoves, PromiseMoves, AnswerMoves

\* Every step moves every request as the service allows.
LEMMA NextMoves ==
  ASSUME TypeOK, PoolInv, Next
  PROVE  StepMoves
<1> USE Bounds
<1> Primary \in Worker /\ 1 \in Worker /\ WorkerCount - 1 \in Worker /\ 1 <= WorkerCount - 1
  OBVIOUS
<1>1. CASE StartInit
  BY <1>1, SendMoves DEF StartInit, Kind
<1>2. CASE InitRest
  BY <1>2, SendMoves DEF InitRest, PoolEmptied, Kind
<1>3. CASE InitDone \/ InitFail \/ ExitAfterInitFailed \/ ExitAfterShutdown \/ Exited
  BY <1>3, QuietMoves DEF InitDone, InitFail, ExitAfterInitFailed, ExitAfterShutdown, Exited
<1>4. ASSUME NEW a \in Calls, NEW w \in Worker, SqlCall(a, w)
      PROVE  StepMoves
  <2>1. a \in Kind /\ w <= w
    BY DEF Calls, Kind
  <2>2. QED  BY <1>4, <2>1, SendMoves DEF SqlCall
<1>5. ASSUME NEW a \in Calls, NEW w \in Worker, SqlCallUnposted(a, w)
      PROVE  StepMoves
  <2>1. seq \in Seqs /\ outcome[seq] = "unsent"
    BY <1>5 DEF SqlCallUnposted, CanCall, TypeOK, PoolInv, Unissued
  <2>2. QED
    BY <1>5, <2>1 DEF SqlCallUnposted, TypeOK, StepMoves, PromiseMoves, AnswerMoves
<1>6. CASE WalCheckpoint
  <2>1. CASE pool # {} /\ seq + 2 * WorkerCount <= MaxSeq
    BY <1>6, <2>1, SendMoves DEF WalCheckpoint, Kind
  <2>2. CASE ~(pool # {} /\ seq + 2 * WorkerCount <= MaxSeq)
    BY <1>6, <2>2, QuietMoves DEF WalCheckpoint
  <2>3. QED  BY <2>1, <2>2
<1>7. ASSUME NEW w \in Worker, NEW s \in Seqs, Deliver(w, s)
      PROVE  StepMoves
  <2> DEFINE how == IF reply[s] = "ok" THEN "ok" ELSE "error"
  <2>1. how \in Settled /\ (how = "ok" => \A t \in {s} \cap pending : reply[t] = "ok")
    BY DEF Settled
  <2>2. Settle({s} \cap pending, how) /\ reply' = reply
    BY <1>7 DEF Deliver, TakeAnswer
  <2>3. QED  BY <2>1, <2>2, SettleMoves
<1>8. ASSUME NEW w \in Worker, ErrorEvent(w) \/ ExitEvent(w)
      PROVE  StepMoves
  BY <1>8, SettleMoves DEF ErrorEvent, ExitEvent, FailAll, Abandon, Settled
<1>9. ASSUME NEW s \in Seqs, Timeout(s)
      PROVE  StepMoves
  <2>1. {s} \subseteq pending /\ Settle({s}, "timeout") /\ reply' = reply
    BY <1>9 DEF Timeout, MayExpire
  <2>2. QED  BY <2>1, SettleMoves DEF Settled
<1>10. ASSUME NEW c \in Closers, CloseSQL(c)
       PROVE  StepMoves
  <2>1. CASE pool = {}
    BY <1>10, <2>1, QuietMoves DEF CloseSQL
  <2>2. CASE pool # {}
    BY <1>10, <2>2, SendMoves DEF CloseSQL, Kind
  <2>3. QED  BY <2>1, <2>2
<1>11. ASSUME NEW c \in Closers, ClosePrimary(c)
       PROVE  StepMoves
  BY <1>11, SendMoves DEF ClosePrimary, Kind
<1>12. ASSUME NEW c \in Closers, TerminateWorkers(c)
       PROVE  StepMoves
  BY <1>12, QuietMoves DEF TerminateWorkers
<1>13. ASSUME NEW c \in Closers, CloseFinish(c)
       PROVE  StepMoves
  BY <1>13, SettleMoves DEF CloseFinish, Abandon, Settled
<1>14. ASSUME NEW w \in Worker, NEW s \in Seqs, WorkerStep(w, s)
       PROVE  StepMoves
  <2>1. reply[s] = "none" /\ outcome[s] \notin {"unsent", "ok"}
    BY <1>14 DEF WorkerStep, IsOldest, PoolInv, InboxNotRun, OkMeansExecuted
  <2>2. PICK r \in {"ok", "error"} : reply' = [reply EXCEPT ![s] = r]
    BY <1>14 DEF WorkerStep, WorkerOk, WorkerError
  <2>3. outcome' = outcome
    BY <1>14 DEF WorkerStep
  <2>4. QED
    BY <2>1, <2>2, <2>3 DEF TypeOK, StepMoves, PromiseMoves, AnswerMoves
<1>15. ASSUME NEW w \in Worker, Stop(w) \/ Crash(w)
       PROVE  StepMoves
  BY <1>15, QuietMoves DEF Stop, Crash
<1>16. QED
  BY <1>1, <1>2, <1>3, <1>4, <1>5, <1>6, <1>7, <1>8, <1>9, <1>10, <1>11, <1>12, <1>13,
     <1>14, <1>15
     DEF Next, Microtask, Macrotask, WorkerEvent, WorkerThread, WorkerProgress

\* A settled promise never changes, in any behaviour and for any bounds.
THEOREM SettledOnce == Spec => SettledForGood
<1>1. TypeOK /\ PoolInv /\ [Next]_vars
        => [\A s \in Seqs : outcome[s] \in Settled => outcome'[s] = outcome[s]]_vars
  BY NextMoves DEF StepMoves, PromiseMoves, Settled
<1>2. QED  BY <1>1, PoolInvariant, PTL DEF Spec, SettledForGood

\* The pool refines SqlService: every step moves each request as the service allows.
THEOREM PoolImplementsService == Spec => ImplementsService
<1>1. Init => Service!Init
  BY DEF Init, Service!Init, Known
<1>2. TypeOK /\ PoolInv /\ [Next]_vars => [Service!Next]_(Service!vars)
  <2> SUFFICES ASSUME TypeOK, PoolInv, Next
               PROVE  Service!Next
    BY DEF Service!vars, Known
  <2>1. StepMoves
    BY NextMoves
  <2>2. ASSUME NEW s \in Seqs
        PROVE  reply[s] = "ok" => reply'[s] = "ok"
    BY <2>1 DEF StepMoves, AnswerMoves
  <2>3. ASSUME NEW s \in Seqs
        PROVE  Service!StatusMoves(s)
    BY <2>1 DEF StepMoves, PromiseMoves, Service!StatusMoves, Known, Settled
  <2>4. ASSUME NEW s \in Seqs
        PROVE  Service!EffectMoves(s)
    BY <2>1 DEF StepMoves, AnswerMoves, Service!EffectMoves, Known, TypeOK
  <2>5. QED
    BY <2>2, <2>3, <2>4 DEF Service!Next
<1>3. QED
  BY <1>1, <1>2, PoolInvariant, PTL DEF Spec, ImplementsService, Service!Spec
----------------------------------------------------------------------------
(***************************************************************************)
(* The life of the pool, from the first init to process.exit, for every    *)
(* number of workers and every bound: the load counters, the order of      *)
(* writes, inits before calls, closes after them and the exit.             *)
(*                                                                         *)
(* Two things are used everywhere.  A number that was handed out keeps its *)
(* kind, its worker and, once settled, its outcome (HistoryKept).  And the *)
(* new numbers of a step come from one send (Issues).                      *)
(***************************************************************************)

\* New requests of kind k, one to each of the workers lo..hi; the others stay.
Issues(lo, hi, k) ==
  /\ seq' = seq + hi - lo + 1
  /\ \A s \in Seqs : s < seq => kind'[s] = kind[s] /\ target'[s] = target[s]
  /\ \A s \in Seqs : s >= seq /\ s < seq' => kind'[s] = k /\ target'[s] = s - seq + lo
  /\ lo \in Worker /\ hi \in Worker /\ lo <= hi /\ k \in Kind

\* A call posted to workers is a new request of its kind for each of them.
LEMMA SendIssues ==
  ASSUME TypeOK, NEW lo \in Worker, NEW hi \in Worker, lo <= hi, NEW k \in Kind, Send(lo, hi, k)
  PROVE  Issues(lo, hi, k) /\ seq' \in 0 .. MaxSeq
<1>1. seq \in 0 .. MaxSeq /\ seq + hi - lo < MaxSeq /\ seq' = seq + hi - lo + 1
      /\ lo \in 0 .. (WorkerCount - 1) /\ hi \in 0 .. (WorkerCount - 1)
  BY Bounds DEF Send, TypeOK
<1>2. \A s \in Seqs : s \in seq .. (seq + hi - lo) <=> s >= seq /\ s < seq'
  BY <1>1, Bounds
<1>3. \A s \in Seqs : s < seq => kind'[s] = kind[s] /\ target'[s] = target[s]
  BY <1>2, <1>1, Bounds DEF Send
<1>4. \A s \in Seqs : s >= seq /\ s < seq' => kind'[s] = k /\ target'[s] = s - seq + lo
  BY <1>2 DEF Send
<1>5. QED  BY <1>1, <1>3, <1>4, Bounds DEF Issues

\* A call that could not be posted is issued all the same.
LEMMA UnpostedIssues ==
  ASSUME TypeOK, NEW a \in Calls, NEW w \in Worker, SqlCallUnposted(a, w)
  PROVE  Issues(w, w, a) /\ seq' \in 0 .. MaxSeq
<1>1. seq \in Seqs /\ seq' = seq + 1 /\ seq' \in 0 .. MaxSeq /\ w \in 0 .. (WorkerCount - 1)
  BY Bounds DEF SqlCallUnposted, CanCall, TypeOK
<1>2. \A s \in Seqs : s < seq => kind'[s] = kind[s] /\ target'[s] = target[s]
  BY <1>1, Bounds DEF SqlCallUnposted, TypeOK
<1>3. \A s \in Seqs : s >= seq /\ s < seq' => s = seq
  BY <1>1, Bounds
<1>4. kind'[seq] = a /\ target'[seq] = w /\ seq - seq + w = w
  BY <1>1, Bounds DEF SqlCallUnposted, TypeOK
<1>5. QED  BY <1>1, <1>2, <1>3, <1>4, Bounds DEF Issues, Calls, Kind

\* A request of a client, or a checkpoint, posted while there is a pool.
CallSent(w, k) ==
  /\ pool # {}
  /\ k \notin {"init", "close"}
  /\ k \in Calls => initialized
  /\ k = "write" => w = Primary
  /\ Issues(w, w, k)
  /\ UNCHANGED <<pool, initialized, initPc, closePc>>

\* What a step may do to the life of the pool; every other step leaves it alone.
LifeMoves ==
  \/ StartInit /\ ~MicrotaskReady /\ Issues(Primary, Primary, "init")
  \/ InitRest /\ Issues(1, WorkerCount - 1, "init")
  \/ InitDone
  \/ InitFail
  \/ \E w \in Worker, k \in Kind : CallSent(w, k)
  \/ \E c \in Closers : CloseSQL(c) /\ pool = {}
  \/ \E c \in Closers : CloseSQL(c) /\ pool # {} /\ Issues(1, WorkerCount - 1, "close")
  \/ \E c \in Closers : ClosePrimary(c) /\ Issues(Primary, Primary, "close")
  \/ \E c \in Closers : TerminateWorkers(c)
  \/ \E c \in Closers : CloseFinish(c)

LifeRests ==
  UNCHANGED <<pool, initialized, initPc, closePc, seq, kind, target>> /\ pending' \subseteq pending

\* Every step is one of the pool's life or leaves the life alone.
LEMMA LifeMovesOrRests ==
  ASSUME TypeOK, Next
  PROVE  LifeMoves \/ LifeRests
<1> USE Bounds
<1> Primary \in Worker /\ 1 \in Worker /\ WorkerCount - 1 \in Worker /\ 1 <= WorkerCount - 1
  OBVIOUS
<1>1. CASE StartInit /\ ~MicrotaskReady
  <2>1. Issues(Primary, Primary, "init")
    BY <1>1, SendIssues DEF StartInit, Kind
  <2>2. QED  BY <1>1, <2>1 DEF LifeMoves
<1>2. CASE InitRest
  <2>1. Issues(1, WorkerCount - 1, "init")
    BY <1>2, SendIssues DEF InitRest, Kind
  <2>2. QED  BY <1>2, <2>1 DEF LifeMoves
<1>3. CASE InitDone \/ InitFail
  BY <1>3 DEF LifeMoves
<1>4. CASE ExitAfterInitFailed \/ ExitAfterShutdown \/ Exited
  BY <1>4 DEF ExitAfterInitFailed, ExitAfterShutdown, Exited, LifeRests
<1>5. ASSUME NEW a \in Calls, NEW w \in Worker, SqlCall(a, w) \/ SqlCallUnposted(a, w)
      PROVE  LifeMoves
  <2>1. a \in Kind /\ w <= w
    BY DEF Calls, Kind
  <2>2. Issues(w, w, a)
    BY <1>5, <2>1, SendIssues, UnpostedIssues DEF SqlCall
  <2>3. CanCall(a, w) /\ UNCHANGED mainVars
    BY <1>5 DEF SqlCall, SqlCallUnposted
  <2>4. CallSent(w, a)
    BY <2>2, <2>3 DEF CallSent, CanCall, Calls
  <2>5. QED  BY <2>1, <2>4 DEF LifeMoves
<1>6. CASE WalCheckpoint
  <2>1. CASE pool # {} /\ seq + 2 * WorkerCount <= MaxSeq
    <3>1. Issues(Primary, Primary, "walCheckpoint")
      BY <1>6, <2>1, SendIssues DEF WalCheckpoint, Kind
    <3>2. CallSent(Primary, "walCheckpoint")
      BY <1>6, <2>1, <3>1 DEF WalCheckpoint, CallSent, Calls
    <3>3. QED  BY <3>2 DEF LifeMoves, Kind
  <2>2. CASE ~(pool # {} /\ seq + 2 * WorkerCount <= MaxSeq)
    BY <1>6, <2>2 DEF WalCheckpoint, LifeRests
  <2>3. QED  BY <2>1, <2>2
<1>7. ASSUME NEW w \in Worker, NEW s \in Seqs, Deliver(w, s) \/ Timeout(s) \/ WorkerStep(w, s)
      PROVE  LifeRests
  BY <1>7 DEF Deliver, TakeAnswer, Timeout, Settle, WorkerStep, LifeRests
<1>8. ASSUME NEW w \in Worker, ErrorEvent(w) \/ ExitEvent(w) \/ Stop(w) \/ Crash(w)
      PROVE  LifeRests
  BY <1>8 DEF ErrorEvent, ExitEvent, FailAll, Abandon, Settle, Stop, Crash, LifeRests
<1>9. ASSUME NEW c \in Closers, CloseSQL(c)
      PROVE  LifeMoves
  <2>1. CASE pool = {}
    BY <1>9, <2>1 DEF LifeMoves
  <2>2. CASE pool # {}
    <3>1. Issues(1, WorkerCount - 1, "close")
      BY <1>9, <2>2, SendIssues DEF CloseSQL, Kind
    <3>2. QED  BY <1>9, <2>2, <3>1 DEF LifeMoves
  <2>3. QED  BY <2>1, <2>2
<1>10. ASSUME NEW c \in Closers, ClosePrimary(c)
       PROVE  LifeMoves
  <2>1. Issues(Primary, Primary, "close")
    BY <1>10, SendIssues DEF ClosePrimary, Kind
  <2>2. QED  BY <1>10, <2>1 DEF LifeMoves
<1>11. ASSUME NEW c \in Closers, TerminateWorkers(c) \/ CloseFinish(c)
       PROVE  LifeMoves
  BY <1>11 DEF LifeMoves
<1>12. QED
  BY <1>1, <1>2, <1>3, <1>4, <1>5, <1>6, <1>7, <1>8, <1>9, <1>10, <1>11
     DEF Next, Microtask, Macrotask, WorkerEvent, WorkerThread, WorkerProgress

\* What was handed out stays as it is, and settled promises stay settled.
HistoryKept ==
  /\ seq <= seq'
  /\ \A s \in Seqs : s < seq =>
       /\ kind'[s] = kind[s] /\ target'[s] = target[s]
       /\ outcome[s] \in Settled => outcome'[s] = outcome[s]

\* No step rewrites what was called, answered or settled.
LEMMA HistoryStep ==
  ASSUME TypeOK, PoolInv, Next
  PROVE  HistoryKept
<1>1. ASSUME NEW lo \in Worker, NEW hi \in Worker, NEW k \in Kind, Issues(lo, hi, k)
      PROVE  seq <= seq' /\ \A s \in Seqs : s < seq => kind'[s] = kind[s] /\ target'[s] = target[s]
  BY <1>1, Bounds DEF Issues, TypeOK
<1>2. \/ UNCHANGED <<seq, kind, target>>
      \/ \E lo, hi \in Worker, k \in Kind : Issues(lo, hi, k)
  <2>1. CASE InitDone \/ InitFail \/ \E c \in Closers : TerminateWorkers(c) \/ CloseFinish(c)
    BY <2>1 DEF InitDone, InitFail, TerminateWorkers, CloseFinish, Abandon, Settle
  <2>2. CASE \E c \in Closers : CloseSQL(c) /\ pool = {}
    BY <2>2 DEF CloseSQL
  <2>3. \A lo, hi, k : Issues(lo, hi, k) => lo \in Worker /\ hi \in Worker /\ k \in Kind
    BY DEF Issues
  <2>4. QED  BY <2>1, <2>2, <2>3, LifeMovesOrRests DEF LifeMoves, LifeRests, CallSent
<1>3. seq <= seq' /\ \A s \in Seqs : s < seq => kind'[s] = kind[s] /\ target'[s] = target[s]
  BY <1>1, <1>2, Bounds DEF TypeOK
<1>4. \A s \in Seqs : outcome[s] \in Settled => outcome'[s] = outcome[s]
  BY NextMoves DEF StepMoves, PromiseMoves, Settled
<1>5. QED  BY <1>3, <1>4 DEF HistoryKept

-----------------------------------------------------------------------------
(* The control of the pool: one closer at most, and no pool while it closes. *)

Closing(c) == closePc[c] \in {"rest", "primary", "terminating", "done"}

NotStarted ==
  initPc = "idle" =>
    pool = {} /\ seq = 0 /\ ~initialized /\ \A c \in Closers : ~Closing(c)

CloserEmptiesPool == \A c \in Closers : Closing(c) => pool = {}

OneCloser == \A c, d \in Closers : Closing(c) /\ Closing(d) => c = d

InitializedLast == initialized => initPc = "done"

ControlInv == NotStarted /\ CloserEmptiesPool /\ OneCloser /\ InitializedLast

\* Every step keeps the order in which initializeSQL and the closers have the pool.
LEMMA ControlStep ==
  ASSUME TypeOK, ControlInv, Next
  PROVE  ControlInv'
<1> USE DEF ControlInv, NotStarted, CloserEmptiesPool, OneCloser, InitializedLast, Closing
<1>1. CASE LifeRests
  BY <1>1 DEF LifeRests
<1>2. CASE StartInit
  BY <1>2 DEF StartInit
<1>3. CASE InitRest
  BY <1>3 DEF InitRest, PrimaryAnswered
<1>4. CASE InitDone
  BY <1>4 DEF InitDone, PrimaryAnswered, RestAnswered
<1>5. CASE InitFail
  BY <1>5 DEF InitFail, InitRefused
<1>6. ASSUME NEW w \in Worker, NEW k \in Kind, CallSent(w, k)
      PROVE  ControlInv'
  BY <1>6 DEF CallSent
<1>7. ASSUME NEW c \in Closers, CloseSQL(c), pool = {}
      PROVE  ControlInv'
  BY <1>7 DEF CloseSQL, TypeOK
<1>8. ASSUME NEW c \in Closers, CloseSQL(c), pool # {}
      PROVE  ControlInv'
  BY <1>8 DEF CloseSQL, TypeOK
<1>9. ASSUME NEW c \in Closers, ClosePrimary(c)
      PROVE  ControlInv'
  BY <1>9 DEF ClosePrimary, RestClosed, TypeOK
<1>10. ASSUME NEW c \in Closers, TerminateWorkers(c)
       PROVE  ControlInv'
  BY <1>10 DEF TerminateWorkers, PrimaryClosed, TypeOK
<1>11. ASSUME NEW c \in Closers, CloseFinish(c)
       PROVE  ControlInv'
  BY <1>11 DEF CloseFinish, Terminated, Abandon, Settle, TypeOK
<1>12. QED
  BY <1>1, <1>2, <1>3, <1>4, <1>5, <1>6, <1>7, <1>8, <1>9, <1>10, <1>11, LifeMovesOrRests
     DEF LifeMoves

-----------------------------------------------------------------------------
(* What has been asked of each worker, and in which order. *)

\* s is a request of kind k to worker w that has been handed out.
Issued(k, w, s) == s < seq /\ kind[s] = k /\ target[s] = w

Asked(k, w)    == \E s \in Seqs : Issued(k, w, s)
Answered(k, w) == \E s \in Seqs : Issued(k, w, s) /\ outcome[s] \in Settled
Agreed(k, w)   == \E s \in Seqs : Issued(k, w, s) /\ outcome[s] = "ok"

\* The requests a step finds are still there, and no less settled, after it.
LEMMA AskedKept ==
  ASSUME HistoryKept, TypeOK, TypeOK', NEW k \in Kind, NEW w \in Worker
  PROVE  /\ Asked(k, w) => Asked(k, w)'
         /\ Answered(k, w) => Answered(k, w)'
         /\ Agreed(k, w) => Agreed(k, w)'
<1>1. seq \in Int /\ seq' \in Int
  BY DEF TypeOK
<1>2. \A s \in Seqs : Issued(k, w, s) => Issued(k, w, s)'
  BY <1>1, Bounds DEF HistoryKept, Issued
<1>3. \A s \in Seqs : Issued(k, w, s) /\ outcome[s] \in Settled => outcome'[s] = outcome[s]
  BY DEF HistoryKept, Issued
<1>4. "ok" \in Settled
  BY DEF Settled
<1>5. QED  BY <1>2, <1>3, <1>4 DEF Asked, Answered, Agreed

\* The requests a step finds after a send are old ones, or the new ones.
LEMMA AskedBySend ==
  ASSUME TypeOK, TypeOK', NEW lo, NEW hi, NEW k, Issues(lo, hi, k), NEW w \in Worker
  PROVE  /\ \A j \in Kind, s \in Seqs : Issued(j, w, s)' =>
               \/ Issued(j, w, s)
               \/ s >= seq /\ j = k /\ w = s - seq + lo /\ lo <= w /\ w <= hi
         /\ lo <= w /\ w <= hi => Asked(k, w)'
<1>1. /\ seq \in 0 .. MaxSeq /\ seq' \in 0 .. MaxSeq /\ seq' = seq + hi - lo + 1
      /\ lo \in 0 .. (WorkerCount - 1) /\ hi \in 0 .. (WorkerCount - 1) /\ lo <= hi
      /\ w \in 0 .. (WorkerCount - 1)
  BY Bounds DEF Issues, TypeOK
<1>2. ASSUME NEW j \in Kind, NEW s \in Seqs, Issued(j, w, s)'
      PROVE  \/ Issued(j, w, s)
             \/ s >= seq /\ j = k /\ w = s - seq + lo /\ lo <= w /\ w <= hi
  <2>1. s \in Int /\ s < seq' /\ kind'[s] = j /\ target'[s] = w
    BY <1>2 DEF Issued
  <2>2. CASE s < seq
    BY <2>1, <2>2 DEF Issues, Issued
  <2>3. CASE s >= seq
    <3>1. kind'[s] = k /\ target'[s] = s - seq + lo
      BY <2>1, <2>3 DEF Issues
    <3>2. QED  BY <1>1, <2>1, <2>3, <3>1, Bounds
  <2>4. QED  BY <1>1, <2>1, <2>2, <2>3
<1>3. ASSUME lo <= w, w <= hi
      PROVE  Asked(k, w)'
  <2>1. PICK s \in Seqs : s >= seq /\ s < seq' /\ s - seq + lo = w
    <3> DEFINE t == seq + w - lo
    <3>1. t \in Seqs /\ t >= seq /\ t < seq' /\ t - seq + lo = w
      BY <1>1, <1>3, Bounds
    <3> HIDE DEF t
    <3>2. QED  BY <3>1
  <2>2. Issued(k, w, s)'
    BY <2>1 DEF Issues, Issued
  <2>3. QED  BY <2>1, <2>2 DEF Asked
<1>4. QED  BY <1>2, <1>3

\* A step that hands out nothing asks nothing new.
LEMMA AskedByNothing ==
  ASSUME UNCHANGED <<seq, kind, target>>, NEW k, NEW w, NEW s
  PROVE  Issued(k, w, s)' <=> Issued(k, w, s)
BY DEF Issued

InitsAsked ==
  /\ initPc = "primary" => Asked("init", Primary)
  /\ initPc = "rest" => \A w \in Worker : Asked("init", w)

\* sqlCall finds a pool only after every init was answered with success.
InitsAgreed == initialized /\ pool # {} => \A w \in Worker : Agreed("init", w)

ClosesHaveCloser ==
  \A w \in Worker : Asked("close", w) => \E c \in Closers : Closing(c)

RestAskedFirst ==
  \A c \in Closers : closePc[c] = "rest" =>
    ~Asked("close", Primary) /\ \A w \in Rest : Asked("close", w)

RestAnsweredFirst == Asked("close", Primary) => \A w \in Rest : Answered("close", w)

AskedInv ==
  /\ InitsAsked
  /\ InitsAgreed
  /\ ClosesHaveCloser
  /\ RestAskedFirst
  /\ RestAnsweredFirst
  /\ CallsNeedInit
  /\ CloseIsLast

LifeInv == ControlInv /\ AskedInv

\* Who asked for what, and the calls: a step that sends nothing.
LEMMA AskedRests ==
  ASSUME TypeOK, TypeOK', LifeInv, ControlInv', HistoryKept, UNCHANGED <<seq, kind, target>>,
         initPc' \in {"primary", "rest"} => initPc' = initPc,
         initialized' /\ pool' # {} => \A w \in Worker : Agreed("init", w),
         \A c \in Closers : Closing(c) => Closing(c)',
         \A c \in Closers : closePc'[c] = "rest" => closePc[c] = "rest"
  PROVE  AskedInv'
<1> USE Bounds
<1>1. {"init", "close"} \subseteq Kind /\ Primary \in Worker
  BY DEF Kind
<1>2. \A k \in Kind, w \in Worker : Asked(k, w)' <=> Asked(k, w)
  BY AskedByNothing DEF Asked
<1>3. InitsAsked'
  BY <1>1, <1>2 DEF LifeInv, AskedInv, InitsAsked
<1>4. InitsAgreed'
  BY <1>1, AskedKept DEF InitsAgreed
<1>5. ClosesHaveCloser'
  BY <1>1, <1>2 DEF LifeInv, AskedInv, ClosesHaveCloser
<1>6. RestAskedFirst'
  BY <1>1, <1>2 DEF LifeInv, AskedInv, RestAskedFirst
<1>7. RestAnsweredFirst'
  BY <1>1, <1>2, AskedKept DEF LifeInv, AskedInv, RestAnsweredFirst
<1>8. CallsNeedInit'
  <2>1. \A i \in Seqs : i < seq /\ outcome[i] = "ok" => outcome'[i] = "ok"
    BY DEF HistoryKept, Settled
  <2>2. \A i, s \in Seqs : i < s /\ s < seq => i < seq
    BY DEF TypeOK
  <2>3. QED  BY <2>1, <2>2 DEF LifeInv, AskedInv, CallsNeedInit
<1>9. CloseIsLast'
  BY DEF LifeInv, AskedInv, CloseIsLast
<1>10. QED
  BY <1>3, <1>4, <1>5, <1>6, <1>7, <1>8, <1>9 DEF AskedInv

\* Calls after their inits, and nothing behind a close: a step that sends.
LEMMA OrderBySend ==
  ASSUME TypeOK, TypeOK', LifeInv, HistoryKept, NEW lo, NEW hi, NEW k, Issues(lo, hi, k),
         k \in Calls => \A w \in lo .. hi : Agreed("init", w),
         \A w \in lo .. hi : ~Asked("close", w)
  PROVE  CallsNeedInit' /\ CloseIsLast'
<1> USE Bounds
<1>1. /\ lo \in Worker /\ hi \in Worker /\ k \in Kind /\ {"init", "close"} \subseteq Kind
      /\ seq \in Int /\ seq' \in Int
  BY DEF Issues, TypeOK, Kind
<1>2. \A s \in Seqs : s < seq => kind'[s] = kind[s] /\ target'[s] = target[s]
  BY DEF HistoryKept
<1>3. \A s \in Seqs : s < seq' /\ ~(s < seq) =>
        kind'[s] = k /\ target'[s] = s - seq + lo /\ target'[s] \in lo .. hi
  BY <1>1 DEF Issues, TypeOK
<1>4. CallsNeedInit'
  <2> SUFFICES ASSUME NEW s \in Seqs, s < seq', kind'[s] \in Calls
               PROVE  \E i \in Seqs : i < s /\ kind'[i] = "init" /\ target'[i] = target'[s]
                                     /\ outcome'[i] = "ok"
    BY DEF CallsNeedInit
  <2>1. \E i \in Seqs : i < s /\ i < seq /\ kind[i] = "init" /\ target[i] = target'[s]
                        /\ outcome[i] = "ok"
    <3>1. CASE s < seq
      <4>1. PICK i \in Seqs : i < s /\ kind[i] = "init" /\ target[i] = target[s]
                             /\ outcome[i] = "ok"
        BY <1>2, <3>1 DEF LifeInv, AskedInv, CallsNeedInit
      <4>2. QED  BY <1>1, <1>2, <3>1, <4>1
    <3>2. CASE ~(s < seq)
      <4>1. Agreed("init", target'[s])
        BY <1>3, <3>2
      <4>2. QED  BY <1>1, <3>2, <4>1 DEF Agreed, Issued
    <3>3. QED  BY <3>1, <3>2
  <2>2. QED  BY <1>2, <2>1 DEF HistoryKept, Settled
<1>5. CloseIsLast'
  <2> SUFFICES ASSUME NEW s \in Seqs, NEW c \in Seqs, s < seq', c < s, kind'[c] = "close"
               PROVE  target'[s] # target'[c]
    BY DEF CloseIsLast
  <2>1. CASE s < seq
    BY <1>1, <1>2, <2>1 DEF LifeInv, AskedInv, CloseIsLast
  <2>2. CASE ~(s < seq) /\ c < seq
    <3>1. ~Asked("close", target'[s])
      BY <1>3, <2>2
    <3>2. QED  BY <1>2, <2>2, <3>1 DEF Asked, Issued
  <2>3. CASE ~(s < seq) /\ ~(c < seq)
    <3>1. target'[s] = s - seq + lo /\ target'[c] = c - seq + lo
      BY <1>1, <1>3, <2>3
    <3>2. QED  BY <1>1, <3>1
  <2>4. QED  BY <2>1, <2>2, <2>3
<1>6. QED  BY <1>4, <1>5

\* Every step keeps what has been asked in order.
LEMMA AskedStep ==
  ASSUME TypeOK, PoolInv, LifeInv, Next
  PROVE  AskedInv'
<1> USE Bounds
<1>1. TypeOK' /\ ControlInv' /\ HistoryKept
  BY TypeStep, ControlStep, HistoryStep DEF LifeInv
<1>2. /\ Primary \in Worker /\ 1 \in Worker /\ WorkerCount - 1 \in Worker
      /\ \A w \in Worker : w \in 1 .. (WorkerCount - 1) <=> w \in Rest
      /\ \A w \in Worker : w .. w = {w}
      /\ {"init", "close"} \subseteq Kind
  BY DEF Kind
<1>3. pool # {} => /\ \A c \in Closers : ~Closing(c)
                  /\ \A w \in Worker : ~Asked("close", w)
  BY DEF LifeInv, ControlInv, CloserEmptiesPool, AskedInv, ClosesHaveCloser
<1>4. CASE LifeRests
  BY <1>1, <1>4, AskedRests DEF LifeRests, LifeInv, AskedInv, InitsAgreed, Closing
<1>5. CASE StartInit /\ Issues(Primary, Primary, "init")
  <2>1. /\ seq = 0 /\ ~initialized /\ \A c \in Closers : ~Closing(c)
        /\ initPc' = "primary" /\ UNCHANGED <<initialized, closePc>>
    BY <1>5 DEF StartInit, LifeInv, ControlInv, NotStarted
  <2>2. \A w \in Worker : ~Asked("close", w)
    BY <2>1 DEF LifeInv, AskedInv, ClosesHaveCloser
  <2>3. \A w \in Worker : ~Asked("close", w)'
    BY <1>1, <1>2, <1>5, <2>2, AskedBySend DEF Asked
  <2>4. InitsAsked'
    BY <1>1, <1>2, <1>5, <2>1, AskedBySend DEF InitsAsked
  <2>5. CallsNeedInit' /\ CloseIsLast'
    BY <1>1, <1>2, <1>5, <2>2, OrderBySend DEF Calls
  <2>6. QED
    BY <1>2, <2>1, <2>3, <2>4, <2>5
       DEF AskedInv, InitsAgreed, ClosesHaveCloser, RestAskedFirst, RestAnsweredFirst, Closing
<1>6. CASE InitRest /\ Issues(1, WorkerCount - 1, "init")
  <2>1. /\ pool # {} /\ initPc = "primary" /\ initPc' = "rest" /\ ~initialized
        /\ UNCHANGED <<initialized, closePc>>
    BY <1>6 DEF InitRest, PoolEmptied, PrimaryAnswered, LifeInv, ControlInv, InitializedLast
  <2>2. \A w \in Worker : ~Asked("close", w)'
    BY <1>1, <1>2, <1>3, <1>6, <2>1, AskedBySend DEF Asked
  <2>3. InitsAsked'
    <3>1. Asked("init", Primary)'
      BY <1>1, <1>2, <2>1, AskedKept DEF LifeInv, AskedInv, InitsAsked
    <3>2. \A w \in Worker : 1 <= w /\ w <= WorkerCount - 1 => Asked("init", w)'
      BY <1>1, <1>6, AskedBySend
    <3>3. \A w \in Worker : w = Primary \/ (1 <= w /\ w <= WorkerCount - 1)
      OBVIOUS
    <3>4. QED  BY <2>1, <3>1, <3>2, <3>3 DEF InitsAsked
  <2>4. CallsNeedInit' /\ CloseIsLast'
    BY <1>1, <1>2, <1>3, <1>6, <2>1, OrderBySend DEF Calls
  <2>5. QED
    BY <1>2, <1>3, <2>1, <2>2, <2>3, <2>4
       DEF AskedInv, InitsAgreed, ClosesHaveCloser, RestAskedFirst, RestAnsweredFirst, Closing
<1>7. CASE InitDone
  <2>1. UNCHANGED <<seq, kind, target, pool, closePc>> /\ initPc' = "done"
    BY <1>7 DEF InitDone
  <2>2. ASSUME pool # {}, NEW w \in Worker
        PROVE  Agreed("init", w)
    <3>1. RestAnswered
      BY <1>7, <2>2 DEF InitDone, PoolEmptied
    <3>2. Asked("init", w)
      BY <2>2, <3>1 DEF RestAnswered, LifeInv, AskedInv, InitsAsked
    <3>3. QED  BY <2>2, <3>1, <3>2 DEF RestAnswered, Sent, Asked, Agreed, Issued
  <2>3. QED  BY <1>1, <2>1, <2>2, AskedRests DEF Closing
<1>8. CASE InitFail
  <2>1. UNCHANGED <<seq, kind, target, closePc>> /\ initPc' = "terminating" /\ pool' = {}
    BY <1>8 DEF InitFail
  <2>2. QED  BY <1>1, <2>1, AskedRests DEF Closing
<1>9. ASSUME NEW w \in Worker, NEW k \in Kind, CallSent(w, k)
      PROVE  AskedInv'
  <2>1. /\ Issues(w, w, k) /\ k # "close" /\ pool # {}
        /\ k \in Calls => initialized
        /\ UNCHANGED <<pool, initialized, initPc, closePc>>
    BY <1>9 DEF CallSent
  <2>2. \A v \in Worker : ~Asked("close", v)'
    BY <1>1, <1>2, <1>3, <2>1, AskedBySend DEF Asked
  <2>3. InitsAsked'
    BY <1>1, <1>2, <2>1, AskedKept DEF LifeInv, AskedInv, InitsAsked
  <2>4. InitsAgreed'
    BY <1>1, <1>2, <2>1, AskedKept DEF LifeInv, AskedInv, InitsAgreed
  <2>5. CallsNeedInit' /\ CloseIsLast'
    BY <1>1, <1>2, <1>3, <2>1, OrderBySend DEF LifeInv, AskedInv, InitsAgreed
  <2>6. QED
    BY <1>2, <1>3, <2>1, <2>2, <2>3, <2>4, <2>5
       DEF AskedInv, ClosesHaveCloser, RestAskedFirst, RestAnsweredFirst, Closing
<1>10. ASSUME NEW c \in Closers, CloseSQL(c), pool = {}
       PROVE  AskedInv'
  <2>1. /\ UNCHANGED <<seq, kind, target, initPc>> /\ pool' = {} /\ closePc[c] = "idle"
        /\ closePc' = [closePc EXCEPT ![c] = "skipped"]
    BY <1>10 DEF CloseSQL
  <2>2. QED  BY ZenonT(60), <1>1, <2>1, AskedRests DEF TypeOK, Closing
<1>11. ASSUME NEW c \in Closers, CloseSQL(c), pool # {}, Issues(1, WorkerCount - 1, "close")
       PROVE  AskedInv'
  <2>1. /\ pool' = {} /\ closePc' = [closePc EXCEPT ![c] = "rest"] /\ initPc' = initPc
    BY <1>11 DEF CloseSQL
  <2>2. closePc'[c] = "rest" /\ Closing(c)'
    BY <2>1 DEF TypeOK, Closing
  <2>3. ~Asked("close", Primary)'
    BY <1>1, <1>2, <1>3, <1>11, AskedBySend DEF Asked
  <2>4. \A w \in Rest : Asked("close", w)'
    BY <1>1, <1>2, <1>11, AskedBySend
  <2>5. InitsAsked'
    BY <1>1, <1>2, <2>1, AskedKept DEF LifeInv, AskedInv, InitsAsked
  <2>6. CallsNeedInit' /\ CloseIsLast'
    BY <1>1, <1>2, <1>3, <1>11, OrderBySend DEF Calls
  <2>7. QED
    BY <2>1, <2>2, <2>3, <2>4, <2>5, <2>6
       DEF AskedInv, InitsAgreed, ClosesHaveCloser, RestAskedFirst, RestAnsweredFirst
<1>12. ASSUME NEW c \in Closers, ClosePrimary(c), Issues(Primary, Primary, "close")
       PROVE  AskedInv'
  <2>1. /\ closePc[c] = "rest" /\ closePc' = [closePc EXCEPT ![c] = "primary"]
        /\ UNCHANGED <<pool, initPc>> /\ AllSettled(Sent("close", Rest))
    BY <1>12 DEF ClosePrimary, RestClosed
  <2>2. pool = {} /\ \A d \in Closers : closePc'[d] # "rest"
    BY <2>1 DEF LifeInv, ControlInv, CloserEmptiesPool, OneCloser, Closing, TypeOK
  <2>3. ~Asked("close", Primary) /\ \A w \in Rest : Asked("close", w)
    BY <2>1 DEF LifeInv, AskedInv, RestAskedFirst
  <2>4. \A w \in Rest : Answered("close", w)
    BY <2>1, <2>3 DEF Asked, Answered, Issued, AllSettled, Sent
  <2>5. RestAnsweredFirst'
    BY <1>1, <1>2, <2>4, AskedKept DEF RestAnsweredFirst
  <2>6. InitsAsked'
    BY <1>1, <1>2, <2>1, AskedKept DEF LifeInv, AskedInv, InitsAsked
  <2>7. CallsNeedInit' /\ CloseIsLast'
    BY <1>1, <1>2, <1>12, <2>3, OrderBySend DEF Calls
  <2>8. Closing(c)'
    BY <2>1 DEF Closing, TypeOK
  <2>9. QED
    BY <2>1, <2>2, <2>5, <2>6, <2>7, <2>8
       DEF AskedInv, InitsAgreed, ClosesHaveCloser, RestAskedFirst
<1>13. ASSUME NEW c \in Closers, TerminateWorkers(c) \/ CloseFinish(c)
       PROVE  AskedInv'
  <2>1. /\ UNCHANGED <<seq, kind, target, pool, initialized, initPc>>
        /\ Closing(c)
        /\ \E to \in {"terminating", "done"} : closePc' = [closePc EXCEPT ![c] = to]
    BY <1>13 DEF TerminateWorkers, CloseFinish, PrimaryClosed, Terminated, Closing, Abandon, Settle
  <2>2. /\ \A d \in Closers : Closing(d) => Closing(d)'
        /\ \A d \in Closers : closePc'[d] = "rest" => closePc[d] = "rest"
    BY <2>1 DEF Closing, TypeOK
  <2>3. initialized' /\ pool' # {} => \A w \in Worker : Agreed("init", w)
    BY <2>1 DEF LifeInv, AskedInv, InitsAgreed
  <2>4. UNCHANGED <<seq, kind, target>> /\ initPc' = initPc
    BY <2>1
  <2>5. initPc' \in {"primary", "rest"} => initPc' = initPc
    BY <2>4
  <2>6. QED  BY <1>1, <2>2, <2>3, <2>4, <2>5, AskedRests
<1>14. QED
  BY <1>4, <1>5, <1>6, <1>7, <1>8, <1>9, <1>10, <1>11, <1>12, <1>13, LifeMovesOrRests
     DEF LifeMoves

\* The invariant of the pool's life holds throughout.
LEMMA LifeInvariant == Spec => [](TypeOK /\ PoolInv /\ LifeInv)
<1>1. Init => LifeInv
  <2> SUFFICES ASSUME Init PROVE LifeInv
    OBVIOUS
  <2>1. ControlInv
    BY DEF Init, ControlInv, NotStarted, CloserEmptiesPool, OneCloser, InitializedLast, Closing
  <2>2. seq = 0 /\ initPc = "idle" /\ \A c \in Closers : closePc[c] = "idle"
    BY DEF Init
  <2>3. \A s \in Seqs : ~(s < seq)
    BY <2>2, Bounds
  <2>4. AskedInv
    BY <2>2, <2>3 DEF Init, AskedInv, InitsAsked, InitsAgreed, ClosesHaveCloser, RestAskedFirst,
       RestAnsweredFirst, CallsNeedInit, CloseIsLast, Asked, Issued
  <2>5. QED  BY <2>1, <2>4 DEF LifeInv
<1>2. TypeOK /\ PoolInv /\ LifeInv /\ [Next]_vars => LifeInv'
  <2>1. ASSUME TypeOK, PoolInv, LifeInv, Next PROVE LifeInv'
    BY <2>1, ControlStep, AskedStep DEF LifeInv
  <2>2. ASSUME LifeInv, UNCHANGED vars PROVE LifeInv'
    BY <2>2 DEF LifeInv, ControlInv, NotStarted, CloserEmptiesPool, OneCloser, InitializedLast,
       Closing, AskedInv, InitsAsked, InitsAgreed, ClosesHaveCloser, RestAskedFirst,
       RestAnsweredFirst, CallsNeedInit, CloseIsLast, Asked, Answered, Agreed, Issued
  <2>3. QED  BY <2>1, <2>2
<1>3. QED  BY <1>1, <1>2, PoolInvariant, PTL DEF Spec

-----------------------------------------------------------------------------
(* The worker threads: answers, databases and the order of the writes. *)

\* Answers and databases change only where a worker runs a request.
LEMMA AnswersStep ==
  ASSUME Next
  PROVE  (\E w \in Worker, s \in Seqs : WorkerStep(w, s)) \/ UNCHANGED <<reply, db>>
<1>1. CASE Microtask
  BY <1>1 DEF Microtask, InitRest, InitDone, InitFail, ExitAfterInitFailed, ExitAfterShutdown,
     ClosePrimary, TerminateWorkers, CloseFinish, Send
<1>2. CASE Macrotask
  BY <1>2 DEF Macrotask, StartInit, WalCheckpoint, SqlCall, SqlCallUnposted, WorkerEvent,
     ErrorEvent, ExitEvent, Deliver, TakeAnswer, Timeout, CloseSQL, Send
<1>3. CASE WorkerThread
  BY <1>3 DEF WorkerThread, WorkerProgress, Stop, Crash
<1>4. CASE Exited
  BY <1>4 DEF Exited
<1>5. QED  BY <1>1, <1>2, <1>3, <1>4 DEF Next

\* A thread that has not started, or is gone, stays so until initializeSQL.
LEMMA ThreadStep ==
  ASSUME TypeOK, LifeInv, Next, NEW w \in Worker, thread[w] \in {"none", "gone"},
         initPc # "idle" \/ initPc' = "idle"
  PROVE  thread'[w] = thread[w]
<1>1. CASE Microtask
  BY <1>1 DEF Microtask, InitRest, InitDone, InitFail, ExitAfterInitFailed, ExitAfterShutdown,
     ClosePrimary, TerminateWorkers, CloseFinish
<1>2. CASE WalCheckpoint
  BY <1>2 DEF WalCheckpoint
<1>3. ASSUME NEW v \in Worker, WorkerEvent(v) PROVE thread'[w] = thread[w]
  BY <1>3 DEF WorkerEvent, ErrorEvent, ExitEvent, Deliver, TakeAnswer, TypeOK
<1>4. ASSUME NEW v \in Worker, NEW a \in Calls, SqlCall(a, v) \/ SqlCallUnposted(a, v)
      PROVE  thread'[w] = thread[w]
  BY <1>4 DEF SqlCall, SqlCallUnposted
<1>5. ASSUME NEW s \in Seqs, Timeout(s) PROVE thread'[w] = thread[w]
  BY <1>5 DEF Timeout
<1>6. ASSUME NEW c \in Closers, CloseSQL(c) PROVE thread'[w] = thread[w]
  BY <1>6 DEF CloseSQL
<1>7. ASSUME NEW v \in Worker, NEW s \in Seqs, WorkerStep(v, s) PROVE thread'[w] = thread[w]
  BY <1>7 DEF WorkerStep, WorkerOk, WorkerError, TypeOK
<1>8. ASSUME NEW v \in Worker, Stop(v) \/ Crash(v) PROVE thread'[w] = thread[w]
  BY <1>8 DEF Stop, Crash, TypeOK
<1>9. CASE Exited
  BY <1>9 DEF Exited
<1>10. QED
  BY <1>1, <1>2, <1>3, <1>4, <1>5, <1>6, <1>7, <1>8, <1>9
     DEF Next, Macrotask, StartInit, WorkerThread, WorkerProgress

\* The primary's database is closed only by the close it was sent.
ClosedWasAsked == db[Primary] = "closed" => Asked("close", Primary)

\* The database of the primary is closed only by a close that was posted to it.
LEMMA ClosedStep ==
  ASSUME TypeOK, PoolInv, LifeInv, ClosedWasAsked, Next
  PROVE  ClosedWasAsked'
<1>1. Asked("close", Primary) => Asked("close", Primary)'
  BY Bounds, TypeStep, HistoryStep, AskedKept DEF Kind
<1>2. CASE db' = db
  BY <1>1, <1>2 DEF ClosedWasAsked
<1>3. ASSUME NEW w \in Worker, NEW s \in Seqs, WorkerStep(w, s)
      PROVE  ClosedWasAsked'
  <2>1. CASE db'[Primary] = db[Primary]
    BY <1>1, <2>1 DEF ClosedWasAsked
  <2>2. CASE db'[Primary] # db[Primary] /\ db'[Primary] = "closed"
    <3>1. w = Primary /\ kind[s] = "close"
      <4>1. db' = [db EXCEPT ![w] = DbAfter(kind[s], @)]
        BY <1>3, <2>2 DEF WorkerStep, WorkerOk, WorkerError
      <4>2. w = Primary /\ DbAfter(kind[s], db[Primary]) = "closed" /\ db[Primary] # "closed"
        BY <2>2, <4>1 DEF TypeOK
      <4>3. QED  BY <4>2 DEF DbAfter
    <3>2. s < seq /\ target[s] = w
      BY <1>3 DEF WorkerStep, IsOldest, PoolInv, InboxNotRun, Unissued, TypeOK
    <3>3. QED  BY <1>1, <3>1, <3>2 DEF Asked, Issued, ClosedWasAsked
  <2>3. QED  BY <2>1, <2>2 DEF ClosedWasAsked
<1>4. QED  BY <1>2, <1>3, AnswersStep

\* A request handed out is in its port, was run, was never posted, or its worker
\* is gone.
Reached(s) ==
  \/ s \in inbox[target[s]]
  \/ reply[s] # "none"
  \/ outcome[s] = "error"
  \/ thread[target[s]] = "gone"

WritesInv ==
  /\ \A s \in Seqs : s < seq /\ kind[s] = "write" => target[s] = Primary
  /\ \A s \in Seqs : s < seq => Reached(s)
  /\ WritesInOrder

\* send() puts what it hands out in the ports.
LEMMA SendReaches ==
  ASSUME TypeOK, TypeOK', HistoryKept, \A s \in Seqs : s < seq => Reached(s),
         NEW lo \in Worker, NEW hi \in Worker, lo <= hi, NEW k, Send(lo, hi, k),
         \A s \in Seqs, w \in Worker : s < seq /\ thread[w] = "gone" => thread'[w] = "gone"
  PROVE  \A s \in Seqs : s < seq' => Reached(s)'
<1> USE Bounds
<1> SUFFICES ASSUME NEW s \in Seqs, s < seq' PROVE Reached(s)'
  OBVIOUS
<1>1. seq \in Nat /\ lo \in Nat /\ hi \in Nat /\ seq' = seq + hi - lo + 1
  BY DEF Send, TypeOK
<1>2. CASE s < seq
  <2>1. s \notin seq .. (seq + hi - lo) /\ target'[s] = target[s] /\ target[s] \in Worker
    BY <1>1, <1>2 DEF HistoryKept, TypeOK
  <2>2. Reached(s)
    BY <1>2
  <2>3. CASE s \in inbox[target[s]]
    BY <2>1, <2>3 DEF Reached, Send
  <2>4. CASE reply[s] # "none"
    BY <2>4 DEF Reached, Send
  <2>5. CASE outcome[s] = "error"
    BY <1>2, <2>5 DEF Reached, HistoryKept, Settled
  <2>6. CASE thread[target[s]] = "gone"
    BY <1>2, <2>1, <2>6 DEF Reached
  <2>7. QED  BY <2>2, <2>3, <2>4, <2>5, <2>6 DEF Reached
<1>3. CASE ~(s < seq)
  <2>1. s \in seq .. (seq + hi - lo)
    BY <1>1, <1>3
  <2>2. target'[s] = s - seq + lo /\ s - seq + lo \in Worker
    BY <1>1, <2>1 DEF Send
  <2>3. s \in inbox'[target'[s]]
    BY <2>1, <2>2 DEF Send
  <2>4. QED  BY <2>3 DEF Reached
<1>4. QED  BY <1>2, <1>3

\* Every step keeps requests within reach.
LEMMA ReachedStep ==
  ASSUME TypeOK, PoolInv, LifeInv, WritesInv, Next
  PROVE  \A s \in Seqs : s < seq' => Reached(s)'
<1> USE Bounds
<1>1. /\ Primary \in Worker /\ 1 \in Worker /\ WorkerCount - 1 \in Worker
      /\ 1 <= WorkerCount - 1 /\ \A w \in Worker : w <= w
  OBVIOUS
<1>2. TypeOK' /\ HistoryKept /\ \A s \in Seqs : s < seq => Reached(s)
  BY TypeStep, HistoryStep DEF WritesInv
<1>3. \A s \in Seqs, w \in Worker : s < seq /\ thread[w] = "gone" => thread'[w] = "gone"
  <2>1. (\E s \in Seqs : s < seq) => initPc # "idle"
    BY DEF LifeInv, ControlInv, NotStarted
  <2>2. QED  BY <2>1, ThreadStep
<1>4. ASSUME UNCHANGED <<seq, target, inbox, reply>>
      PROVE  \A s \in Seqs : s < seq' => Reached(s)'
  BY ZenonT(60), <1>2, <1>3, <1>4 DEF Reached, HistoryKept, TypeOK, Settled
<1>5. ASSUME NEW lo \in Worker, NEW hi \in Worker, lo <= hi, NEW k, Send(lo, hi, k)
      PROVE  \A s \in Seqs : s < seq' => Reached(s)'
  BY <1>2, <1>3, <1>5, SendReaches
<1>6. CASE Microtask
  BY <1>1, <1>4, <1>5, <1>6
     DEF Microtask, InitRest, InitDone, InitFail, ExitAfterInitFailed, ExitAfterShutdown,
         ClosePrimary, TerminateWorkers, CloseFinish, Abandon, Settle
<1>7. CASE StartInit \/ WalCheckpoint
  BY <1>1, <1>4, <1>5, <1>7 DEF StartInit, WalCheckpoint
<1>8. ASSUME NEW a \in Calls, NEW w \in Worker, SqlCall(a, w)
      PROVE  \A s \in Seqs : s < seq' => Reached(s)'
  BY <1>1, <1>5, <1>8 DEF SqlCall
<1>9. ASSUME NEW a \in Calls, NEW w \in Worker, SqlCallUnposted(a, w)
      PROVE  \A s \in Seqs : s < seq' => Reached(s)'
  <2>1. /\ seq' = seq + 1 /\ seq \in Nat /\ outcome' = [outcome EXCEPT ![seq] = "error"]
        /\ UNCHANGED <<inbox, reply, thread>>
    BY <1>9 DEF SqlCallUnposted, TypeOK
  <2>2. \A s \in Seqs : s < seq' => s < seq \/ s = seq
    BY <2>1
  <2>3. QED  BY <1>2, <2>1, <2>2 DEF Reached, HistoryKept, TypeOK, Settled
<1>10. ASSUME NEW w \in Worker, ExitEvent(w)
       PROVE  \A s \in Seqs : s < seq' => Reached(s)'
  <2>1. /\ UNCHANGED <<seq, target, reply>> /\ thread' = [thread EXCEPT ![w] = "gone"]
        /\ inbox' = [inbox EXCEPT ![w] = {}]
    BY <1>10 DEF ExitEvent, FailAll, Abandon, Settle
  <2>2. QED  BY <1>2, <2>1 DEF Reached, HistoryKept, TypeOK, Settled
<1>11. ASSUME NEW w \in Worker, NEW s \in Seqs, ErrorEvent(w) \/ Deliver(w, s) \/ Timeout(s)
       PROVE  \A t \in Seqs : t < seq' => Reached(t)'
  BY <1>4, <1>11 DEF ErrorEvent, Deliver, TakeAnswer, Timeout, FailAll, Abandon, Settle
<1>12. ASSUME NEW c \in Closers, CloseSQL(c)
       PROVE  \A s \in Seqs : s < seq' => Reached(s)'
  BY <1>1, <1>4, <1>5, <1>12 DEF CloseSQL
<1>13. ASSUME NEW w \in Worker, NEW s \in Seqs, WorkerStep(w, s)
       PROVE  \A t \in Seqs : t < seq' => Reached(t)'
  <2>1. /\ UNCHANGED <<seq, target, outcome>> /\ inbox' = [inbox EXCEPT ![w] = @ \ {s}]
        /\ reply'[s] # "none" /\ \A t \in Seqs : t # s => reply'[t] = reply[t]
    BY <1>13 DEF WorkerStep, WorkerOk, WorkerError, TypeOK
  <2> SUFFICES ASSUME NEW t \in Seqs, t < seq' PROVE Reached(t)'
    OBVIOUS
  <2>2. CASE t = s
    BY <2>1, <2>2 DEF Reached
  <2>3. CASE t # s
    <3>1. Reached(t) /\ target[t] \in Worker /\ t < seq
      BY <1>2, <2>1 DEF TypeOK
    <3>2. reply'[t] = reply[t] /\ (t \in inbox[target[t]] => t \in inbox'[target[t]])
      BY <2>1, <2>3, <3>1 DEF TypeOK
    <3>3. thread[target[t]] = "gone" => thread'[target[t]] = "gone"
      BY <1>3, <3>1
    <3>4. QED  BY <2>1, <3>1, <3>2, <3>3 DEF Reached
  <2>4. QED  BY <2>2, <2>3
<1>14. ASSUME NEW w \in Worker, Stop(w) \/ Crash(w)
       PROVE  \A s \in Seqs : s < seq' => Reached(s)'
  BY <1>4, <1>14 DEF Stop, Crash
<1>15. CASE Exited
  BY <1>4, <1>15 DEF Exited
<1>16. QED
  BY <1>6, <1>7, <1>8, <1>9, <1>10, <1>11, <1>12, <1>13, <1>14, <1>15
     DEF Next, Macrotask, WorkerEvent, WorkerThread, WorkerProgress

\* The thread of the primary takes the oldest request, so no write overtakes one.
LEMMA WritesStep ==
  ASSUME TypeOK, PoolInv, LifeInv, WritesInv, Next
  PROVE  WritesInv'
<1> USE Bounds
<1>1. TypeOK' /\ HistoryKept /\ seq \in Nat /\ seq' \in Nat
  <2>1. TypeOK' /\ HistoryKept
    BY TypeStep, HistoryStep
  <2>2. seq \in Nat
    BY DEF TypeOK
  <2>3. seq' \in Nat
    BY <2>1 DEF TypeOK
  <2>4. QED  BY <2>1, <2>2, <2>3
<1>2. ASSUME NEW s \in Seqs, s < seq', kind'[s] = "write"
      PROVE  target'[s] = Primary
  <2>1. CASE s < seq
    BY <1>1, <1>2, <2>1 DEF HistoryKept, WritesInv
  <2>2. CASE ~(s < seq)
    <3>1. \A lo, hi, k : Issues(lo, hi, k) => kind'[s] = k /\ target'[s] = s - seq + lo
                                             /\ s - seq + lo >= lo /\ s - seq + lo <= hi
      BY <1>1, <1>2, <2>2 DEF Issues
    <3>2. seq' # seq
      BY <1>1, <1>2, <2>2
    <3>3. PICK w \in Worker, k \in Kind : CallSent(w, k) /\ k = "write"
      <4>1. CASE InitDone \/ InitFail \/ \E c \in Closers : TerminateWorkers(c) \/ CloseFinish(c)
        BY <3>2, <4>1 DEF InitDone, InitFail, TerminateWorkers, CloseFinish, Abandon, Settle
      <4>2. CASE \E c \in Closers : CloseSQL(c) /\ pool = {}
        BY <3>2, <4>2 DEF CloseSQL
      <4>3. QED
        BY <1>2, <3>1, <3>2, <4>1, <4>2, LifeMovesOrRests DEF LifeMoves, LifeRests, CallSent
    <3>4. w = Primary /\ Issues(w, w, k)
      BY <3>3 DEF CallSent
    <3>5. target'[s] >= w /\ target'[s] <= w /\ target'[s] \in Worker
      BY <1>1, <3>1, <3>4 DEF TypeOK
    <3>6. QED  BY <3>4, <3>5
  <2>3. QED  BY <2>1, <2>2
<1>3. WritesInOrder'
  <2> SUFFICES ASSUME NEW s \in Seqs, NEW t \in Seqs, s < t, t < seq', kind'[s] = "write",
                      kind'[t] = "write", reply'[t] # "none", outcome'[s] # "error"
               PROVE  reply'[s] # "none"
    BY DEF WritesInOrder
  <2>1. CASE UNCHANGED <<reply, db>>
    <3>1. t < seq /\ s < seq
      BY <1>1, <2>1 DEF PoolInv, Unissued
    <3>2. kind[s] = "write" /\ kind[t] = "write" /\ outcome[s] # "error"
      BY <1>1, <3>1 DEF HistoryKept, Settled
    <3>3. QED  BY <2>1, <3>1, <3>2 DEF WritesInv, WritesInOrder
  <2>2. ASSUME NEW w \in Worker, NEW u \in Seqs, WorkerStep(w, u)
        PROVE  reply'[s] # "none"
    <3>1. /\ UNCHANGED <<seq, kind, outcome>> /\ thread[w] = "running" /\ IsOldest(u, inbox[w])
          /\ reply'[u] # "none" /\ \A v \in Seqs : v # u => reply'[v] = reply[v]
      BY <2>2 DEF WorkerStep, WorkerOk, WorkerError, TypeOK
    <3>2. CASE t # u
      BY <1>1, <3>1, <3>2 DEF WritesInv, WritesInOrder
    <3>3. CASE t = u
      <4>1. target[t] = w /\ target[s] = w /\ Reached(s)
        BY <1>1, <3>1, <3>3 DEF WritesInv, IsOldest, PoolInv, InboxNotRun
      <4>2. s \notin inbox[w]
        BY <3>1, <3>3 DEF IsOldest
      <4>3. reply[s] # "none"
        BY <3>1, <4>1, <4>2 DEF Reached
      <4>4. QED  BY <3>1, <3>3, <4>3
    <3>4. QED  BY <3>2, <3>3
  <2>3. QED  BY <2>1, <2>2, AnswersStep
<1>4. \A s \in Seqs : s < seq' => Reached(s)'
  BY ReachedStep
<1>5. QED  BY <1>2, <1>3, <1>4 DEF WritesInv

\* The primary runs the writes in the order sqlCall handed them out: what times out,
\* is lost or is answered late may leave a gap only at the end.
THEOREM WritesStayInOrder == Spec => []WritesInOrder
<1>1. Init => WritesInv
  BY Bounds DEF Init, WritesInv, WritesInOrder
<1>2. TypeOK /\ PoolInv /\ LifeInv /\ WritesInv /\ [Next]_vars => WritesInv'
  <2>1. ASSUME WritesInv, UNCHANGED vars PROVE WritesInv'
    BY <2>1 DEF WritesInv, WritesInOrder, Reached
  <2>2. QED  BY <2>1, WritesStep
<1>3. WritesInv => WritesInOrder
  BY DEF WritesInv
<1>4. QED  BY <1>1, <1>2, <1>3, LifeInvariant, PTL DEF Spec

-----------------------------------------------------------------------------
(* The bookkeeping: load counts the unsettled calls, and close leaves nothing. *)

Counted(w) == {s \in pending : kind[s] \in Calls /\ target[s] = w}

\* What the counters count is finite.
LEMMA CountedFinite ==
  ASSUME TypeOK, NEW w
  PROVE  IsFiniteSet(Counted(w)) /\ Cardinality(Counted(w)) \in Nat
<1>1. IsFiniteSet(Seqs)
  BY FS_Interval, Bounds
<1>2. Counted(w) \subseteq Seqs
  BY DEF TypeOK, Counted
<1>3. QED  BY <1>1, <1>2, FS_Subset, FS_CardinalityType

\* Settling takes from the counters what it takes from the map.
LEMMA SettleCounts ==
  ASSUME TypeOK, LoadCountsCalls, NEW S \in SUBSET pending, NEW how, Settle(S, how)
  PROVE  LoadCountsCalls'
<1> SUFFICES ASSUME NEW w \in Worker PROVE load'[w] = Cardinality(Counted(w)')
  BY DEF LoadCountsCalls, Counted
<1> DEFINE back == {s \in S : kind[s] \in Calls /\ target[s] = w}
<1>1. Counted(w)' = Counted(w) \ back /\ Counted(w) \cap back = back
  BY DEF Settle, Counted
<1>2. Cardinality(Counted(w)') = Cardinality(Counted(w)) - Cardinality(back)
  BY <1>1, CountedFinite, FS_Difference
<1>3. load'[w] = load[w] - Cardinality(back)
  BY DEF Settle, Returned
<1>4. QED  BY <1>2, <1>3 DEF LoadCountsCalls, Counted

\* What send() posts is new to the map, and what was in the map stays as it was.
LEMMA SendCounts ==
  ASSUME TypeOK, PoolInv, HistoryKept, NEW lo \in Worker, NEW hi \in Worker, lo <= hi,
         NEW k \in Kind, Send(lo, hi, k), NEW w \in Worker
  PROVE  /\ k \notin Calls => Counted(w)' = Counted(w)
         /\ lo = hi /\ k \in Calls =>
              Counted(w)' = IF w = lo THEN Counted(w) \cup {seq} ELSE Counted(w)
         /\ seq \notin Counted(w)
<1> USE Bounds
<1>1. seq \in Nat /\ lo \in Nat /\ hi \in Nat
  BY DEF TypeOK
<1>2. /\ lo = hi => seq .. (seq + hi - lo) = {seq}
      /\ \A s \in seq .. (seq + hi - lo) : s \in Seqs /\ ~(s < seq)
  BY DEF Send, TypeOK
<1>3. \A s \in pending : s < seq /\ kind'[s] = kind[s] /\ target'[s] = target[s]
  BY <1>2 DEF PoolInv, PendingIsWaiting, Unissued, HistoryKept, TypeOK
<1>4. \A s \in seq .. (seq + hi - lo) : kind'[s] = k /\ target'[s] = s - seq + lo
  BY <1>2 DEF Send
<1>5. pending' = pending \cup seq .. (seq + hi - lo)
  BY DEF Send
<1>6. k \notin Calls => Counted(w)' = Counted(w)
  BY <1>3, <1>4, <1>5 DEF Counted
<1>7. ASSUME lo = hi, k \in Calls
      PROVE  Counted(w)' = IF w = lo THEN Counted(w) \cup {seq} ELSE Counted(w)
  <2>1. pending' = pending \cup {seq} /\ kind'[seq] = k /\ target'[seq] = lo
    <3>1. seq .. (seq + hi - lo) = {seq}
      BY <1>2, <1>7
    <3>2. seq - seq + lo = lo
      BY <1>1
    <3>3. kind'[seq] = k /\ target'[seq] = seq - seq + lo
      BY <1>4, <3>1
    <3>4. QED  BY <1>5, <3>1, <3>2, <3>3
  <2>2. QED  BY <1>3, <1>7, <2>1 DEF Counted
<1>8. seq \notin Counted(w)
  <2>1. seq \in pending => seq < seq
    BY <1>3
  <2>2. ~(seq < seq)
    BY <1>1
  <2>3. QED  BY <2>1, <2>2 DEF Counted
<1>9. QED  BY <1>6, <1>7, <1>8

\* Every action keeps the counters right: one up for a call, one down per call settled.
LEMMA LoadStep ==
  ASSUME TypeOK, PoolInv, LoadCountsCalls, Next
  PROVE  LoadCountsCalls'
<1> USE Bounds
<1>1. /\ Primary \in Worker /\ 1 \in Worker /\ WorkerCount - 1 \in Worker
      /\ 1 <= WorkerCount - 1 /\ \A w \in Worker : w <= w
      /\ {"init", "close", "walCheckpoint"} \subseteq Kind
      /\ "init" \notin Calls /\ "close" \notin Calls /\ "walCheckpoint" \notin Calls
  BY DEF Kind, Calls
<1>2. HistoryKept
  BY HistoryStep
<1>3. ASSUME NEW lo \in Worker, NEW hi \in Worker, lo <= hi, NEW k \in Kind, k \notin Calls,
             Send(lo, hi, k), load' = load
      PROVE  LoadCountsCalls'
  <2>1. \A w \in Worker : Counted(w)' = Counted(w)
    BY <1>2, <1>3, SendCounts
  <2>2. QED  BY <1>3, <2>1 DEF LoadCountsCalls, Counted
<1>4. ASSUME UNCHANGED <<pending, kind, target, load>>
      PROVE  LoadCountsCalls'
  BY <1>4 DEF LoadCountsCalls
<1>5. CASE StartInit \/ InitRest \/ WalCheckpoint
  BY <1>1, <1>3, <1>4, <1>5 DEF StartInit, InitRest, WalCheckpoint
<1>6. CASE InitDone \/ InitFail \/ ExitAfterInitFailed \/ ExitAfterShutdown \/ Exited
  BY <1>4, <1>6 DEF InitDone, InitFail, ExitAfterInitFailed, ExitAfterShutdown, Exited
<1>7. ASSUME NEW a \in Calls, NEW w \in Worker, SqlCall(a, w)
      PROVE  LoadCountsCalls'
  <2>1. /\ a \in Kind /\ Send(w, w, a) /\ w <= w
        /\ load' = [load EXCEPT ![w] = @ + 1]
    BY <1>7 DEF SqlCall, Calls, Kind
  <2> SUFFICES ASSUME NEW v \in Worker PROVE load'[v] = Cardinality(Counted(v)')
    BY DEF LoadCountsCalls, Counted
  <2>2. /\ Counted(v)' = IF v = w THEN Counted(v) \cup {seq} ELSE Counted(v)
        /\ seq \notin Counted(v)
    BY <1>2, <2>1, SendCounts
  <2>3. load[v] = Cardinality(Counted(v)) /\ load[v] \in Int
    BY DEF LoadCountsCalls, Counted, TypeOK
  <2>4. CASE v = w
    <3>1. Cardinality(Counted(v) \cup {seq}) = Cardinality(Counted(v)) + 1
      BY <2>2, CountedFinite, FS_AddElement
    <3>2. load'[v] = load[v] + 1
      BY <2>1, <2>4 DEF TypeOK
    <3>3. QED  BY <2>2, <2>3, <2>4, <3>1, <3>2
  <2>5. CASE v # w
    BY <2>1, <2>2, <2>3, <2>5 DEF TypeOK
  <2>6. QED  BY <2>4, <2>5
<1>8. ASSUME NEW a \in Calls, NEW w \in Worker, SqlCallUnposted(a, w)
      PROVE  LoadCountsCalls'
  <2>1. UNCHANGED <<pending, load>>
    BY <1>8 DEF SqlCallUnposted
  <2>2. \A s \in pending : kind'[s] = kind[s] /\ target'[s] = target[s]
    BY <1>2 DEF PoolInv, PendingIsWaiting, Unissued, HistoryKept, TypeOK
  <2>3. \A v \in Worker : Counted(v)' = Counted(v)
    BY <2>1, <2>2 DEF Counted
  <2>4. QED  BY <2>1, <2>3 DEF LoadCountsCalls, Counted
<1>9. ASSUME NEW w \in Worker, NEW s \in Seqs, Deliver(w, s) \/ Timeout(s)
      PROVE  LoadCountsCalls'
  BY <1>9, SettleCounts DEF Deliver, TakeAnswer, Timeout
<1>10. ASSUME NEW w \in Worker, ErrorEvent(w) \/ ExitEvent(w)
       PROVE  LoadCountsCalls'
  BY <1>10, SettleCounts DEF ErrorEvent, ExitEvent, FailAll, Abandon
<1>11. ASSUME NEW c \in Closers, CloseSQL(c) \/ ClosePrimary(c)
       PROVE  LoadCountsCalls'
  BY <1>1, <1>3, <1>4, <1>11 DEF CloseSQL, ClosePrimary
<1>12. ASSUME NEW c \in Closers, TerminateWorkers(c)
       PROVE  LoadCountsCalls'
  BY <1>4, <1>12 DEF TerminateWorkers
<1>13. ASSUME NEW c \in Closers, CloseFinish(c)
       PROVE  LoadCountsCalls'
  BY <1>13, SettleCounts DEF CloseFinish, Abandon
<1>14. ASSUME NEW w \in Worker, Stop(w) \/ Crash(w) \/ \E s \in Seqs : WorkerStep(w, s)
       PROVE  LoadCountsCalls'
  BY <1>4, <1>14 DEF WorkerStep, Stop, Crash
<1>15. CASE Microtask
  BY <1>5, <1>6, <1>11, <1>12, <1>13, <1>15 DEF Microtask
<1>16. CASE Macrotask
  BY <1>1, <1>5, <1>7, <1>8, <1>9, <1>10, <1>11, <1>16 DEF Macrotask, WorkerEvent
<1>17. CASE WorkerThread
  BY <1>14, <1>17 DEF WorkerThread, WorkerProgress
<1>18. QED  BY <1>6, <1>15, <1>16, <1>17 DEF Next

-----------------------------------------------------------------------------
(* The end: what closeSQL leaves, and what the process exits with. *)

DoneLeavesNothing == \A c \in Closers : closePc[c] = "done" => pending = {}

\* After the closeSQL that did the work, nothing is handed out any more.
LEMMA DoneStep ==
  ASSUME TypeOK, PoolInv, LifeInv, DoneLeavesNothing, Next
  PROVE  DoneLeavesNothing'
<1> USE DEF DoneLeavesNothing, LifeInv, ControlInv, NotStarted, CloserEmptiesPool, OneCloser, Closing
<1>1. CASE LifeRests
  BY <1>1 DEF LifeRests
<1>2. CASE StartInit \/ InitRest
  BY <1>2 DEF StartInit, InitRest, PoolEmptied
<1>3. CASE InitDone \/ InitFail
  BY <1>3 DEF InitDone, InitFail
<1>4. ASSUME NEW w \in Worker, NEW k \in Kind, CallSent(w, k)
      PROVE  DoneLeavesNothing'
  BY <1>4 DEF CallSent
<1>5. ASSUME NEW c \in Closers, CloseSQL(c)
      PROVE  DoneLeavesNothing'
  BY <1>5 DEF CloseSQL, TypeOK
<1>6. ASSUME NEW c \in Closers, ClosePrimary(c)
      PROVE  DoneLeavesNothing'
  BY <1>6 DEF ClosePrimary, RestClosed, TypeOK
<1>7. ASSUME NEW c \in Closers, TerminateWorkers(c)
      PROVE  DoneLeavesNothing'
  BY <1>7 DEF TerminateWorkers, TypeOK
<1>8. ASSUME NEW c \in Closers, CloseFinish(c)
      PROVE  DoneLeavesNothing'
  BY <1>8 DEF CloseFinish, Abandon, Settle
<1>9. QED
  BY <1>1, <1>2, <1>3, <1>4, <1>5, <1>6, <1>7, <1>8, LifeMovesOrRests DEF LifeMoves

\* pending, entry.seqs and entry.load agree at every moment, and the close that did
\* the work leaves no promise behind.
THEOREM BooksBalance == Spec => []Bookkeeping
<1>1. Init => LoadCountsCalls /\ DoneLeavesNothing
  <2> SUFFICES ASSUME Init PROVE LoadCountsCalls /\ DoneLeavesNothing
    OBVIOUS
  <2>1. \A w : {s \in pending : kind[s] \in Calls /\ target[s] = w} = {}
    BY DEF Init
  <2>2. QED  BY <2>1, FS_EmptySet DEF Init, LoadCountsCalls, DoneLeavesNothing
<1>2. TypeOK /\ PoolInv /\ LifeInv /\ LoadCountsCalls /\ DoneLeavesNothing /\ [Next]_vars
        => LoadCountsCalls' /\ DoneLeavesNothing'
  BY LoadStep, DoneStep DEF LoadCountsCalls, DoneLeavesNothing
<1>3. TypeOK /\ PoolInv /\ LoadCountsCalls /\ DoneLeavesNothing => Bookkeeping
  BY DEF PoolInv, PendingIsWaiting, DoneLeavesNothing, Bookkeeping, NothingPendingAfterClose
<1>4. QED  BY <1>1, <1>2, <1>3, LifeInvariant, PTL DEF Spec

\* No thread runs before initializeSQL, nor once the workers are known to be gone.
IdleThreads == initPc = "idle" => AllGone

DoneThreads == \A c \in Closers : closePc[c] = "done" => AllGone

\* `pool` is empty only before initializeSQL, after its failure, or in a close.
EmptyPool == pool = {} => initPc \in {"idle", "terminating"} \/ \E c \in Closers : Closing(c)

\* closeSQL of shutdown returns at once only in one of these three cases.
SkippedClose ==
  \A c \in Closers : c = "shutdown" /\ closePc[c] = "skipped" =>
    initPc \in {"idle", "terminating"} \/ \E d \in Closers : d # c /\ Closing(d)

ExitedGone ==
  exited => AllGone \/ \E c \in Closers : c = "shutdown" /\ closePc[c] = "skipped"

EndInv == IdleThreads /\ DoneThreads /\ EmptyPool /\ SkippedClose /\ ExitedGone

\* Whoever is gone stays gone, once initializeSQL has started the workers.
LEMMA GoneStep ==
  ASSUME TypeOK, LifeInv, Next, AllGone, initPc # "idle" \/ initPc' = "idle"
  PROVE  AllGone'
BY ThreadStep DEF AllGone

\* No step leaves a thread running while initializeSQL has not begun.
LEMMA IdleThreadsStep ==
  ASSUME TypeOK, LifeInv, EndInv, Next
  PROVE  IdleThreads'
<1> SUFFICES ASSUME initPc' = "idle" PROVE AllGone'
  BY DEF IdleThreads
<1>1. initPc = "idle"
  BY LifeMovesOrRests DEF LifeMoves, LifeRests, StartInit, InitRest, InitDone, InitFail, CallSent,
     CloseSQL, ClosePrimary, TerminateWorkers, CloseFinish
<1>2. QED  BY <1>1, GoneStep DEF EndInv, IdleThreads

\* No step leaves a thread running after a close that is done.
LEMMA DoneThreadsStep ==
  ASSUME TypeOK, LifeInv, EndInv, Next
  PROVE  DoneThreads'
<1> SUFFICES ASSUME NEW c \in Closers, closePc'[c] = "done" PROVE AllGone'
  BY DEF DoneThreads
<1>1. CASE closePc[c] = "done"
  BY <1>1, GoneStep DEF EndInv, DoneThreads, LifeInv, ControlInv, NotStarted, Closing
<1>2. CASE closePc[c] # "done"
  <2>1. CloseFinish(c)
    BY ZenonT(60), <1>2, LifeMovesOrRests DEF TypeOK, LifeMoves, LifeRests, StartInit, InitRest, InitDone,
       InitFail, CallSent, CloseSQL, ClosePrimary, TerminateWorkers, CloseFinish
  <2>2. QED  BY <2>1 DEF CloseFinish, Terminated, AllGone
<1>3. QED  BY <1>1, <1>2

\* A close never ends being one, and initializeSQL does not start behind a skipped one.
LEMMA SkippedStep ==
  ASSUME TypeOK, LifeInv, EndInv, Next
  PROVE  EmptyPool' /\ SkippedClose'
<1> USE DEF EndInv, EmptyPool, SkippedClose, Closing
<1>1. CASE LifeRests
  BY <1>1 DEF LifeRests
<1>2. CASE StartInit /\ ~MicrotaskReady
  <2>1. pool' # {}
    <3>1. Primary \in Worker
      BY Bounds
    <3>2. QED  BY <1>2, <3>1 DEF StartInit
  <2>2. ~\E c \in Closers : c = "shutdown" /\ closePc'[c] = "skipped"
    BY <1>2 DEF StartInit, MicrotaskReady, ShutdownReturned
  <2>3. QED  BY <2>1, <2>2
<1>3. CASE InitRest \/ InitDone \/ InitFail
  BY <1>3 DEF InitRest, InitDone, InitFail, PoolEmptied, PrimaryAnswered, RestAnswered, InitRefused
<1>4. ASSUME NEW w \in Worker, NEW k \in Kind, CallSent(w, k)
      PROVE  EmptyPool' /\ SkippedClose'
  BY <1>4 DEF CallSent
<1>5. ASSUME NEW c \in Closers, CloseSQL(c)
      PROVE  EmptyPool' /\ SkippedClose'
  BY <1>5 DEF CloseSQL, TypeOK
<1>6. ASSUME NEW c \in Closers, ClosePrimary(c) \/ TerminateWorkers(c) \/ CloseFinish(c)
      PROVE  EmptyPool' /\ SkippedClose'
  <2>1. /\ UNCHANGED <<pool, initPc>> /\ Closing(c)
        /\ \E to \in {"primary", "terminating", "done"} : closePc' = [closePc EXCEPT ![c] = to]
    BY <1>6 DEF ClosePrimary, RestClosed, TerminateWorkers, PrimaryClosed, CloseFinish, Terminated
  <2>2. QED  BY <2>1 DEF TypeOK
<1>7. QED
  BY <1>1, <1>2, <1>3, <1>4, <1>5, <1>6, LifeMovesOrRests DEF LifeMoves

\* The process exits with the threads gone, or after a close that was skipped.
LEMMA ExitedStep ==
  ASSUME TypeOK, EndInv, Next
  PROVE  ExitedGone'
<1>1. CASE exited
  <2>1. UNCHANGED vars
    BY <1>1 DEF Next, Exited
  <2>2. QED  BY <2>1 DEF EndInv, ExitedGone, AllGone
<1>2. CASE ~exited /\ exited'
  <2>1. ExitAfterInitFailed \/ ExitAfterShutdown
    <3>1. CASE Microtask
      BY <1>2, <3>1 DEF Microtask, InitRest, InitDone, InitFail, ClosePrimary, TerminateWorkers,
         CloseFinish
    <3>2. CASE Macrotask
      BY <1>2, <3>2 DEF Macrotask, StartInit, WalCheckpoint, SqlCall, SqlCallUnposted,
         WorkerEvent, ErrorEvent, ExitEvent, Deliver, TakeAnswer, Timeout, CloseSQL
    <3>3. CASE WorkerThread
      BY <1>2, <3>3 DEF WorkerThread, WorkerProgress, Stop, Crash, WorkerStep
    <3>4. QED  BY <1>2, <3>1, <3>2, <3>3 DEF Next, Exited
  <2>2. CASE ExitAfterInitFailed
    BY <2>2 DEF ExitAfterInitFailed, InitFailed, ExitedGone, AllGone
  <2>3. CASE ExitAfterShutdown
    BY <2>3 DEF ExitAfterShutdown, ShutdownReturned, EndInv, DoneThreads, ExitedGone, AllGone
  <2>4. QED  BY <2>1, <2>2, <2>3
<1>3. CASE ~exited'
  BY <1>3 DEF ExitedGone
<1>4. QED  BY <1>1, <1>2, <1>3

\* The invariant of the pool's end holds throughout.
LEMMA EndInvariant == Spec => [](TypeOK /\ PoolInv /\ LifeInv /\ EndInv)
<1>1. Init => EndInv
  BY DEF Init, EndInv, IdleThreads, DoneThreads, EmptyPool, SkippedClose, ExitedGone, AllGone
<1>2. TypeOK /\ LifeInv /\ EndInv /\ [Next]_vars => EndInv'
  <2>1. ASSUME EndInv, UNCHANGED vars PROVE EndInv'
    BY <2>1 DEF EndInv, IdleThreads, DoneThreads, EmptyPool, SkippedClose, ExitedGone, AllGone,
       Closing
  <2>2. ASSUME TypeOK, LifeInv, EndInv, Next PROVE EndInv'
    BY <2>2, IdleThreadsStep, DoneThreadsStep, SkippedStep, ExitedStep DEF EndInv
  <2>3. QED  BY <2>1, <2>2
<1>3. QED  BY <1>1, <1>2, LifeInvariant, PTL DEF Spec

\* For every environment and every number of workers: calls follow inits, nothing
\* follows a close, the primary closes last, and the database is open at exit only
\* after a failed start or under the close of somebody else.
THEOREM LifeStaysInOrder == Spec => []LifeInOrder
<1>1. Init => ClosedWasAsked
  BY Bounds DEF Init, ClosedWasAsked
<1>2. TypeOK /\ PoolInv /\ LifeInv /\ ClosedWasAsked /\ [Next]_vars => ClosedWasAsked'
  <2>1. ASSUME ClosedWasAsked, UNCHANGED vars PROVE ClosedWasAsked'
    BY <2>1 DEF ClosedWasAsked, Asked, Issued
  <2>2. QED  BY <2>1, ClosedStep
<1>3. ASSUME TypeOK, LifeInv, EndInv, ClosedWasAsked
      PROVE  LifeInOrder
  <2>1. CallsNeedInit /\ CloseIsLast
    BY <1>3 DEF LifeInv, AskedInv
  <2>2. PrimaryClosesLast
    <3> SUFFICES ASSUME db[Primary] = "closed", NEW w \in Rest
                 PROVE  \E s \in Sent("close", {w}) : outcome[s] \in Settled
      BY DEF PrimaryClosesLast
    <3>1. Answered("close", w)
      BY <1>3 DEF ClosedWasAsked, LifeInv, AskedInv, RestAnsweredFirst
    <3>2. QED  BY <3>1 DEF Answered, Issued, Sent
  <2>3. ExitsOpenOnlyMidway
    <3> SUFFICES ASSUME exited, NEW w \in Worker, thread[w] = "running", initPc # "terminating"
                 PROVE  \E c \in Closers : /\ c # "shutdown"
                                          /\ closePc[c] \in {"rest", "primary", "terminating"}
      BY DEF ExitsOpenOnlyMidway
    <3>1. ~AllGone
      BY DEF AllGone
    <3>2. PICK c \in Closers : c = "shutdown" /\ closePc[c] = "skipped"
      BY <1>3, <3>1 DEF EndInv, ExitedGone
    <3>3. initPc # "idle"
      BY <1>3, <3>1 DEF EndInv, IdleThreads
    <3>4. PICK d \in Closers : d # c /\ Closing(d)
      BY <1>3, <3>2, <3>3 DEF EndInv, SkippedClose
    <3>5. closePc[d] # "done"
      BY <1>3, <3>1 DEF EndInv, DoneThreads
    <3>6. QED  BY <3>2, <3>4, <3>5 DEF Closing
  <2>4. QED  BY <2>1, <2>2, <2>3 DEF LifeInOrder
<1>4. QED  BY <1>1, <1>2, <1>3, EndInvariant, PTL DEF Spec

-----------------------------------------------------------------------------
(* With one closer, and a start that no fault touches, the exit is clean. *)

HealthyStart ==
  "init" \notin Failing /\ MaxCrashes = 0 /\ MaxTimeouts = 0 /\ "remove-db" \notin Closers

NobodyCloses == \A c \in Closers : ~Closing(c)

NoFaultLeft == crashes = 0 /\ timeouts = 0

\* The answer to an init is never a refusal, and a posted answer is one.
InitAnswers ==
  /\ \A s \in Seqs : s < seq /\ kind[s] = "init" => reply[s] # "error"
  /\ \A w \in Worker : \A s \in outbox[w] : reply[s] # "none"

\* Before a close, every worker that was started runs and no init has failed.
HealthyWorkers ==
  NobodyCloses =>
    /\ ~terminating
    /\ initPc # "terminating"
    /\ \A w \in Worker : thread[w] \in {"none", "running"}
    /\ \A s \in Seqs : s < seq /\ kind[s] = "init" => outcome[s] \in {"waiting", "ok"}

HealthyInv == NoFaultLeft /\ InitAnswers /\ HealthyWorkers

\* Without a fault left none comes.
LEMMA NoFaultStep ==
  ASSUME NoFaultLeft, Next
  PROVE  NoFaultLeft'
<1> USE DEF NoFaultLeft
<1>1. CASE Microtask
  BY <1>1 DEF Microtask, InitRest, InitDone, InitFail, ExitAfterInitFailed, ExitAfterShutdown,
     ClosePrimary, TerminateWorkers, CloseFinish
<1>2. CASE Macrotask
  <2>1. ASSUME NEW s \in Seqs, Timeout(s) PROVE NoFaultLeft'
    BY <2>1 DEF Timeout, MayExpire
  <2>2. QED
    BY <1>2, <2>1 DEF Macrotask, StartInit, WalCheckpoint, SqlCall, SqlCallUnposted, WorkerEvent,
       ErrorEvent, ExitEvent, Deliver, TakeAnswer, CloseSQL
<1>3. CASE WorkerThread
  BY <1>3 DEF WorkerThread, WorkerProgress, Stop, Crash, WorkerStep
<1>4. CASE Exited
  BY <1>4 DEF Exited
<1>5. QED  BY <1>1, <1>2, <1>3, <1>4 DEF Next

\* A close goes on being one until the process exits.
LEMMA ClosingKept ==
  ASSUME TypeOK, Next, NEW c \in Closers, Closing(c)
  PROVE  Closing(c)'
BY LifeMovesOrRests DEF TypeOK, Closing, LifeMoves, LifeRests, StartInit, InitRest, InitDone,
   InitFail, CallSent, CloseSQL, ClosePrimary, TerminateWorkers, CloseFinish

\* In a healthy start no init is answered with an error.
LEMMA InitAnswersStep ==
  ASSUME TypeOK, PoolInv, InitAnswers, HealthyStart, Next
  PROVE  InitAnswers'
<1>1. ASSUME NEW w \in Worker, NEW s \in Seqs, WorkerStep(w, s)
      PROVE  InitAnswers'
  <2>1. /\ UNCHANGED <<seq, kind>> /\ outbox' = [outbox EXCEPT ![w] = @ \cup {s}]
        /\ reply'[s] # "none" /\ (kind[s] = "init" => reply'[s] # "error")
        /\ \A t \in Seqs : t # s => reply'[t] = reply[t]
    BY <1>1 DEF WorkerStep, WorkerOk, WorkerError, HealthyStart, TypeOK
  <2>2. \A v \in Worker : outbox[v] \subseteq Seqs
    BY DEF TypeOK
  <2>3. QED  BY <2>1, <2>2 DEF InitAnswers, TypeOK
<1>2. CASE reply' = reply
  <2>1. \A w \in Worker : outbox'[w] \subseteq outbox[w]
    <3>1. CASE Microtask
      BY <3>1 DEF Microtask, InitRest, InitDone, InitFail, ExitAfterInitFailed,
         ExitAfterShutdown, ClosePrimary, TerminateWorkers, CloseFinish, Send
    <3>2. CASE Macrotask
      <4>1. ASSUME NEW w \in Worker, NEW s \in Seqs, Deliver(w, s)
            PROVE  \A v \in Worker : outbox'[v] \subseteq outbox[v]
        BY <4>1 DEF Deliver, TakeAnswer, TypeOK
      <4>2. QED
        BY <3>2, <4>1 DEF Macrotask, StartInit, WalCheckpoint, SqlCall, SqlCallUnposted,
           WorkerEvent, ErrorEvent, ExitEvent, Timeout, CloseSQL, Send
    <3>3. CASE WorkerThread
      <4>1. ASSUME NEW w \in Worker, NEW s \in Seqs, WorkerStep(w, s)
            PROVE  FALSE
        <5>1. reply[s] = "none"
          BY <4>1 DEF WorkerStep, IsOldest, PoolInv, InboxNotRun
        <5>2. reply'[s] # "none"
          BY <4>1 DEF WorkerStep, WorkerOk, WorkerError, TypeOK
        <5>3. QED  BY <1>2, <5>1, <5>2
      <4>2. QED  BY <3>3, <4>1 DEF WorkerThread, WorkerProgress, Stop, Crash
    <3>4. CASE Exited
      BY <3>4 DEF Exited
    <3>5. QED  BY <3>1, <3>2, <3>3, <3>4 DEF Next
  <2>2. \A s \in Seqs : s < seq' /\ kind'[s] = "init" => reply[s] # "error"
    <3>1. ASSUME NEW s \in Seqs, s < seq', kind'[s] = "init" PROVE reply[s] # "error"
      <4>1. CASE s < seq
        BY <3>1, <4>1, HistoryStep DEF HistoryKept, InitAnswers
      <4>2. CASE ~(s < seq)
        BY <4>2 DEF PoolInv, Unissued, TypeOK
      <4>3. QED  BY <4>1, <4>2
    <3>2. QED  BY <3>1
  <2>3. QED  BY <1>2, <2>1, <2>2 DEF InitAnswers
<1>3. QED  BY <1>1, <1>2, AnswersStep

\* In a healthy start the workers keep running and no init fails, until a close begins.
LEMMA HealthyWorkersStep ==
  ASSUME TypeOK, PoolInv, LifeInv, HealthyInv, HealthyStart, Next
  PROVE  HealthyWorkers'
<1> USE Bounds
<1> DEFINE Healthy == /\ ~terminating'
                      /\ initPc' # "terminating"
                      /\ \A w \in Worker : thread'[w] \in {"none", "running"}
                      /\ \A s \in Seqs : s < seq' /\ kind'[s] = "init" =>
                           outcome'[s] \in {"waiting", "ok"}
<1> SUFFICES ASSUME NobodyCloses' PROVE Healthy
  BY DEF HealthyWorkers
<1>1. /\ NobodyCloses /\ HistoryKept
      /\ Primary \in Worker /\ 1 \in Worker /\ WorkerCount - 1 \in Worker /\ 1 <= WorkerCount - 1
      /\ \A w \in Worker : w <= w
  BY ClosingKept, HistoryStep DEF NobodyCloses
<1>2. /\ ~terminating /\ initPc # "terminating"
      /\ \A w \in Worker : thread[w] \in {"none", "running"}
      /\ \A s \in Seqs : s < seq /\ kind[s] = "init" => outcome[s] \in {"waiting", "ok"}
  BY <1>1 DEF HealthyInv, HealthyWorkers
<1>3. \A c \in Closers : ~(ClosePrimary(c) \/ TerminateWorkers(c) \/ CloseFinish(c))
  BY <1>1 DEF NobodyCloses, Closing, ClosePrimary, RestClosed, TerminateWorkers, PrimaryClosed,
     CloseFinish, Terminated
<1>4. ASSUME NEW lo \in Worker, NEW hi \in Worker, lo <= hi, NEW k, Send(lo, hi, k)
      PROVE  \A s \in Seqs : s < seq' /\ kind'[s] = "init" => outcome'[s] \in {"waiting", "ok"}
  <2> SUFFICES ASSUME NEW s \in Seqs, s < seq', kind'[s] = "init"
               PROVE  outcome'[s] \in {"waiting", "ok"}
    OBVIOUS
  <2>1. CASE s \in seq .. (seq + hi - lo)
    BY <1>4, <2>1 DEF Send
  <2>2. CASE s \notin seq .. (seq + hi - lo)
    <3>1. s < seq
      BY <1>4, <2>2 DEF Send, TypeOK
    <3>2. QED  BY <1>2, <1>4, <2>2, <3>1 DEF Send
  <2>3. QED  BY <2>1, <2>2
<1>5. CASE StartInit \/ InitRest \/ WalCheckpoint
  <2>1. \/ \E lo, hi \in Worker, k \in Kind : lo <= hi /\ Send(lo, hi, k)
        \/ UNCHANGED <<seq, kind, outcome>>
    BY <1>1, <1>5 DEF Kind, StartInit, InitRest, WalCheckpoint
  <2>2. /\ terminating' = terminating /\ initPc' # "terminating"
        /\ \A w \in Worker : thread'[w] \in {"none", "running"}
    BY <1>2, <1>5 DEF StartInit, InitRest, WalCheckpoint
  <2>3. QED  BY <1>2, <1>4, <2>1, <2>2
<1>6. CASE InitDone \/ ExitAfterInitFailed \/ ExitAfterShutdown \/ Exited
  BY <1>2, <1>6 DEF InitDone, ExitAfterInitFailed, ExitAfterShutdown, Exited
<1>7. ~InitFail
  <2>1. ASSUME NEW s \in Sent("init", Worker) PROVE outcome[s] \in {"waiting", "ok"}
    BY <1>2 DEF Sent
  <2>2. QED  BY <2>1 DEF InitFail, InitRefused, Settled
<1>8. ASSUME NEW a \in Calls, NEW w \in Worker, SqlCall(a, w)
      PROVE  Healthy
  <2>1. Send(w, w, a) /\ UNCHANGED <<terminating, initPc, thread>>
    BY <1>8 DEF SqlCall
  <2>2. QED  BY <1>1, <1>2, <1>4, <2>1
<1>9. ASSUME NEW a \in Calls, NEW w \in Worker, SqlCallUnposted(a, w)
      PROVE  Healthy
  <2>1. /\ seq \in Nat /\ seq' = seq + 1 /\ kind' = [kind EXCEPT ![seq] = a] /\ a # "init"
        /\ outcome' = [outcome EXCEPT ![seq] = "error"]
        /\ UNCHANGED <<terminating, initPc, thread>>
    BY <1>9 DEF SqlCallUnposted, Calls, TypeOK
  <2>2. QED  BY <1>2, <2>1 DEF TypeOK
<1>10. ASSUME NEW w \in Worker, NEW s \in Seqs, Deliver(w, s)
       PROVE  Healthy
  <2>1. /\ s \in outbox[w] /\ UNCHANGED <<terminating, initPc, thread, seq, kind>>
        /\ outcome' = [t \in Seqs |-> IF t \in {s} \cap pending
                                     THEN IF reply[s] = "ok" THEN "ok" ELSE "error"
                                     ELSE outcome[t]]
    BY <1>10 DEF Deliver, TakeAnswer, IsOldest, Settle
  <2>2. s < seq /\ kind[s] = "init" => reply[s] = "ok"
    BY <2>1 DEF HealthyInv, InitAnswers, TypeOK
  <2>3. \A t \in Seqs : t < seq' /\ kind'[t] = "init" => outcome'[t] \in {"waiting", "ok"}
    BY <1>2, <2>1, <2>2
  <2>4. QED  BY <1>2, <2>1, <2>3
<1>11. ASSUME NEW w \in Worker, ErrorEvent(w) \/ ExitEvent(w) \/ Stop(w) \/ Crash(w)
       PROVE  FALSE
  BY <1>2, <1>11 DEF ErrorEvent, ExitEvent, Stop, Crash, HealthyInv, NoFaultLeft
<1>12. ASSUME NEW s \in Seqs, Timeout(s)
       PROVE  FALSE
  <2>1. thread[target[s]] # "gone"
    BY <1>2 DEF TypeOK
  <2>2. QED  BY <1>12, <2>1 DEF Timeout, MayExpire, HealthyInv, NoFaultLeft
<1>13. ASSUME NEW c \in Closers, CloseSQL(c)
       PROVE  Healthy
  <2>1. pool = {}
    BY <1>13, <1>1 DEF NobodyCloses, Closing, CloseSQL, TypeOK
  <2>2. UNCHANGED <<terminating, initPc, thread, seq, kind, outcome>>
    BY <1>13, <2>1 DEF CloseSQL
  <2>3. QED  BY <1>2, <2>2
<1>14. ASSUME NEW w \in Worker, NEW s \in Seqs, WorkerStep(w, s)
       PROVE  Healthy
  <2>1. s < seq /\ target[s] = w
    BY <1>14 DEF WorkerStep, IsOldest, PoolInv, InboxNotRun, Unissued, TypeOK
  <2>2. kind[s] # "close"
    BY <1>1, <2>1 DEF LifeInv, AskedInv, ClosesHaveCloser, Asked, Issued, NobodyCloses
  <2>3. thread' = thread
    BY <1>14, <2>2 DEF WorkerStep, WorkerOk, WorkerError, TypeOK
  <2>4. UNCHANGED <<terminating, initPc, seq, kind, outcome>>
    BY <1>14 DEF WorkerStep
  <2>5. QED  BY <1>2, <2>3, <2>4
<1>15. CASE Microtask
  BY <1>3, <1>5, <1>6, <1>7, <1>15 DEF Microtask
<1>16. CASE Macrotask
  BY <1>5, <1>8, <1>9, <1>10, <1>11, <1>12, <1>13, <1>16 DEF Macrotask, WorkerEvent
<1>17. CASE WorkerThread
  BY <1>11, <1>14, <1>17 DEF WorkerThread, WorkerProgress
<1>18. QED  BY <1>6, <1>15, <1>16, <1>17 DEF Next

\* With one closer and a start that no fault touches, the process never exits with a
\* database open: what index.node.ts:561-562 asks for.
THEOREM HealthyLifeEnds == ASSUME HealthyStart PROVE Spec => []EndsInOrder
<1>1. Init => HealthyInv
  BY Bounds DEF HealthyStart, Init, HealthyInv, NoFaultLeft, InitAnswers, HealthyWorkers
<1>2. TypeOK /\ PoolInv /\ LifeInv /\ HealthyInv /\ [Next]_vars => HealthyInv'
  <2>1. ASSUME HealthyInv, UNCHANGED vars PROVE HealthyInv'
    BY <2>1 DEF HealthyInv, NoFaultLeft, InitAnswers, HealthyWorkers, NobodyCloses, Closing
  <2>2. ASSUME TypeOK, PoolInv, LifeInv, HealthyInv, Next PROVE HealthyInv'
    BY <2>2, NoFaultStep, InitAnswersStep, HealthyWorkersStep DEF HealthyInv
  <2>3. QED  BY <2>1, <2>2
<1>3. ASSUME TypeOK, EndInv, HealthyInv
      PROVE  ExitsWithDbClosed
  <2> SUFFICES ASSUME exited, NEW w \in Worker, thread[w] = "running" PROVE FALSE
    BY DEF ExitsWithDbClosed
  <2>1. ~AllGone
    BY DEF AllGone
  <2>2. PICK c \in Closers : c = "shutdown" /\ closePc[c] = "skipped"
    BY <1>3, <2>1 DEF EndInv, ExitedGone
  <2>3. Closers = {"shutdown"}
    BY <2>2, PoolAssumption DEF PoolAssumption, HealthyStart
  <2>4. NobodyCloses
    BY <2>2, <2>3 DEF NobodyCloses, Closing
  <2>5. initPc = "idle"
    BY <1>3, <2>2, <2>4 DEF EndInv, SkippedClose, HealthyInv, HealthyWorkers, NobodyCloses
  <2>6. QED  BY <1>3, <2>1, <2>5 DEF EndInv, IdleThreads
<1>4. Spec => []ExitsWithDbClosed
  BY <1>1, <1>2, <1>3, EndInvariant, PTL DEF Spec
<1>5. LifeInOrder /\ ExitsWithDbClosed => EndsInOrder
  BY DEF EndsInOrder
<1>6. QED  BY <1>4, <1>5, LifeStaysInOrder, PTL
=============================================================================
