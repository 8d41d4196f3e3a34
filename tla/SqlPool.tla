------------------------------ MODULE SqlPool ------------------------------
(***************************************************************************)
(* The SQLCipher worker pool of src/server/sql.node.ts: one main thread    *)
(* (the Node event loop of the server) and WorkerCount worker threads that *)
(* each run bundles/workers/sql.js.  A request gets the next sequence      *)
(* number, a promise, a timer and a place in its worker's FIFO port; the   *)
(* promise is settled by the worker's answer, by the timer, by the death   *)
(* of the worker, or by closeSQL.  initializeSQL and closeSQL are async    *)
(* functions whose continuations read the shared `pool` again.             *)
(*                                                                         *)
(* A request is named by its sequence number s.  An answer lives in        *)
(* outbox[w] until the main thread's 'message' handler takes it.  Promise  *)
(* continuations (Microtask) run before the next event-loop task           *)
(* (Macrotask), as in Node; the worker threads run at any time.            *)
(***************************************************************************)
EXTENDS Integers, FiniteSets

CONSTANTS
  WorkerCount,     \* WORKER_COUNT (4 in the code)
  MaxSeq,          \* bound: requests ever sent
  MaxTimeouts,     \* bound: timers that beat a worker still able to answer
  MaxCrashes,      \* bound: workers killed by an uncaught error
  MaxCheckpoints,  \* bound: checkpoint timers outstanding at once
  Failing,         \* the kinds of request a worker with an open database may refuse
  Closers          \* who may call closeSQL: a client's remove-db, a signal's shutdown

Kind   == {"init", "read", "write", "walCheckpoint", "close"}
Calls  == {"read", "write"}

ASSUME PoolAssumption ==
  /\ WorkerCount \in Nat \ {0, 1}
  /\ {MaxSeq, MaxTimeouts, MaxCrashes, MaxCheckpoints} \subseteq Nat
  /\ Failing \subseteq Kind
  /\ Closers \subseteq {"remove-db", "shutdown"}

Primary == 0
Worker  == 0 .. (WorkerCount - 1)
Rest    == Worker \ {Primary}
Seqs    == 0 .. (MaxSeq - 1)

VARIABLES
  pool,          \* the workers of the module's `pool` array: all of them or none
  initialized,   \* the flag sqlCall tests
  initPc,        \* where the async function of initializeSQL is
  closePc,       \* where each closeSQL call is
  terminating,   \* worker.terminate() has been called on every worker
  exited,        \* process.exit has run
  seq,           \* next sequence number
  pending,       \* keys of the `pending` map
  entrySeqs,     \* entry.seqs of each pool entry
  load,          \* entry.load of each pool entry
  kind, target,  \* the request and the worker it was posted to
  outcome,       \* the promise of the request
  checkpointDue, \* setTimeout(walCheckpoint, 0) timers outstanding
  inbox, outbox, \* the two directions of each worker's message port
  reply,         \* what the worker answered, once it has run the request
  db, thread,    \* each worker's database and thread
  timeouts, crashes   \* budgets left

mainVars   == <<pool, initialized, initPc, closePc, terminating, exited>>
callVars   == <<seq, pending, entrySeqs, load, kind, target, outcome>>
workerVars == <<inbox, outbox, reply, db, thread>>
env        == <<checkpointDue, timeouts, crashes>>
vars == <<mainVars, callVars, workerVars, env>>

Settled == {"ok", "error", "timeout", "lost", "closed"}

\* Besides the types: `pool` is filled once and emptied as a whole, so that pool[0] is
\* the primary to everyone who finds an entry (sql.node.ts 218-258, 302-309).
TypeOK ==
  /\ pool \in {{}, Worker}
  /\ initialized \in BOOLEAN
  /\ initPc \in {"idle", "primary", "rest", "terminating", "done"}
  /\ closePc \in [Closers -> {"idle", "rest", "primary", "terminating", "done", "skipped"}]
  /\ terminating \in BOOLEAN
  /\ exited \in BOOLEAN
  /\ seq \in 0 .. MaxSeq
  /\ pending \subseteq Seqs
  /\ entrySeqs \in [Worker -> SUBSET Seqs]
  /\ load \in [Worker -> Int]
  /\ kind \in [Seqs -> Kind]
  /\ target \in [Seqs -> Worker]
  /\ outcome \in [Seqs -> {"unsent", "waiting"} \cup Settled]
  /\ checkpointDue \in Nat
  /\ inbox \in [Worker -> SUBSET Seqs]
  /\ outbox \in [Worker -> SUBSET Seqs]
  /\ reply \in [Seqs -> {"none", "ok", "error"}]
  /\ db \in [Worker -> {"fresh", "open", "closed"}]
  /\ thread \in [Worker -> {"none", "running", "crashed", "dead", "gone"}]
  /\ timeouts \in Nat
  /\ crashes \in Nat

Init ==
  /\ pool = {}
  /\ initialized = FALSE
  /\ initPc = "idle"
  /\ closePc = [c \in Closers |-> "idle"]
  /\ terminating = FALSE
  /\ exited = FALSE
  /\ seq = 0
  /\ pending = {}
  /\ entrySeqs = [w \in Worker |-> {}]
  /\ load = [w \in Worker |-> 0]
  /\ kind = [s \in Seqs |-> "init"]
  /\ target = [s \in Seqs |-> Primary]
  /\ outcome = [s \in Seqs |-> "unsent"]
  /\ checkpointDue = 0
  /\ inbox = [w \in Worker |-> {}]
  /\ outbox = [w \in Worker |-> {}]
  /\ reply = [s \in Seqs |-> "none"]
  /\ db = [w \in Worker |-> "fresh"]
  /\ thread = [w \in Worker |-> "none"]
  /\ timeouts = MaxTimeouts
  /\ crashes = MaxCrashes

-----------------------------------------------------------------------------
(* Building blocks *)

\* Ports are FIFO and numbers ascend: the next message has the least number.
IsOldest(s, S) == s \in S /\ \A t \in S : s <= t

\* The requests of kind k sent so far to the workers in W.
Sent(k, W) == {s \in Seqs : s < seq /\ kind[s] = k /\ target[s] \in W}

AllSettled(S) == \A s \in S : outcome[s] \in Settled

AllGone == \A w \in Worker : thread[w] \in {"none", "gone"}

\* send(): one request of kind k to each of the workers lo..hi, in that order.
Send(lo, hi, k) ==
  LET new == seq .. (seq + hi - lo)
      To(s) == s - seq + lo
  IN /\ seq + hi - lo < MaxSeq
     /\ seq' = seq + hi - lo + 1
     /\ kind' = [s \in Seqs |-> IF s \in new THEN k ELSE kind[s]]
     /\ target' = [s \in Seqs |-> IF s \in new THEN To(s) ELSE target[s]]
     /\ outcome' = [s \in Seqs |-> IF s \in new THEN "waiting" ELSE outcome[s]]
     /\ pending' = pending \cup new
     /\ entrySeqs' = [w \in Worker |-> entrySeqs[w] \cup {s \in new : To(s) = w}]
     /\ inbox' = [w \in Worker |-> inbox[w] \cup {s \in new : To(s) = w}]
     /\ UNCHANGED <<outbox, reply, db>>

\* Mutant: no `finally`, the load is given back on success only.
ReturnedOnSuccess(S, how, w) ==
  IF how # "ok" THEN 0 ELSE Cardinality({s \in S : kind[s] \in Calls /\ target[s] = w})

\* The load that worker w gets back when the promises of S settle.
Returned(S, how, w) == Cardinality({s \in S : kind[s] \in Calls /\ target[s] = w})

\* The promises of S settle; the `finally` of sqlCall gives their load back.
Settle(S, how) ==
  /\ pending' = pending \ S
  /\ outcome' = [s \in Seqs |-> IF s \in S THEN how ELSE outcome[s]]
  /\ load' = [w \in Worker |-> load[w] - Returned(S, how, w)]
  /\ UNCHANGED <<seq, kind, target>>

\* Rejecting what is still in the pending map (failAll, the end of closeSQL).
Abandon(S, how) == Settle(S \cap pending, how)

\* Mutant: the loop resolves.
FailAllResolving(w) == entrySeqs' = [entrySeqs EXCEPT ![w] = {}] /\ Abandon(entrySeqs[w], "ok")

\* failAll(): every request still tracked by worker w is rejected.
FailAll(w) ==
  /\ entrySeqs' = [entrySeqs EXCEPT ![w] = {}]
  /\ Abandon(entrySeqs[w], "lost")

\* getWorker(): the first of the least loaded entries.
LeastLoaded(w) ==
  w \in pool /\ \A v \in pool : load[w] < load[v] \/ (load[w] = load[v] /\ w <= v)

-----------------------------------------------------------------------------
(* initializeSQL *)

StartInit ==
  /\ initPc = "idle"
  /\ initPc' = "primary"
  /\ pool' = Worker
  /\ thread' = [w \in Worker |-> "running"]
  /\ Send(Primary, Primary, "init")
  /\ UNCHANGED <<initialized, closePc, terminating, exited, load, env>>

PrimaryAnswered ==
  initPc = "primary" /\ \A s \in Sent("init", {Primary}) : outcome[s] = "ok"

RestAnswered ==
  initPc = "rest" /\ \A s \in Sent("init", Worker) : outcome[s] = "ok"

InitRefused ==
  /\ initPc \in {"primary", "rest"}
  /\ \E s \in Sent("init", Worker) : outcome[s] \in Settled \ {"ok"}

PoolEmptied == pool = {}

\* The primary is up: initialise pool.slice(1), reading `pool` as it is now.
InitRest ==
  /\ PrimaryAnswered
  /\ ~PoolEmptied
  /\ initPc' = "rest"
  /\ Send(1, WorkerCount - 1, "init")
  /\ UNCHANGED <<pool, initialized, closePc, terminating, exited, load, thread, env>>

\* Every awaited init has answered; slice(1) of an emptied pool awaits nothing.
InitDone ==
  /\ RestAnswered \/ (PrimaryAnswered /\ PoolEmptied)
  /\ initPc' = "done"
  /\ initialized' = TRUE
  /\ UNCHANGED <<pool, closePc, terminating, exited, callVars, workerVars, env>>

InitFail ==
  /\ InitRefused
  /\ initPc' = "terminating"
  /\ pool' = {}
  /\ terminating' = TRUE
  /\ UNCHANGED <<initialized, closePc, exited, callVars, workerVars, env>>

\* All spawned workers have terminated: startServer rejects, process.exit(1).
InitFailed == initPc = "terminating" /\ AllGone

ExitAfterInitFailed ==
  /\ InitFailed
  /\ exited' = TRUE
  /\ UNCHANGED <<pool, initialized, initPc, closePc, terminating, callVars, workerVars, env>>

-----------------------------------------------------------------------------
(* sqlCall and walCheckpoint *)

\* Mutant: writes are balanced like reads.
CanCallAnywhere(access, w) ==
  initialized /\ LeastLoaded(w) /\ seq + WorkerCount < MaxSeq

\* A write goes to pool[0], a read to getWorker(); both throw, with nothing
\* changed, on an empty pool.  The bound on seq keeps room for closeSQL.
CanCall(access, w) ==
  /\ initialized
  /\ pool # {}
  /\ IF access = "write" THEN w = Primary ELSE LeastLoaded(w)
  /\ seq + WorkerCount < MaxSeq

SqlCall(access, w) ==
  /\ CanCall(access, w)
  /\ load' = [load EXCEPT ![w] = @ + 1]
  /\ Send(w, w, access)
  /\ UNCHANGED <<mainVars, thread, env>>

\* postMessage throws (the arguments cannot be cloned): the promise is rejected
\* at once, the load given back, but entry.seqs keeps the number.
SqlCallUnposted(access, w) ==
  /\ CanCall(access, w)
  /\ seq' = seq + 1
  /\ kind' = [kind EXCEPT ![seq] = access]
  /\ target' = [target EXCEPT ![seq] = w]
  /\ outcome' = [outcome EXCEPT ![seq] = "error"]
  /\ entrySeqs' = [entrySeqs EXCEPT ![w] = @ \cup {seq}]
  /\ UNCHANGED <<mainVars, pending, load, workerVars, env>>

WalCheckpoint ==
  /\ checkpointDue > 0
  /\ checkpointDue' = checkpointDue - 1
  /\ IF pool # {} /\ seq + 2 * WorkerCount <= MaxSeq
     THEN Send(Primary, Primary, "walCheckpoint")
     ELSE UNCHANGED <<seq, pending, entrySeqs, kind, target, outcome,
                      inbox, outbox, reply, db>>
  /\ UNCHANGED <<mainVars, load, thread, timeouts, crashes>>

-----------------------------------------------------------------------------
(* Events of the main thread about a worker *)

\* The 'message' handler: entry.seqs forgets s, the promises of S settle.
TakeAnswer(w, s, S, how) ==
  /\ IsOldest(s, outbox[w])
  /\ outbox' = [outbox EXCEPT ![w] = @ \ {s}]
  /\ entrySeqs' = [entrySeqs EXCEPT ![w] = @ \ {s}]
  /\ Settle(S, how)
  /\ UNCHANGED <<mainVars, inbox, reply, db, thread, env>>

\* Mutant: msg.error is not looked at.
DeliverIgnoringError(w, s) == TakeAnswer(w, s, {s} \cap pending, "ok")

\* A number that is no longer pending (a late answer) settles nothing.
Deliver(w, s) ==
  TakeAnswer(w, s, {s} \cap pending, IF reply[s] = "ok" THEN "ok" ELSE "error")

\* Mutant: nothing times out once the worker is gone.
MayExpireAlive(s) == timeouts > 0 /\ timeouts' = timeouts - 1

\* A timer may beat a live worker MaxTimeouts times, and is the only way out
\* once the worker is gone.
MayExpire(s) ==
  IF thread[target[s]] = "gone" THEN UNCHANGED timeouts
                                ELSE timeouts > 0 /\ timeouts' = timeouts - 1

\* The timer of send().
Timeout(s) ==
  /\ s \in pending
  /\ MayExpire(s)
  /\ entrySeqs' = [entrySeqs EXCEPT ![target[s]] = @ \ {s}]
  /\ Settle({s}, "timeout")
  /\ UNCHANGED <<mainVars, workerVars, checkpointDue, crashes>>

ErrorEvent(w) ==
  /\ thread[w] = "crashed"
  /\ thread' = [thread EXCEPT ![w] = "dead"]
  /\ FailAll(w)
  /\ UNCHANGED <<mainVars, inbox, outbox, reply, db, env>>

\* Mutant: the entry of a dead worker is taken out of the array, whose first entry is
\* the primary to all others.
ExitEventSplicing(w) ==
  /\ thread[w] = "dead"
  /\ outbox[w] = {}
  /\ pool' = pool \ {w}
  /\ thread' = [thread EXCEPT ![w] = "gone"]
  /\ inbox' = [inbox EXCEPT ![w] = {}]
  /\ FailAll(w)
  /\ UNCHANGED <<initialized, initPc, closePc, terminating, exited, outbox, reply, db, env>>

\* Node delivers the messages a worker posted before it emits 'exit'.
ExitEvent(w) ==
  /\ thread[w] = "dead"
  /\ outbox[w] = {}
  /\ thread' = [thread EXCEPT ![w] = "gone"]
  /\ inbox' = [inbox EXCEPT ![w] = {}]
  /\ FailAll(w)
  /\ UNCHANGED <<mainVars, outbox, reply, db, env>>

-----------------------------------------------------------------------------
(* closeSQL; remove-db needs the HTTP server, which listens after startServer *)

CloseSQL(c) ==
  /\ closePc[c] = "idle"
  /\ c = "remove-db" => initPc = "done"
  /\ pool' = {}
  /\ initialized' = FALSE
  /\ closePc' = [closePc EXCEPT ![c] = IF pool = {} THEN "skipped" ELSE "rest"]
  /\ IF pool = {}
     THEN UNCHANGED <<callVars, workerVars>>
     ELSE Send(1, WorkerCount - 1, "close") /\ UNCHANGED <<load, thread>>
  /\ UNCHANGED <<initPc, terminating, exited, env>>

\* Mutant: the closes of the rest are not awaited.
RestUnclosed(c) == closePc[c] = "rest"

RestClosed(c) == closePc[c] = "rest" /\ AllSettled(Sent("close", Rest))

ClosePrimary(c) ==
  /\ RestClosed(c)
  /\ closePc' = [closePc EXCEPT ![c] = "primary"]
  /\ Send(Primary, Primary, "close")
  /\ UNCHANGED <<pool, initialized, initPc, terminating, exited, load, thread, env>>

PrimaryClosed(c) == closePc[c] = "primary" /\ AllSettled(Sent("close", {Primary}))

TerminateWorkers(c) ==
  /\ PrimaryClosed(c)
  /\ closePc' = [closePc EXCEPT ![c] = "terminating"]
  /\ terminating' = TRUE
  /\ UNCHANGED <<pool, initialized, initPc, exited, callVars, workerVars, env>>

Terminated(c) == closePc[c] = "terminating" /\ AllGone

\* Whatever still waits (sent to a worker that was already gone) is rejected.
CloseFinish(c) ==
  /\ Terminated(c)
  /\ closePc' = [closePc EXCEPT ![c] = "done"]
  /\ Abandon(pending, "closed")
  /\ UNCHANGED <<pool, initialized, initPc, terminating, exited, entrySeqs, workerVars, env>>

\* Mutants: shutdown does not await closeSQL; an empty pool never returns.
ShutdownUnawaited == \E c \in Closers : c = "shutdown" /\ closePc[c] # "idle"
ShutdownStuck == \E c \in Closers : c = "shutdown" /\ closePc[c] = "done"

\* shutdown(): process.exit(0) as soon as its closeSQL returns.
ShutdownReturned == \E c \in Closers : c = "shutdown" /\ closePc[c] \in {"done", "skipped"}

ExitAfterShutdown ==
  /\ ShutdownReturned
  /\ exited' = TRUE
  /\ UNCHANGED <<pool, initialized, initPc, closePc, terminating, callVars, workerVars, env>>

-----------------------------------------------------------------------------
(* The worker threads: bundles/workers/sql.js *)

\* One request: init opens the database; anything else without an open database
\* is refused; a close that succeeds ends the thread.  A write or the init of
\* the primary may ask for a checkpoint.
DbAfter(k, was) ==
  IF k = "init" THEN "open" ELSE IF k = "close" THEN "closed" ELSE was

AskCheckpoint(w, s) ==
  /\ w = Primary /\ kind[s] \in {"init", "write"}
  /\ checkpointDue < MaxCheckpoints
  /\ checkpointDue' = checkpointDue + 1

WorkerOk(w, s) ==
  /\ kind[s] = "init" \/ db[w] = "open"
  /\ reply' = [reply EXCEPT ![s] = "ok"]
  /\ db' = [db EXCEPT ![w] = DbAfter(kind[s], @)]
  /\ thread' = [thread EXCEPT ![w] = IF kind[s] = "close" THEN "dead" ELSE @]
  /\ UNCHANGED checkpointDue \/ AskCheckpoint(w, s)

WorkerError(w, s) ==
  /\ kind[s] \in Failing \/ (kind[s] # "init" /\ db[w] # "open")
  /\ reply' = [reply EXCEPT ![s] = "error"]
  /\ UNCHANGED <<db, thread, checkpointDue>>

\* A call refused for a corrupt database may be run a second time at once, if
\* runCorruptionChecks says so: of both runs, within one message handler, the port
\* and the others see the one outcome.
WorkerStep(w, s) ==
  /\ thread[w] = "running"
  /\ IsOldest(s, inbox[w])
  /\ inbox' = [inbox EXCEPT ![w] = @ \ {s}]
  /\ outbox' = [outbox EXCEPT ![w] = @ \cup {s}]
  /\ WorkerOk(w, s) \/ WorkerError(w, s)
  /\ UNCHANGED <<mainVars, callVars, timeouts, crashes>>

\* worker.terminate() takes effect.
Stop(w) ==
  /\ terminating
  /\ thread[w] = "running"
  /\ thread' = [thread EXCEPT ![w] = "dead"]
  /\ UNCHANGED <<mainVars, callVars, inbox, outbox, reply, db, env>>

Crash(w) ==
  /\ crashes > 0
  /\ thread[w] = "running"
  /\ crashes' = crashes - 1
  /\ thread' = [thread EXCEPT ![w] = "crashed"]
  /\ UNCHANGED <<mainVars, callVars, inbox, outbox, reply, db, checkpointDue, timeouts>>

-----------------------------------------------------------------------------

MicrotaskReady ==
  \/ PrimaryAnswered \/ RestAnswered \/ InitRefused \/ InitFailed \/ ShutdownReturned
  \/ \E c \in Closers : RestClosed(c) \/ PrimaryClosed(c) \/ Terminated(c)

Microtask ==
  \/ InitRest \/ InitDone \/ InitFail \/ ExitAfterInitFailed \/ ExitAfterShutdown
  \/ \E c \in Closers : ClosePrimary(c) \/ TerminateWorkers(c) \/ CloseFinish(c)

WorkerEvent(w) == ErrorEvent(w) \/ ExitEvent(w) \/ \E s \in Seqs : Deliver(w, s)

Macrotask ==
  \/ StartInit \/ WalCheckpoint
  \/ \E access \in Calls, w \in Worker : SqlCall(access, w) \/ SqlCallUnposted(access, w)
  \/ \E w \in Worker : WorkerEvent(w)
  \/ \E s \in Seqs : Timeout(s)
  \/ \E c \in Closers : CloseSQL(c)

WorkerProgress(w) == Stop(w) \/ \E s \in Seqs : WorkerStep(w, s)

WorkerThread == \E w \in Worker : WorkerProgress(w) \/ Crash(w)

Exited == exited /\ UNCHANGED vars

Next ==
  \/ /\ ~exited
     /\ \/ Microtask
        \/ ~MicrotaskReady /\ Macrotask
        \/ WorkerThread
  \/ Exited

\* The event loop runs what is ready, timers fire, threads that run make
\* progress.  Nothing obliges a client to call or a signal to arrive.
Fairness ==
  /\ WF_vars(~exited /\ Microtask)
  /\ WF_vars(~exited /\ ~MicrotaskReady /\ StartInit)
  /\ WF_vars(~exited /\ ~MicrotaskReady /\ WalCheckpoint)
  /\ \A w \in Worker : WF_vars(~exited /\ ~MicrotaskReady /\ WorkerEvent(w))
  /\ \A w \in Worker : WF_vars(~exited /\ WorkerProgress(w))
  /\ \A s \in Seqs : WF_vars(~exited /\ ~MicrotaskReady /\ Timeout(s))

Spec == Init /\ [][Next]_vars
FairSpec == Spec /\ Fairness
-----------------------------------------------------------------------------
(* Properties *)

\* sqlCall resolves only with the answer of a worker that ran that very request,
\* and rejects as "SQL closed" or "lost" only while no answer has been taken:
\* a timer, an exit and closeSQL never turn into a success.
OkMeansExecuted == \A s \in Seqs : outcome[s] = "ok" => reply[s] = "ok"

\* No call is forgotten: what waits in `pending` is in the entry.seqs of the
\* worker it was posted to, so failAll finds it when that worker dies.
EveryCallIsTracked == \A s \in pending : s \in entrySeqs[target[s]]

\* The inductive invariant behind OkMeansExecuted, EveryCallIsTracked and the two
\* properties of single requests below (SettledForGood, ImplementsService): numbers
\* not handed out are untouched, the map holds exactly the waiting promises, and a
\* request still in a port has been run by nobody.
Unissued ==
  \A s \in Seqs : s >= seq => outcome[s] = "unsent" /\ reply[s] = "none"

PendingIsWaiting == \A s \in Seqs : s \in pending <=> outcome[s] = "waiting"

InboxNotRun ==
  \A w \in Worker : \A s \in inbox[w] :
    target[s] = w /\ reply[s] = "none" /\ outcome[s] # "unsent"

PoolInv ==
  /\ Unissued
  /\ PendingIsWaiting
  /\ EveryCallIsTracked
  /\ InboxNotRun
  /\ OkMeansExecuted

\* entry.load, which getWorker compares, counts the unsettled calls of the entry.
LoadCountsCalls ==
  \A w \in Worker :
    load[w] = Cardinality({s \in pending : kind[s] \in Calls /\ target[s] = w})

\* A read or a write only ever goes to a worker whose own init has answered:
\* `initialized` is raised after the last of them, not after the primary's.
CallsNeedInit ==
  \A s \in Seqs : s < seq /\ kind[s] \in Calls =>
    \E i \in Seqs : i < s /\ kind[i] = "init" /\ target[i] = target[s] /\ outcome[i] = "ok"

\* Nothing is posted to a worker behind its close: an initializeSQL that is
\* overtaken by closeSQL at an await must not initialise workers being closed.
CloseIsLast ==
  \A s, c \in Seqs : s < seq /\ c < s /\ kind[c] = "close" => target[s] # target[c]

\* The primary runs its writes in the order sqlCall was called, whatever times
\* out, is answered late or is lost in between: a gap is a suffix.
WritesInOrder ==
  \A s, t \in Seqs : s < t /\ t < seq /\ kind[s] = "write" /\ kind[t] = "write"
                     /\ reply[t] # "none" /\ outcome[s] # "error" => reply[s] # "none"

\* The primary's database is closed only after every other worker has answered
\* its close, is gone, or had five seconds to answer.
PrimaryClosesLast ==
  db[Primary] = "closed" =>
    \A w \in Rest : \/ thread[w] # "running"
                    \/ \E s \in Sent("close", {w}) : outcome[s] \in Settled

\* When a closeSQL that had workers to close returns, no promise of the module
\* is left unsettled, and no timer is left to fire.
NothingPendingAfterClose ==
  (\E c \in Closers : closePc[c] = "done") =>
    pending = {} /\ \A s \in Seqs : outcome[s] # "waiting"

\* pending, entry.seqs and entry.load agree at every moment, and the last close
\* leaves them empty.
Bookkeeping == EveryCallIsTracked /\ LoadCountsCalls /\ NothingPendingAfterClose

\* index.node.ts:561-562: "Close the SQLCipher workers before exiting --
\* terminating the process with the DB open aborts in the sqlcipher NAPI
\* finalizer."
ExitsWithDbClosed ==
  exited => \A w \in Worker : ~(thread[w] = "running" /\ db[w] = "open")

\* What holds of every environment: an open database at exit means that the start
\* failed, or that another closeSQL was still at work when shutdown's found no pool.
ExitsOpenOnlyMidway ==
  exited /\ (\E w \in Worker : thread[w] = "running" /\ db[w] = "open") =>
    \/ initPc = "terminating"
    \/ \E c \in Closers : c # "shutdown" /\ closePc[c] \in {"rest", "primary", "terminating"}

\* From the first init to the last close: calls need an init, nothing is posted
\* behind a close, the primary closes last and the process exits after it.
LifeInOrder == CallsNeedInit /\ CloseIsLast /\ PrimaryClosesLast /\ ExitsOpenOnlyMidway

\* Where nothing fails and nobody else closes, the process leaves no database open.
EndsInOrder == LifeInOrder /\ ExitsWithDbClosed

\* The pool implements the abstract service: the caller knows whether a request
\* waits, succeeded or failed, and its effect is the worker's successful run of it.
Known(s) == IF outcome[s] \in {"unsent", "waiting", "ok"} THEN outcome[s] ELSE "failed"

Service == INSTANCE SqlService WITH
  Request  <- Seqs,
  status   <- [s \in Seqs |-> Known(s)],
  effected <- {s \in Seqs : reply[s] = "ok"}

ImplementsService == Service!Spec

\* A promise settles once: no later answer, timer, exit or close changes it.
SettledForGood ==
  [][\A s \in Seqs : outcome[s] \in Settled => outcome'[s] = outcome[s]]_vars

\* Every request is answered, rejected or timed out, unless the process exits.
EveryCallSettles ==
  \A s \in Seqs : outcome[s] = "waiting" ~> outcome[s] # "waiting" \/ exited

\* A signal ends the process, whatever initializeSQL, a remove-db or dead workers
\* are doing.
ShutdownExits == \A c \in Closers : closePc[c] # "idle" /\ c = "shutdown" ~> exited
=============================================================================
