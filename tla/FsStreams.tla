----------------------------- MODULE FsStreams -----------------------------
(***************************************************************************)
(* The streaming half of server/fs.node.ts: openRead, read, closeRead and  *)
(* openWrite, write, closeWrite over numbered handles.  The calls of a     *)
(* client are not awaited one by one: any number of read or write calls of *)
(* a handle may be waiting when the stream of node:fs emits an event.      *)
(*                                                                         *)
(* Of the node streams the model keeps what the handlers can observe: a    *)
(* ReadStream emits 'data' and 'end' only while it flows, a WriteStream    *)
(* emits 'drain' only when its buffer has run empty and it is not ending,  *)
(* an 'error' without a listener is an uncaught exception.                 *)
(*                                                                         *)
(* A file read holds the chunks 1..FileChunks; the i-th call on a handle   *)
(* is answered by answers[h][i].                                           *)
(***************************************************************************)
EXTENDS Integers, Sequences, SequencesExt

CONSTANTS
  MaxHandles,     \* bound: streams ever opened
  FileChunks,     \* chunks of 512 KiB in a file that is read
  HighWaterMark,  \* chunks a write stream buffers before write() returns false
  MaxCalls,       \* bound: read or write calls on one handle
  MaxFaults       \* bound: streams that fail

ASSUME FsAssumption ==
  /\ {MaxHandles, FileChunks, MaxCalls, MaxFaults} \subseteq Nat
  /\ HighWaterMark \in Nat \ {0}

Handle == 1 .. MaxHandles

VARIABLES
  alive,      \* the process has not died of an uncaught exception
  nextHandle, \* _nextHandle
  mode,       \* what a handle was opened for: "none", "read" or "write"
  open,       \* the handle is in _readHandles or _writeHandles
  answers,    \* what each call on the handle was answered
  waiters,    \* calls that wait: handle.pending, or the 'drain' listeners
  \* read handles
  flowing,    \* the stream is in flowing mode
  emitted,    \* chunks it has emitted
  queue,      \* handle.queue
  ended,      \* handle.ended
  error,      \* handle.error
  \* write handles
  accepted,   \* chunks given to stream.write
  flushed,    \* chunks that are in the file
  needDrain,  \* a write() has returned false since the buffer was last empty
  ending,     \* stream.end has been called
  closed,     \* the promise of closeWrite has resolved
  faults      \* streams that may still fail

common == <<alive, nextHandle, mode, faults>>
reads  == <<flowing, emitted, queue, ended, error>>
writes == <<accepted, flushed, needDrain, ending, closed>>
vars   == <<common, open, answers, waiters, reads, writes>>

\* Answers: a chunk's number, or one of these.
Eof == 0
Waiting == -1
Failed == -2
Done == -3

Init ==
  /\ alive = TRUE
  /\ nextHandle = 1
  /\ mode = [h \in Handle |-> "none"]
  /\ open = [h \in Handle |-> FALSE]
  /\ answers = [h \in Handle |-> <<>>]
  /\ waiters = [h \in Handle |-> <<>>]
  /\ flowing = [h \in Handle |-> FALSE]
  /\ emitted = [h \in Handle |-> 0]
  /\ queue = [h \in Handle |-> <<>>]
  /\ ended = [h \in Handle |-> FALSE]
  /\ error = [h \in Handle |-> FALSE]
  /\ accepted = [h \in Handle |-> 0]
  /\ flushed = [h \in Handle |-> 0]
  /\ needDrain = [h \in Handle |-> FALSE]
  /\ ending = [h \in Handle |-> FALSE]
  /\ closed = [h \in Handle |-> FALSE]
  /\ faults = MaxFaults

-----------------------------------------------------------------------------
(* Calls *)

Open(h, m) ==
  /\ h = nextHandle
  /\ nextHandle' = nextHandle + 1
  /\ mode' = [mode EXCEPT ![h] = m]
  /\ open' = [open EXCEPT ![h] = TRUE]
  /\ UNCHANGED <<alive, faults, answers, waiters>>

\* A call on handle h: its number is the next one.
Answer(h, a) == answers' = [answers EXCEPT ![h] = Append(@, a)]

ThisCall(h) == Len(answers[h]) + 1

MayCall(h) == mode[h] # "none" /\ Len(answers[h]) < MaxCalls

\* Mutant: only the first that waits is answered.
ReleaseFirst(h, a) ==
  /\ answers' = [answers EXCEPT ![h] =
                   [i \in DOMAIN @ |-> IF waiters[h] # <<>> /\ i = Head(waiters[h]) THEN a ELSE @[i]]]
  /\ waiters' = [waiters EXCEPT ![h] = IF @ = <<>> THEN @ ELSE Tail(@)]

\* All that wait are answered a, in order.
Release(h, a) ==
  /\ answers' = [answers EXCEPT ![h] =
                   [i \in DOMAIN @ |-> IF i \in Range(waiters[h]) THEN a ELSE @[i]]]
  /\ waiters' = [waiters EXCEPT ![h] = <<>>]

\* The handle is unknown: never opened, or closed.
CallUnknown(h) ==
  /\ MayCall(h)
  /\ ~open[h]
  /\ Answer(h, Failed)
  /\ UNCHANGED <<common, open, waiters, reads, writes>>

\* A 'data' listener makes the stream flow.
OpenRead(h) ==
  /\ Open(h, "read")
  /\ flowing' = [flowing EXCEPT ![h] = TRUE]
  /\ UNCHANGED <<emitted, queue, ended, error, writes>>

ReadFailed(h) ==
  /\ error[h]
  /\ Answer(h, Failed)
  /\ UNCHANGED <<waiters, queue, flowing>>

ReadQueued(h) ==
  /\ ~error[h]
  /\ queue[h] # <<>>
  /\ Answer(h, Head(queue[h]))
  /\ queue' = [queue EXCEPT ![h] = Tail(@)]
  /\ flowing' = [flowing EXCEPT ![h] = TRUE]
  /\ UNCHANGED waiters

ReadAtEnd(h) ==
  /\ ~error[h]
  /\ queue[h] = <<>>
  /\ ended[h]
  /\ Answer(h, Eof)
  /\ UNCHANGED <<waiters, queue, flowing>>

ReadWait(h) ==
  /\ queue[h] = <<>>
  /\ ~ended[h]
  /\ Answer(h, Waiting)
  /\ waiters' = [waiters EXCEPT ![h] = Append(@, ThisCall(h))]
  /\ flowing' = [flowing EXCEPT ![h] = TRUE]
  /\ UNCHANGED queue

Read(h) ==
  /\ MayCall(h)
  /\ mode[h] = "read" /\ open[h]
  /\ ReadFailed(h) \/ ReadQueued(h) \/ ReadAtEnd(h) \/ ReadWait(h)
  /\ UNCHANGED <<common, open, emitted, ended, error, writes>>

\* The stream is destroyed: it emits nothing any more.
CloseRead(h) ==
  /\ mode[h] = "read" /\ open[h]
  /\ open' = [open EXCEPT ![h] = FALSE]
  /\ UNCHANGED <<common, answers, waiters, reads, writes>>

\* The file is opened by the stream, later: openWrite cannot fail on it.
OpenWrite(h) == Open(h, "write") /\ UNCHANGED <<reads, writes>>

\* stream.write returns false: with this chunk, the buffer is full.
MustDrain(h) == accepted[h] + 1 - flushed[h] >= HighWaterMark

Write(h) ==
  /\ MayCall(h)
  /\ mode[h] = "write" /\ open[h]
  /\ accepted' = [accepted EXCEPT ![h] = @ + 1]
  /\ IF MustDrain(h)
     THEN /\ Answer(h, Waiting)
          /\ waiters' = [waiters EXCEPT ![h] = Append(@, ThisCall(h))]
          /\ needDrain' = [needDrain EXCEPT ![h] = TRUE]
     ELSE Answer(h, Done) /\ UNCHANGED <<waiters, needDrain>>
  /\ UNCHANGED <<common, open, reads, flushed, ending, closed>>

CloseWrite(h) ==
  /\ mode[h] = "write" /\ open[h]
  /\ open' = [open EXCEPT ![h] = FALSE]
  /\ ending' = [ending EXCEPT ![h] = TRUE]
  /\ UNCHANGED <<common, answers, waiters, reads, accepted, flushed, needDrain, closed>>

-----------------------------------------------------------------------------
(* Events of the streams *)

\* A read stream works until it is destroyed, has ended or has failed.
Emits(h) == mode[h] = "read" /\ open[h] /\ ~ended[h]

\* Mutant: every chunk is queued, whoever waits.
DataQueuedAlways(h) ==
  /\ queue' = [queue EXCEPT ![h] = Append(@, emitted[h] + 1)]
  /\ flowing' = [flowing EXCEPT ![h] = FALSE]
  /\ UNCHANGED <<answers, waiters>>

\* The first waiter gets the chunk; without one it is queued and the stream
\* paused.
GiveChunk(h) ==
  IF waiters[h] # <<>>
  THEN /\ answers' = [answers EXCEPT ![h][Head(waiters[h])] = emitted[h] + 1]
       /\ waiters' = [waiters EXCEPT ![h] = Tail(@)]
       /\ UNCHANGED <<queue, flowing>>
  ELSE /\ queue' = [queue EXCEPT ![h] = Append(@, emitted[h] + 1)]
       /\ flowing' = [flowing EXCEPT ![h] = FALSE]
       /\ UNCHANGED <<answers, waiters>>

OnData(h) ==
  /\ Emits(h) /\ flowing[h]
  /\ emitted[h] < FileChunks
  /\ emitted' = [emitted EXCEPT ![h] = @ + 1]
  /\ GiveChunk(h)
  /\ UNCHANGED <<common, open, ended, error, writes>>

OnEnd(h) ==
  /\ Emits(h) /\ flowing[h]
  /\ emitted[h] = FileChunks
  /\ ended' = [ended EXCEPT ![h] = TRUE]
  /\ Release(h, Eof)
  /\ UNCHANGED <<common, open, flowing, emitted, queue, error, writes>>

\* The calls that wait are not told.
OnReadError(h) ==
  /\ Emits(h)
  /\ faults > 0
  /\ faults' = faults - 1
  /\ error' = [error EXCEPT ![h] = TRUE]
  /\ ended' = [ended EXCEPT ![h] = TRUE]
  /\ UNCHANGED <<alive, nextHandle, mode, open, answers, waiters, flowing, emitted, queue, writes>>

\* A chunk reaches the file; 'drain' is emitted when that was the last one.
Flush(h) ==
  /\ mode[h] = "write"
  /\ flushed[h] < accepted[h]
  /\ flushed' = [flushed EXCEPT ![h] = @ + 1]
  /\ IF flushed'[h] = accepted[h] /\ needDrain[h] /\ ~ending[h]
     THEN Release(h, Done) /\ needDrain' = [needDrain EXCEPT ![h] = FALSE]
     ELSE UNCHANGED <<answers, waiters, needDrain>>
  /\ UNCHANGED <<common, open, reads, accepted, ending, closed>>

\* Mutant: closeWrite does not wait for the callback of stream.end.
FinishedAtOnce(h) == ending[h]

Finished(h) == ending[h] /\ flushed[h] = accepted[h]

OnFinish(h) ==
  /\ Finished(h)
  /\ ~closed[h]
  /\ closed' = [closed EXCEPT ![h] = TRUE]
  /\ UNCHANGED <<common, open, answers, waiters, reads, accepted, flushed, needDrain, ending>>

\* The stream cannot open its file or the disk refuses a chunk: nobody listens
\* for 'error'.
OnWriteError(h) ==
  /\ mode[h] = "write" /\ ~closed[h]
  /\ faults > 0
  /\ faults' = faults - 1
  /\ alive' = FALSE
  /\ UNCHANGED <<nextHandle, mode, open, answers, waiters, reads, writes>>

-----------------------------------------------------------------------------

Call(h) ==
  OpenRead(h) \/ OpenWrite(h) \/ CallUnknown(h) \/ Read(h) \/ CloseRead(h) \/ Write(h) \/ CloseWrite(h)

StreamEvent(h) == OnData(h) \/ OnEnd(h) \/ Flush(h) \/ OnFinish(h)

Next ==
  /\ alive
  /\ \E h \in Handle : Call(h) \/ StreamEvent(h) \/ OnReadError(h) \/ OnWriteError(h)

Spec == Init /\ [][Next]_vars

\* The event loop serves every stream; nothing obliges a client to call.
FairSpec == Spec /\ \A h \in Handle : WF_vars(alive /\ StreamEvent(h))

-----------------------------------------------------------------------------
(* Properties *)

\* Pipelined reads get the file: the i-th read on a handle is answered with chunk i,
\* or with the end only after the whole file, however calls and events interleave.
ReadsInOrder ==
  \A h \in Handle : \A i \in DOMAIN answers[h] : LET a == answers[h][i] IN
    /\ a \in 1 .. FileChunks => a = i
    /\ a = Eof => i > FileChunks

\* "without buffering the whole file in memory": at most one chunk of a file is
\* held for a slow reader, and none while a reader waits (no wake-up is lost).
OneChunkAhead ==
  \A h \in Handle : Len(queue[h]) <= 1 /\ (queue[h] # <<>> => waiters[h] = <<>>)

\* A read stream hands its file out in order, one chunk ahead of its reader.
ReadsServed == ReadsInOrder /\ OneChunkAhead

\* Backpressure: a client that awaits its writes never has a full buffer behind
\* it; when the buffer is full, the last write is still waiting.
FullBufferHoldsWriter ==
  \A h \in Handle : accepted[h] - flushed[h] >= HighWaterMark =>
    answers[h][accepted[h]] = Waiting

\* When closeWrite has resolved, every chunk a write call was given is in the file.
ClosedMeansFlushed ==
  \A h \in Handle : closed[h] => flushed[h] = accepted[h]

\* A write stream holds its writer back and is closed with everything in the file.
WritesServed == FullBufferHoldsWriter /\ ClosedMeansFlushed

\* A read or write call on a handle that stays open and whose stream does not fail
\* is answered.
ReadsAndWritesSettle ==
  \A h \in Handle, i \in 1 .. MaxCalls :
    LET waits == i \in Range(waiters[h])
    IN waits ~> ~waits \/ ~open[h] \/ error[h] \/ ~alive

\* closeWrite resolves.
CloseSettles == \A h \in Handle : ending[h] ~> closed[h] \/ ~alive

\* Every kind of call settles.
CallsSettle == ReadsAndWritesSettle /\ CloseSettles

\* index.node.ts:84-85: "The bridge must survive stray failures from native
\* callbacks, dropped futures and background tasks -- log loudly, never exit."
NeverExits == alive
=============================================================================
