--------------------------- MODULE FsStreamsProofs ---------------------------
(***************************************************************************)
(* FsStreams for any number of handles, calls, chunks and faults: what is  *)
(* read comes in order, one chunk ahead at most, and a full buffer holds   *)
(* its writer.  Every action touches one handle, so the invariant is one   *)
(* of each handle, HandleInv, and an action disturbs it at its own only.   *)
(***************************************************************************)
EXTENDS FsStreams, TLAPS

USE DEF Handle, vars, common, reads, writes, Eof, Waiting, Failed, Done

\* The bounds are numbers and the buffer holds something.
LEMMA FsBounds ==
  /\ MaxHandles \in Nat /\ FileChunks \in Nat /\ MaxCalls \in Nat /\ MaxFaults \in Nat
  /\ HighWaterMark \in Nat /\ HighWaterMark > 0
BY FsAssumption DEF FsAssumption

CommonType ==
  /\ alive \in BOOLEAN
  /\ nextHandle \in Nat
  /\ mode \in [Handle -> {"none", "read", "write"}]
  /\ faults \in Nat

CallsType ==
  /\ open \in [Handle -> BOOLEAN]
  /\ answers \in [Handle -> Seq(Int)]
  /\ waiters \in [Handle -> Seq(Int)]

ReadsType ==
  /\ flowing \in [Handle -> BOOLEAN]
  /\ emitted \in [Handle -> Nat]
  /\ queue \in [Handle -> Seq(Int)]
  /\ ended \in [Handle -> BOOLEAN]
  /\ error \in [Handle -> BOOLEAN]

WritesType ==
  /\ accepted \in [Handle -> Nat]
  /\ flushed \in [Handle -> Nat]
  /\ needDrain \in [Handle -> BOOLEAN]
  /\ ending \in [Handle -> BOOLEAN]
  /\ closed \in [Handle -> BOOLEAN]

FsTypeOK == CommonType /\ CallsType /\ ReadsType /\ WritesType

\* A handle that was not opened, or not in this direction, is as Init left it.
NotReading(h) ==
  emitted[h] = 0 /\ queue[h] = <<>> /\ ~flowing[h] /\ ~ended[h] /\ ~error[h]

NotWriting(h) ==
  accepted[h] = 0 /\ flushed[h] = 0 /\ ~ending[h] /\ ~closed[h]

Untouched(h) ==
  /\ h >= nextHandle => mode[h] = "none"
  /\ mode[h] = "none" => ~open[h] /\ answers[h] = <<>> /\ waiters[h] = <<>>
  /\ mode[h] # "read" => NotReading(h)
  /\ mode[h] # "write" => NotWriting(h)

\* While the stream works, the calls are the chunks handed out and the calls that
\* wait, in this order; the chunk that is queued is the last one emitted.
ReadsLineUp(h) ==
  Emits(h) =>
    /\ Len(answers[h]) = emitted[h] - Len(queue[h]) + Len(waiters[h])
    /\ \A j \in 1 .. Len(waiters[h]) : waiters[h][j] = emitted[h] - Len(queue[h]) + j
    /\ queue[h] # <<>> => queue[h][1] = emitted[h]

\* The end is announced when every chunk has been asked for; a failed stream is at
\* its end too.
EndAfterAll(h) ==
  /\ ended[h] /\ ~error[h] => queue[h] = <<>> /\ Len(answers[h]) >= FileChunks
  /\ error[h] => ended[h]

PausedByQueue(h) ==
  /\ flowing[h] => queue[h] = <<>>
  /\ Len(queue[h]) <= 1
  /\ queue[h] # <<>> => waiters[h] = <<>>

AnsweredInOrder(h) ==
  \A i \in 1 .. Len(answers[h]) :
    /\ answers[h][i] \in 1 .. FileChunks => answers[h][i] = i
    /\ answers[h][i] = Eof => i > FileChunks

ReadInv(h) == ReadsLineUp(h) /\ EndAfterAll(h) /\ PausedByQueue(h) /\ AnsweredInOrder(h)

\* A write call is a chunk; nothing is written after the end, or beyond what was given.
WriteInv(h) ==
  /\ accepted[h] <= Len(answers[h])
  /\ mode[h] = "write" /\ open[h] => accepted[h] = Len(answers[h])
  /\ flushed[h] <= accepted[h]
  /\ accepted[h] - flushed[h] >= HighWaterMark => answers[h][accepted[h]] = Waiting
  /\ ending[h] => ~open[h]
  /\ closed[h] => ending[h] /\ flushed[h] = accepted[h]

HandleInv(h) == Untouched(h) /\ ReadInv(h) /\ WriteInv(h)

FsInv == \A h \in Handle : HandleInv(h)

-----------------------------------------------------------------------------
(* Sequences of answers. *)

\* Answering one call leaves the others.
LEMMA SetOne ==
  ASSUME NEW s \in Seq(Int), NEW i \in 1 .. Len(s), NEW x \in Int
  PROVE  /\ [s EXCEPT ![i] = x] \in Seq(Int)
         /\ Len([s EXCEPT ![i] = x]) = Len(s)
         /\ \A j \in 1 .. Len(s) : [s EXCEPT ![i] = x][j] = IF j = i THEN x ELSE s[j]
OBVIOUS

\* A new call is answered at the end.
LEMMA AddOne ==
  ASSUME NEW s \in Seq(Int), NEW x \in Int
  PROVE  /\ Append(s, x) \in Seq(Int)
         /\ Len(Append(s, x)) = Len(s) + 1
         /\ Append(s, x)[Len(s) + 1] = x
         /\ \A j \in 1 .. Len(s) : Append(s, x)[j] = s[j]
OBVIOUS

\* At most one and at least one is one.
LEMMA OneExactly ==
  ASSUME NEW n \in Nat, n <= 1, n >= 1
  PROVE  n = 1
OBVIOUS

\* A sequence without length is empty.
LEMMA NoneLeft ==
  ASSUME NEW s \in Seq(Int), Len(s) = 0
  PROVE  s = <<>>
OBVIOUS

\* Taking the first.
LEMMA DropOne ==
  ASSUME NEW s \in Seq(Int), s # <<>>
  PROVE  /\ Tail(s) \in Seq(Int)
         /\ Head(s) = s[1] /\ s[1] \in Int
         /\ Len(s) >= 1
         /\ Len(Tail(s)) = Len(s) - 1
         /\ \A j \in 1 .. Len(s) - 1 : Tail(s)[j] = s[j + 1]
OBVIOUS

-----------------------------------------------------------------------------
(* Types. *)

\* What a step does not touch keeps its type.
LEMMA KeptTypes ==
  /\ CommonType /\ UNCHANGED common => CommonType'
  /\ CallsType /\ UNCHANGED <<open, answers, waiters>> => CallsType'
  /\ ReadsType /\ UNCHANGED reads => ReadsType'
  /\ WritesType /\ UNCHANGED writes => WritesType'
BY DEF CommonType, CallsType, ReadsType, WritesType

\* What Release does, handle by handle.
LEMMA ReleaseType ==
  ASSUME FsTypeOK, NEW h \in Handle, NEW a \in Int, Release(h, a)
  PROVE  /\ answers' \in [Handle -> Seq(Int)] /\ waiters' \in [Handle -> Seq(Int)]
         /\ Len(answers'[h]) = Len(answers[h]) /\ waiters'[h] = <<>>
         /\ \A j \in 1 .. Len(answers[h]) :
              answers'[h][j] = IF j \in Range(waiters[h]) THEN a ELSE answers[h][j]
         /\ \A g \in Handle \ {h} : answers'[g] = answers[g] /\ waiters'[g] = waiters[g]
<1>1. answers[h] \in Seq(Int)
  BY DEF FsTypeOK, CallsType, ReadsType
<1>2. answers'[h] = [i \in DOMAIN answers[h] |-> IF i \in Range(waiters[h]) THEN a ELSE answers[h][i]]
  BY DEF Release, FsTypeOK, CallsType, ReadsType
<1>3. /\ answers'[h] \in Seq(Int)
      /\ Len(answers'[h]) = Len(answers[h])
      /\ \A j \in 1 .. Len(answers[h]) :
           answers'[h][j] = IF j \in Range(waiters[h]) THEN a ELSE answers[h][j]
  <2>1. DOMAIN answers[h] = 1 .. Len(answers[h]) /\ Len(answers[h]) \in Nat
    BY <1>1
  <2>2. answers'[h] \in [1 .. Len(answers[h]) -> Int]
    BY <1>1, <1>2, <2>1
  <2>3. QED  BY <1>2, <2>1, <2>2
<1>4. /\ \A g \in Handle \ {h} : answers'[g] = answers[g] /\ waiters'[g] = waiters[g]
      /\ waiters'[h] = <<>>
      /\ answers' = [answers EXCEPT ![h] = answers'[h]]
      /\ waiters' = [waiters EXCEPT ![h] = <<>>]
  BY <1>2 DEF Release, FsTypeOK, CallsType, ReadsType
<1>5. answers' \in [Handle -> Seq(Int)] /\ waiters' \in [Handle -> Seq(Int)]
  BY <1>3, <1>4 DEF FsTypeOK, CallsType, ReadsType
<1>6. QED  BY <1>3, <1>4, <1>5

\* What GiveChunk does, handle by handle.
LEMMA GiveType ==
  ASSUME FsTypeOK, FsInv, NEW h \in Handle, Emits(h), flowing[h], GiveChunk(h)
  PROVE  /\ answers' \in [Handle -> Seq(Int)] /\ waiters' \in [Handle -> Seq(Int)]
         /\ queue' \in [Handle -> Seq(Int)] /\ flowing' \in [Handle -> BOOLEAN]
         /\ \A g \in Handle \ {h} : /\ answers'[g] = answers[g] /\ waiters'[g] = waiters[g]
                                   /\ queue'[g] = queue[g] /\ flowing'[g] = flowing[g]
<1>1. /\ answers[h] \in Seq(Int) /\ waiters[h] \in Seq(Int) /\ queue[h] \in Seq(Int)
      /\ emitted[h] \in Nat /\ emitted[h] + 1 \in Int
  BY DEF FsTypeOK, CallsType, ReadsType
<1>2. CASE waiters[h] # <<>>
  <2>1. Head(waiters[h]) \in 1 .. Len(answers[h])
    <3>1. queue[h] = <<>> /\ Len(queue[h]) = 0
      BY DEF FsInv, HandleInv, ReadInv, PausedByQueue
    <3>2. Len(waiters[h]) >= 1 /\ Head(waiters[h]) = waiters[h][1] /\ Len(waiters[h]) \in Nat
      BY <1>1, <1>2, DropOne
    <3>3. /\ Len(answers[h]) = emitted[h] - Len(queue[h]) + Len(waiters[h])
          /\ waiters[h][1] = emitted[h] - Len(queue[h]) + 1
      BY <3>2 DEF FsInv, HandleInv, ReadInv, ReadsLineUp
    <3>4. QED  BY <1>1, <3>1, <3>2, <3>3
  <2>2. [answers[h] EXCEPT ![Head(waiters[h])] = emitted[h] + 1] \in Seq(Int)
    BY <1>1, <2>1, SetOne
  <2>3. Tail(waiters[h]) \in Seq(Int)
    BY <1>1, <1>2, DropOne
  <2>4. /\ answers' = [answers EXCEPT ![h] = [answers[h] EXCEPT ![Head(waiters[h])] = emitted[h] + 1]]
        /\ waiters' = [waiters EXCEPT ![h] = Tail(waiters[h])]
        /\ UNCHANGED <<queue, flowing>>
    BY <1>2 DEF GiveChunk, FsTypeOK, CallsType, ReadsType
  <2>5. QED  BY <2>2, <2>3, <2>4 DEF FsTypeOK, CallsType, ReadsType
<1>3. CASE waiters[h] = <<>>
  <2>1. /\ queue' = [queue EXCEPT ![h] = Append(queue[h], emitted[h] + 1)]
        /\ flowing' = [flowing EXCEPT ![h] = FALSE]
        /\ UNCHANGED <<answers, waiters>>
    BY <1>3 DEF GiveChunk, FsTypeOK, CallsType, ReadsType
  <2>2. Append(queue[h], emitted[h] + 1) \in Seq(Int)
    BY <1>1, AddOne
  <2>3. QED  BY <2>1, <2>2 DEF FsTypeOK, CallsType, ReadsType
<1>4. QED  BY <1>2, <1>3

\* Every action keeps the types.
LEMMA FsTypeStep ==
  ASSUME FsTypeOK, FsInv, NEW h \in Handle,
         Call(h) \/ StreamEvent(h) \/ OnReadError(h) \/ OnWriteError(h)
  PROVE  FsTypeOK'
<1> CommonType /\ CallsType /\ ReadsType /\ WritesType
  BY DEF FsTypeOK
<1>1. answers[h] \in Seq(Int) /\ waiters[h] \in Seq(Int) /\ queue[h] \in Seq(Int)
  BY DEF CallsType, ReadsType
<1>2. /\ \A x \in Int : Append(answers[h], x) \in Seq(Int)
      /\ Append(waiters[h], ThisCall(h)) \in Seq(Int)
      /\ queue[h] # <<>> => Tail(queue[h]) \in Seq(Int) /\ Head(queue[h]) \in Int
  BY <1>1, AddOne, DropOne DEF ThisCall
<1>3. CASE OpenRead(h) \/ OpenWrite(h)
  <2>1. CommonType'
    BY <1>3 DEF OpenRead, OpenWrite, Open, CommonType
  <2>2. CallsType'
    BY <1>3 DEF OpenRead, OpenWrite, Open, CallsType
  <2>3. ReadsType' /\ WritesType'
    BY <1>3 DEF OpenRead, OpenWrite, ReadsType, WritesType
  <2>4. QED  BY <2>1, <2>2, <2>3 DEF FsTypeOK
<1>4. CASE CallUnknown(h)
  <2>1. CallsType'
    BY <1>2, <1>4 DEF CallUnknown, Answer, CallsType
  <2>2. UNCHANGED <<common, reads, writes>>
    BY <1>4 DEF CallUnknown
  <2>3. QED  BY <2>1, <2>2, KeptTypes DEF FsTypeOK
<1>5. CASE Read(h)
  <2>1. UNCHANGED <<common, open, emitted, ended, error, writes>>
    BY <1>5 DEF Read
  <2>2. ReadFailed(h) \/ ReadQueued(h) \/ ReadAtEnd(h) \/ ReadWait(h)
    BY <1>5 DEF Read
  <2>3. answers' \in [Handle -> Seq(Int)]
    <3>1. \E a \in Int : Answer(h, a)
      BY <1>2, <2>2 DEF ReadFailed, ReadQueued, ReadAtEnd, ReadWait
    <3>2. QED  BY <1>2, <3>1 DEF Answer, CallsType
  <2>4. waiters' \in [Handle -> Seq(Int)]
    BY <1>2, <2>2 DEF ReadFailed, ReadQueued, ReadAtEnd, ReadWait, CallsType
  <2>5. queue' \in [Handle -> Seq(Int)]
    BY <1>2, <2>2 DEF ReadFailed, ReadQueued, ReadAtEnd, ReadWait, ReadsType
  <2>6. flowing' \in [Handle -> BOOLEAN]
    BY <2>2 DEF ReadFailed, ReadQueued, ReadAtEnd, ReadWait, ReadsType
  <2>7. CallsType' /\ ReadsType'
    BY <2>1, <2>3, <2>4, <2>5, <2>6 DEF CallsType, ReadsType
  <2>8. QED  BY <2>1, <2>7, KeptTypes DEF FsTypeOK
<1>6. CASE CloseRead(h) \/ CloseWrite(h)
  <2>1. CallsType'
    BY <1>6 DEF CloseRead, CloseWrite, CallsType
  <2>2. WritesType'
    BY <1>6 DEF CloseRead, CloseWrite, WritesType
  <2>3. UNCHANGED <<common, reads>>
    BY <1>6 DEF CloseRead, CloseWrite
  <2>4. QED  BY <2>1, <2>2, <2>3, KeptTypes DEF FsTypeOK
<1>7. CASE Write(h)
  <2>1. answers' \in [Handle -> Seq(Int)]
    <3>1. \E a \in Int : Answer(h, a)
      BY <1>7 DEF Write
    <3>2. QED  BY <1>2, <3>1 DEF Answer, CallsType
  <2>2. waiters' \in [Handle -> Seq(Int)]
    BY <1>2, <1>7 DEF Write, CallsType
  <2>3. accepted' \in [Handle -> Nat]
    BY <1>7 DEF Write, WritesType
  <2>4. needDrain' \in [Handle -> BOOLEAN]
    BY <1>7 DEF Write, WritesType
  <2>5. UNCHANGED <<common, open, reads, flushed, ending, closed>>
    BY <1>7 DEF Write
  <2>6. CallsType' /\ WritesType'
    BY <2>1, <2>2, <2>3, <2>4, <2>5 DEF CallsType, WritesType
  <2>7. QED  BY <2>5, <2>6, KeptTypes DEF FsTypeOK
<1>8. CASE OnData(h)
  <2>1. /\ Emits(h) /\ flowing[h] /\ GiveChunk(h)
        /\ UNCHANGED <<common, open, ended, error, writes>>
    BY <1>8 DEF OnData
  <2>2. emitted' \in [Handle -> Nat]
    BY <1>8 DEF OnData, ReadsType
  <2>3. CallsType' /\ ReadsType'
    BY <2>1, <2>2, GiveType DEF CallsType, ReadsType
  <2>4. QED  BY <2>1, <2>3, KeptTypes DEF FsTypeOK
<1>9. CASE OnEnd(h)
  <2>1. Release(h, Eof) /\ UNCHANGED <<common, open, flowing, emitted, queue, error, writes>>
    BY <1>9 DEF OnEnd
  <2>2. ended' \in [Handle -> BOOLEAN]
    BY <1>9 DEF OnEnd, ReadsType
  <2>3. CallsType' /\ ReadsType'
    BY <2>1, <2>2, ReleaseType DEF CallsType, ReadsType
  <2>4. QED  BY <2>1, <2>3, KeptTypes DEF FsTypeOK
<1>10. CASE Flush(h)
  <2>1. Release(h, Done) \/ UNCHANGED <<answers, waiters>>
    BY <1>10 DEF Flush
  <2>2. UNCHANGED <<common, open, reads, accepted, ending, closed>>
    BY <1>10 DEF Flush
  <2>3. CallsType'
    BY <2>1, <2>2, ReleaseType DEF CallsType
  <2>4. flushed' \in [Handle -> Nat]
    BY <1>10 DEF Flush, WritesType
  <2>5. needDrain' \in [Handle -> BOOLEAN]
    BY <1>10 DEF Flush, WritesType
  <2>6. WritesType'
    BY <2>2, <2>4, <2>5 DEF WritesType
  <2>7. QED  BY <2>2, <2>3, <2>6, KeptTypes DEF FsTypeOK
<1>11. CASE OnFinish(h)
  <2>1. WritesType'
    BY <1>11 DEF OnFinish, WritesType
  <2>2. UNCHANGED <<common, open, answers, waiters, reads>>
    BY <1>11 DEF OnFinish
  <2>3. QED  BY <2>1, <2>2, KeptTypes DEF FsTypeOK
<1>12. CASE OnReadError(h)
  <2>1. faults' \in Nat
    BY <1>12 DEF OnReadError, CommonType
  <2>2. CommonType'
    BY <1>12, <2>1 DEF OnReadError, CommonType
  <2>3. ReadsType'
    BY <1>12 DEF OnReadError, ReadsType
  <2>4. UNCHANGED <<open, answers, waiters, writes>>
    BY <1>12 DEF OnReadError
  <2>5. QED  BY <2>2, <2>3, <2>4, KeptTypes DEF FsTypeOK
<1>13. CASE OnWriteError(h)
  <2>1. faults' \in Nat
    BY <1>13 DEF OnWriteError, CommonType
  <2>2. CommonType'
    BY <1>13, <2>1 DEF OnWriteError, CommonType
  <2>3. UNCHANGED <<open, answers, waiters, reads, writes>>
    BY <1>13 DEF OnWriteError
  <2>4. QED  BY <2>2, <2>3, KeptTypes DEF FsTypeOK
<1>14. QED
  BY <1>3, <1>4, <1>5, <1>6, <1>7, <1>8, <1>9, <1>10, <1>11, <1>12, <1>13 DEF Call, StreamEvent

-----------------------------------------------------------------------------
(* The other handles. *)

Same(g) ==
  UNCHANGED <<mode[g], open[g], answers[g], waiters[g], flowing[g], emitted[g], queue[g],
              ended[g], error[g], accepted[g], flushed[g], ending[g], closed[g]>>

\* A handle a step does not touch keeps its invariant.
LEMMA SameKeeps ==
  ASSUME FsTypeOK, NEW g \in Handle, HandleInv(g), Same(g), nextHandle' >= nextHandle,
         nextHandle' \in Nat
  PROVE  HandleInv(g)'
<1>1. Untouched(g)'
  BY DEF HandleInv, Untouched, NotReading, NotWriting, Same, FsTypeOK, CommonType
<1>2. ReadInv(g)'
  BY DEF HandleInv, ReadInv, ReadsLineUp, Emits, EndAfterAll, PausedByQueue, AnsweredInOrder, Same
<1>3. WriteInv(g)'
  BY DEF HandleInv, WriteInv, Same
<1>4. QED  BY <1>1, <1>2, <1>3 DEF HandleInv

\* An action changes what it changes at its own handle.
LEMMA OthersSame ==
  ASSUME FsTypeOK, FsInv, NEW h \in Handle,
         Call(h) \/ StreamEvent(h) \/ OnReadError(h) \/ OnWriteError(h)
  PROVE  /\ nextHandle' >= nextHandle /\ nextHandle' \in Nat
         /\ \A g \in Handle \ {h} : Same(g)
<1>1. nextHandle' >= nextHandle /\ nextHandle' \in Nat
  BY DEF Call, StreamEvent, OpenRead, OpenWrite, Open, CallUnknown, Read, CloseRead, Write,
     CloseWrite, OnData, OnEnd, Flush, OnFinish, OnReadError, OnWriteError, FsTypeOK, CommonType
<1> CommonType /\ CallsType /\ ReadsType /\ WritesType
  BY DEF FsTypeOK
<1> SUFFICES ASSUME NEW g \in Handle, g # h PROVE Same(g)
  BY <1>1
<1>2. CASE OpenRead(h) \/ OpenWrite(h)
  BY <1>2 DEF OpenRead, OpenWrite, Open, CommonType, CallsType, ReadsType, WritesType, Same
<1>3. CASE CallUnknown(h)
  BY <1>3 DEF CallUnknown, Answer, CommonType, CallsType, ReadsType, WritesType, Same
<1>4. CASE Read(h)
  BY <1>4 DEF Read, ReadFailed, ReadQueued, ReadAtEnd, ReadWait, Answer, CommonType, CallsType, ReadsType, WritesType, Same
<1>5. CASE CloseRead(h) \/ CloseWrite(h)
  BY <1>5 DEF CloseRead, CloseWrite, CommonType, CallsType, ReadsType, WritesType, Same
<1>6. CASE Write(h)
  BY <1>6 DEF Write, Answer, CommonType, CallsType, ReadsType, WritesType, Same
<1>7. CASE OnData(h)
  BY <1>7, GiveType DEF OnData, CommonType, CallsType, ReadsType, WritesType, Same
<1>8. CASE OnEnd(h)
  BY <1>8, ReleaseType DEF OnEnd, CommonType, CallsType, ReadsType, WritesType, Same
<1>9. CASE Flush(h)
  <2>1. answers'[g] = answers[g] /\ waiters'[g] = waiters[g]
    BY <1>9, ReleaseType DEF Flush
  <2>2. QED  BY <1>9, <2>1 DEF Flush, FsTypeOK, WritesType, Same
<1>10. CASE OnFinish(h) \/ OnReadError(h) \/ OnWriteError(h)
  BY <1>10 DEF OnFinish, OnReadError, OnWriteError, CommonType, CallsType, ReadsType, WritesType, Same
<1>11. QED
  BY <1>2, <1>3, <1>4, <1>5, <1>6, <1>7, <1>8, <1>9, <1>10 DEF Call, StreamEvent

-----------------------------------------------------------------------------
(* The handle of the action. *)

\* What its invariant says of a handle, with its types.
LEMMA HandleFacts ==
  ASSUME FsTypeOK, FsInv, NEW h \in Handle
  PROVE  /\ Untouched(h) /\ ReadInv(h) /\ WriteInv(h)
         /\ answers[h] \in Seq(Int) /\ waiters[h] \in Seq(Int) /\ queue[h] \in Seq(Int)
         /\ Len(answers[h]) \in Nat /\ Len(waiters[h]) \in Nat /\ Len(queue[h]) \in Nat
         /\ emitted[h] \in Nat /\ accepted[h] \in Nat /\ flushed[h] \in Nat
         /\ nextHandle \in Nat
BY DEF FsInv, HandleInv, FsTypeOK, CommonType, CallsType, ReadsType, WritesType

\* Opening: the handle is as Init left it.
LEMMA OpenKeeps ==
  ASSUME FsTypeOK, FsInv, NEW h \in Handle, OpenRead(h) \/ OpenWrite(h)
  PROVE  HandleInv(h)'
<1> CommonType /\ CallsType /\ ReadsType /\ WritesType
  BY DEF FsTypeOK
<1>1. /\ mode[h] = "none" /\ answers[h] = <<>> /\ waiters[h] = <<>>
      /\ NotReading(h) /\ NotWriting(h)
  BY HandleFacts DEF OpenRead, OpenWrite, Open, Untouched
<1>2. /\ UNCHANGED <<answers, waiters, emitted, queue, ended, error, writes>>
      /\ nextHandle' = nextHandle + 1 /\ h = nextHandle
      /\ open'[h]
      /\ mode'[h] = "read" \/ (mode'[h] = "write" /\ flowing' = flowing)
  <2>1. CASE OpenRead(h)
    <3>1. /\ UNCHANGED <<answers, waiters, emitted, queue, ended, error, writes>>
          /\ nextHandle' = nextHandle + 1 /\ h = nextHandle
      BY <2>1 DEF OpenRead, Open
    <3>2. open'[h] /\ mode'[h] = "read"
      BY <2>1 DEF OpenRead, Open, CommonType, CallsType
    <3>3. QED  BY <3>1, <3>2
  <2>2. CASE OpenWrite(h)
    <3>1. /\ UNCHANGED <<answers, waiters, emitted, queue, ended, error, writes>>
          /\ nextHandle' = nextHandle + 1 /\ h = nextHandle
      BY <2>2 DEF OpenWrite, Open
    <3>2. open'[h] /\ mode'[h] = "write" /\ flowing' = flowing
      BY <2>2 DEF OpenWrite, Open, CommonType, CallsType
    <3>3. QED  BY <3>1, <3>2
  <2>3. QED  BY <2>1, <2>2
<1>3. Untouched(h)'
  BY <1>1, <1>2, HandleFacts DEF Untouched, NotReading, NotWriting
<1>4. ReadInv(h)'
  BY <1>1, <1>2 DEF ReadInv, ReadsLineUp, EndAfterAll, PausedByQueue, AnsweredInOrder, NotReading
<1>5. WriteInv(h)'
  BY <1>1, <1>2, FsBounds DEF WriteInv, NotWriting
<1>6. QED  BY <1>3, <1>4, <1>5 DEF HandleInv

\* A call is answered at the end of the list.
LEMMA AnswerFacts ==
  ASSUME FsTypeOK, NEW h \in Handle, NEW a \in Int, Answer(h, a)
  PROVE  /\ Len(answers'[h]) = Len(answers[h]) + 1
         /\ answers'[h][Len(answers[h]) + 1] = a
         /\ \A j \in 1 .. Len(answers[h]) : answers'[h][j] = answers[h][j]
         /\ Len(answers[h]) \in Nat
<1>1. answers[h] \in Seq(Int) /\ answers'[h] = Append(answers[h], a)
  BY DEF FsTypeOK, CallsType, Answer
<1>2. QED  BY <1>1, AddOne

\* An answer that is no chunk, or the right one, keeps the answers in order.
LEMMA AnswerInOrder ==
  ASSUME FsTypeOK, NEW h \in Handle, AnsweredInOrder(h), NEW a \in Int, Answer(h, a),
         a \in 1 .. FileChunks => a = Len(answers[h]) + 1,
         a = Eof => Len(answers[h]) >= FileChunks
  PROVE  AnsweredInOrder(h)'
<1>1. SUFFICES ASSUME NEW i \in 1 .. Len(answers'[h])
               PROVE  /\ answers'[h][i] \in 1 .. FileChunks => answers'[h][i] = i
                      /\ answers'[h][i] = Eof => i > FileChunks
  BY DEF AnsweredInOrder
<1>2. CASE i \in 1 .. Len(answers[h])
  <2>1. answers'[h][i] = answers[h][i]
    BY <1>2, AnswerFacts
  <2>2. QED  BY <1>2, <2>1 DEF AnsweredInOrder
<1>3. CASE i = Len(answers[h]) + 1
  <2>1. answers'[h][i] = a /\ Len(answers[h]) \in Nat
    BY <1>3, AnswerFacts
  <2>2. QED  BY <1>3, <2>1, FsBounds
<1>4. i \in 1 .. Len(answers[h]) \/ i = Len(answers[h]) + 1
  <2>1. Len(answers'[h]) = Len(answers[h]) + 1 /\ Len(answers[h]) \in Nat
    BY AnswerFacts
  <2>2. QED  BY <2>1
<1>5. QED  BY <1>2, <1>3, <1>4

\* A call that writes nothing keeps what is known of the writes.
LEMMA AnswerKeepsWrites ==
  ASSUME FsTypeOK, FsInv, NEW h \in Handle, NEW a \in Int, Answer(h, a),
         ~(mode[h] = "write" /\ open[h]),
         UNCHANGED <<mode, open, accepted, flushed, ending, closed>>
  PROVE  WriteInv(h)'
<1>1. /\ Len(answers'[h]) = Len(answers[h]) + 1
      /\ \A j \in 1 .. Len(answers[h]) : answers'[h][j] = answers[h][j]
  BY AnswerFacts
<1>2. /\ WriteInv(h) /\ Len(answers[h]) \in Nat
      /\ accepted[h] \in Nat /\ flushed[h] \in Nat
  BY HandleFacts
<1>3. accepted[h] - flushed[h] >= HighWaterMark => answers'[h][accepted[h]] = Waiting
  <2>1. SUFFICES ASSUME accepted[h] - flushed[h] >= HighWaterMark
                 PROVE  answers'[h][accepted[h]] = Waiting
    OBVIOUS
  <2>2. accepted[h] \in 1 .. Len(answers[h])
    BY <1>2, <2>1, FsBounds DEF WriteInv
  <2>3. QED  BY <1>1, <1>2, <2>1, <2>2 DEF WriteInv
<1>4. accepted'[h] <= Len(answers'[h])
  BY <1>1, <1>2 DEF WriteInv
<1>5. (ending[h] => ~open[h]) /\ (closed[h] => ending[h] /\ flushed[h] = accepted[h]) /\ flushed[h] <= accepted[h]
  BY <1>2 DEF WriteInv
<1>6. QED  BY <1>3, <1>4, <1>5 DEF WriteInv

\* A call on an unknown handle is answered and changes nothing else.
LEMMA UnknownKeeps ==
  ASSUME FsTypeOK, FsInv, NEW h \in Handle, CallUnknown(h)
  PROVE  HandleInv(h)'
<1>1. /\ mode[h] # "none" /\ ~open[h] /\ Answer(h, Failed) /\ Failed \in Int
      /\ UNCHANGED <<common, open, waiters, reads, writes>>
  BY DEF CallUnknown, MayCall
<1>2. Len(answers'[h]) = Len(answers[h]) + 1 /\ Len(answers[h]) \in Nat
  BY <1>1, AnswerFacts
<1>3. Untouched(h) /\ ReadInv(h)
  BY HandleFacts
<1>4. Untouched(h)'
  BY <1>1, <1>3 DEF Untouched, NotReading, NotWriting
<1>5. AnsweredInOrder(h)'
  <2>1. AnsweredInOrder(h)
    BY <1>3 DEF ReadInv
  <2>2. Failed \notin 1 .. FileChunks /\ Failed # Eof
    BY FsBounds
  <2>3. QED  BY <1>1, <2>1, <2>2, AnswerInOrder
<1>6. ReadsLineUp(h)' /\ PausedByQueue(h)'
  BY <1>1, <1>3 DEF ReadInv, ReadsLineUp, PausedByQueue, Emits
<1>7. EndAfterAll(h)'
  BY <1>1, <1>2, <1>3, FsBounds DEF ReadInv, EndAfterAll
<1>8. WriteInv(h)'
  BY <1>1, AnswerKeepsWrites
<1>9. QED  BY <1>4, <1>5, <1>6, <1>7, <1>8 DEF HandleInv, ReadInv

\* Whatever way a read goes, the write side of the handle is not concerned.
LEMMA ReadKeepsRest ==
  ASSUME FsTypeOK, FsInv, NEW h \in Handle, Read(h)
  PROVE  Untouched(h)' /\ WriteInv(h)'
<1>1. /\ mode[h] = "read" /\ open[h]
      /\ UNCHANGED <<common, open, emitted, ended, error, writes>>
  BY DEF Read
<1>2. Untouched(h)'
  BY <1>1, HandleFacts DEF Untouched, NotWriting
<1>3. \E a \in Int : Answer(h, a)
  <2>1. queue[h] # <<>> => Head(queue[h]) \in Int
    BY HandleFacts, DropOne
  <2>2. ReadFailed(h) \/ ReadQueued(h) \/ ReadAtEnd(h) \/ ReadWait(h)
    BY DEF Read
  <2>3. QED  BY <2>1, <2>2 DEF ReadFailed, ReadQueued, ReadAtEnd, ReadWait
<1>4. QED  BY <1>1, <1>2, <1>3, AnswerKeepsWrites

\* A read of a failed stream is answered with its error.
LEMMA ReadFailedKeeps ==
  ASSUME FsTypeOK, FsInv, NEW h \in Handle, Read(h), ReadFailed(h)
  PROVE  ReadInv(h)'
<1>1. /\ error[h] /\ Answer(h, Failed) /\ Failed \in Int
      /\ UNCHANGED <<mode, open, emitted, ended, error, waiters, queue, flowing>>
  BY DEF Read, ReadFailed
<1>2. ReadInv(h)
  BY HandleFacts
<1>3. Failed \notin 1 .. FileChunks /\ Failed # Eof
  BY FsBounds
<1>4. AnsweredInOrder(h)'
  BY <1>1, <1>2, <1>3, AnswerInOrder DEF ReadInv
<1>5. EndAfterAll(h)' /\ PausedByQueue(h)'
  BY <1>1, <1>2 DEF ReadInv, EndAfterAll, PausedByQueue
<1>6. ended[h]
  BY <1>1, <1>2 DEF ReadInv, EndAfterAll
<1>7. ReadsLineUp(h)'
  BY <1>1, <1>6 DEF ReadsLineUp, Emits
<1>8. QED  BY <1>4, <1>5, <1>7 DEF ReadInv

\* The chunk that is queued is the one this call is to get.
LEMMA ReadQueuedKeeps ==
  ASSUME FsTypeOK, FsInv, NEW h \in Handle, Read(h), ReadQueued(h)
  PROVE  ReadInv(h)'
<1>1. /\ ~error[h] /\ queue[h] # <<>> /\ Answer(h, Head(queue[h]))
      /\ mode[h] = "read" /\ open[h]
      /\ UNCHANGED <<mode, open, emitted, ended, error, waiters>>
  BY DEF Read, ReadQueued
<1>2. queue'[h] = Tail(queue[h]) /\ flowing'[h]
  BY DEF ReadQueued, FsTypeOK, ReadsType
<1>3. /\ ReadInv(h) /\ queue[h] \in Seq(Int)
      /\ Len(answers[h]) \in Nat /\ emitted[h] \in Nat
  BY HandleFacts
<1>4. ~ended[h] /\ Emits(h)
  BY <1>1, <1>3 DEF ReadInv, EndAfterAll, Emits
<1>5. Len(queue[h]) = 1 /\ waiters[h] = <<>> /\ queue[h][1] = emitted[h]
  <2>1. Len(queue[h]) >= 1
    BY <1>1, <1>3, DropOne
  <2>2. Len(queue[h]) <= 1 /\ waiters[h] = <<>>
    BY <1>1, <1>3 DEF ReadInv, PausedByQueue
  <2>3. queue[h][1] = emitted[h]
    BY <1>1, <1>3, <1>4 DEF ReadInv, ReadsLineUp
  <2>4. Len(queue[h]) = 1
    <3>1. Len(queue[h]) \in Nat
      BY HandleFacts
    <3>2. Len(queue[h]) <= 1
      BY <2>2
    <3>3. QED  BY <2>1, <3>1, <3>2, OneExactly
  <2>5. QED  BY <2>2, <2>3, <2>4
<1>6. queue'[h] = <<>> /\ Head(queue[h]) = emitted[h]
  <2>1. Tail(queue[h]) \in Seq(Int) /\ Len(Tail(queue[h])) = 0 /\ Head(queue[h]) = queue[h][1]
    BY <1>1, <1>3, <1>5, DropOne
  <2>2. Tail(queue[h]) = <<>>
    BY <2>1, NoneLeft
  <2>3. QED  BY <1>2, <1>5, <2>1, <2>2
<1>7. Len(answers[h]) = emitted[h] - 1
  BY <1>3, <1>4, <1>5 DEF ReadInv, ReadsLineUp
<1>8. AnsweredInOrder(h)'
  <2>1. AnsweredInOrder(h) /\ Answer(h, emitted[h]) /\ emitted[h] = Len(answers[h]) + 1 /\ emitted[h] # Eof
    BY <1>1, <1>3, <1>6, <1>7 DEF ReadInv
  <2>2. QED  BY <1>3, <2>1, AnswerInOrder
<1>9. ReadsLineUp(h)'
  <2>1. Len(answers'[h]) = emitted[h]
    BY <1>1, <1>3, <1>6, <1>7, AnswerFacts
  <2>2. QED  BY <1>1, <1>3, <1>5, <1>6, <2>1 DEF ReadsLineUp
<1>10. EndAfterAll(h)' /\ PausedByQueue(h)'
  BY <1>1, <1>4, <1>6 DEF EndAfterAll, PausedByQueue
<1>11. QED  BY <1>8, <1>9, <1>10 DEF ReadInv

\* A read at the end is answered with the end.
LEMMA ReadAtEndKeeps ==
  ASSUME FsTypeOK, FsInv, NEW h \in Handle, Read(h), ReadAtEnd(h)
  PROVE  ReadInv(h)'
<1>1. /\ ~error[h] /\ ended[h] /\ Answer(h, Eof) /\ Eof \in Int
      /\ UNCHANGED <<mode, open, emitted, ended, error, waiters, queue, flowing>>
  BY DEF Read, ReadAtEnd
<1>2. ReadInv(h) /\ Len(answers[h]) \in Nat
  BY HandleFacts
<1>3. Len(answers[h]) >= FileChunks /\ queue[h] = <<>>
  BY <1>1, <1>2 DEF ReadInv, EndAfterAll
<1>4. AnsweredInOrder(h)'
  <2>1. AnsweredInOrder(h) /\ Eof \notin 1 .. FileChunks
    BY <1>2, FsBounds DEF ReadInv
  <2>2. QED  BY <1>1, <1>3, <2>1, AnswerInOrder
<1>5. Len(answers'[h]) = Len(answers[h]) + 1
  BY <1>1, AnswerFacts
<1>6. EndAfterAll(h)' /\ PausedByQueue(h)' /\ ReadsLineUp(h)'
  <2>1. EndAfterAll(h)'
    BY <1>1, <1>2, <1>3, <1>5, FsBounds DEF EndAfterAll
  <2>2. PausedByQueue(h)' /\ ReadsLineUp(h)'
    BY <1>1, <1>2 DEF ReadInv, PausedByQueue, ReadsLineUp, Emits
  <2>3. QED  BY <2>1, <2>2
<1>7. QED  BY <1>4, <1>6 DEF ReadInv

\* A call that waits takes the next place behind the chunks handed out.
LEMMA ReadWaitKeeps ==
  ASSUME FsTypeOK, FsInv, NEW h \in Handle, Read(h), ReadWait(h)
  PROVE  ReadInv(h)'
<1>1. /\ queue[h] = <<>> /\ ~ended[h] /\ Answer(h, Waiting) /\ Waiting \in Int
      /\ mode[h] = "read" /\ open[h]
      /\ UNCHANGED <<mode, open, emitted, ended, error, queue>>
  BY DEF Read, ReadWait
<1>2. waiters'[h] = Append(waiters[h], Len(answers[h]) + 1)
  BY DEF ReadWait, ThisCall, FsTypeOK, CallsType
<1>3. /\ ReadInv(h) /\ waiters[h] \in Seq(Int)
      /\ Len(answers[h]) \in Nat /\ Len(waiters[h]) \in Nat /\ emitted[h] \in Nat
  BY HandleFacts
<1>4. Emits(h) /\ Len(queue[h]) = 0
  BY <1>1 DEF Emits
<1>5. /\ Len(answers[h]) = emitted[h] + Len(waiters[h])
      /\ \A j \in 1 .. Len(waiters[h]) : waiters[h][j] = emitted[h] + j
  BY <1>3, <1>4 DEF ReadInv, ReadsLineUp
<1>6. /\ Len(waiters'[h]) = Len(waiters[h]) + 1
      /\ waiters'[h][Len(waiters[h]) + 1] = Len(answers[h]) + 1
      /\ \A j \in 1 .. Len(waiters[h]) : waiters'[h][j] = waiters[h][j]
  BY <1>2, <1>3, AddOne
<1>7. AnsweredInOrder(h)'
  <2>1. AnsweredInOrder(h) /\ Waiting \notin 1 .. FileChunks /\ Waiting # Eof
    BY <1>3, FsBounds DEF ReadInv
  <2>2. QED  BY <1>1, <2>1, AnswerInOrder
<1>8. ReadsLineUp(h)'
  <2>1. Len(answers'[h]) = Len(answers[h]) + 1
    BY <1>1, AnswerFacts
  <2>2. \A j \in 1 .. Len(waiters[h]) + 1 : waiters'[h][j] = emitted[h] + j
    <3>1. \A j \in 1 .. Len(waiters[h]) + 1 : j \in 1 .. Len(waiters[h]) \/ j = Len(waiters[h]) + 1
      BY <1>3
    <3>2. waiters'[h][Len(waiters[h]) + 1] = emitted[h] + (Len(waiters[h]) + 1)
      BY <1>3, <1>5, <1>6
    <3>3. QED  BY <1>5, <1>6, <3>1, <3>2
  <2>3. emitted'[h] = emitted[h] /\ queue'[h] = <<>> /\ Len(queue'[h]) = 0
    BY <1>1
  <2>4. Len(answers'[h]) = emitted'[h] - Len(queue'[h]) + Len(waiters'[h])
    BY <1>3, <1>5, <1>6, <2>1, <2>3
  <2>5. \A j \in 1 .. Len(waiters'[h]) : waiters'[h][j] = emitted'[h] - Len(queue'[h]) + j
    BY <1>3, <1>6, <2>2, <2>3
  <2>6. QED  BY <2>3, <2>4, <2>5 DEF ReadsLineUp
<1>9. EndAfterAll(h)' /\ PausedByQueue(h)'
  BY <1>1, <1>3 DEF ReadInv, EndAfterAll, PausedByQueue
<1>10. QED  BY <1>7, <1>8, <1>9 DEF ReadInv

\* A read keeps the invariant of its handle in every case.
LEMMA ReadKeeps ==
  ASSUME FsTypeOK, FsInv, NEW h \in Handle, Read(h)
  PROVE  HandleInv(h)'
<1>1. ReadFailed(h) \/ ReadQueued(h) \/ ReadAtEnd(h) \/ ReadWait(h)
  BY DEF Read
<1>2. ReadInv(h)'
  BY <1>1, ReadFailedKeeps, ReadQueuedKeeps, ReadAtEndKeeps, ReadWaitKeeps
<1>3. QED  BY <1>2, ReadKeepsRest DEF HandleInv

\* A closed read stream emits nothing; a closed write stream is given nothing.
LEMMA CloseKeeps ==
  ASSUME FsTypeOK, FsInv, NEW h \in Handle, CloseRead(h) \/ CloseWrite(h)
  PROVE  HandleInv(h)'
<1>1. /\ UNCHANGED <<common, answers, waiters, reads, accepted, flushed, closed>>
      /\ mode[h] = "read" \/ mode[h] = "write"
  BY DEF CloseRead, CloseWrite
<1>2. ~open'[h] /\ (ending'[h] => ending[h] \/ mode[h] = "write")
  BY DEF CloseRead, CloseWrite, FsTypeOK, CallsType, WritesType
<1>3. ending[h] => ending'[h]
  BY DEF CloseRead, CloseWrite, FsTypeOK, WritesType
<1>4. Untouched(h) /\ ReadInv(h) /\ WriteInv(h)
  BY HandleFacts
<1>5. Untouched(h)'
  BY <1>1, <1>2, <1>4 DEF Untouched, NotReading, NotWriting
<1>6. ReadInv(h)'
  <2>1. ReadsLineUp(h)'
    BY <1>2 DEF ReadsLineUp, Emits
  <2>2. QED  BY <1>1, <1>4, <2>1 DEF ReadInv, EndAfterAll, PausedByQueue, AnsweredInOrder
<1>7. WriteInv(h)'
  BY <1>1, <1>2, <1>3, <1>4 DEF WriteInv
<1>8. QED  BY <1>5, <1>6, <1>7 DEF HandleInv

\* The chunk of a write is the call of its number; if it fills the buffer, the call waits.
LEMMA WriteKeeps ==
  ASSUME FsTypeOK, FsInv, NEW h \in Handle, Write(h)
  PROVE  HandleInv(h)'
<1>1. /\ mode[h] = "write" /\ open[h]
      /\ UNCHANGED <<common, open, reads, flushed, ending, closed>>
  BY DEF Write
<1>2. PICK a \in {Waiting, Done} : Answer(h, a) /\ (MustDrain(h) => a = Waiting)
  BY DEF Write
<1>3. accepted'[h] = accepted[h] + 1
  BY DEF Write, FsTypeOK, WritesType
<1>4. /\ Untouched(h) /\ ReadInv(h) /\ WriteInv(h)
      /\ Len(answers[h]) \in Nat /\ accepted[h] \in Nat /\ flushed[h] \in Nat
  BY HandleFacts
<1>5. /\ Len(answers'[h]) = Len(answers[h]) + 1
      /\ answers'[h][Len(answers[h]) + 1] = a
  BY <1>2, AnswerFacts
<1>6. NotReading(h)
  BY <1>1, <1>4 DEF Untouched
<1>7. Untouched(h)'
  BY <1>1, <1>4 DEF Untouched, NotReading
<1>8. ReadInv(h)'
  <2>1. AnsweredInOrder(h)'
    <3>1. AnsweredInOrder(h) /\ a \notin 1 .. FileChunks /\ a # Eof /\ a \in Int
      BY <1>4, FsBounds DEF ReadInv
    <3>2. QED  BY <1>2, <3>1, AnswerInOrder
  <2>2. ReadsLineUp(h)' /\ EndAfterAll(h)' /\ PausedByQueue(h)'
    <3>1. ~ended[h] /\ ~error[h] /\ queue[h] = <<>> /\ ~flowing[h]
      BY <1>6 DEF NotReading
    <3>2. QED  BY <1>1, <3>1 DEF ReadsLineUp, Emits, EndAfterAll, PausedByQueue
  <2>3. QED  BY <2>1, <2>2 DEF ReadInv
<1>9. WriteInv(h)'
  <2>1. accepted[h] = Len(answers[h]) /\ flushed[h] <= accepted[h] /\ ~ending[h] /\ ~closed[h]
    BY <1>1, <1>4 DEF WriteInv
  <2>2. accepted'[h] = Len(answers'[h]) /\ flushed[h] <= accepted'[h]
    BY <1>3, <1>4, <1>5, <2>1
  <2>3. accepted'[h] - flushed[h] >= HighWaterMark => answers'[h][accepted'[h]] = Waiting
    <3>1. accepted'[h] - flushed[h] >= HighWaterMark => MustDrain(h)
      BY <1>3, <1>4, FsBounds DEF MustDrain
    <3>2. answers'[h][accepted'[h]] = a
      BY <1>3, <1>5, <2>1
    <3>3. QED  BY <1>2, <3>1, <3>2
  <2>4. QED  BY <1>1, <2>1, <2>2, <2>3 DEF WriteInv
<1>10. QED  BY <1>7, <1>8, <1>9 DEF HandleInv

\* A step of the read stream leaves the other facts of the handle.
LEMMA StreamKeepsRest ==
  ASSUME FsTypeOK, FsInv, NEW h \in Handle, mode[h] = "read",
         UNCHANGED <<nextHandle, mode, open, writes>>, Len(answers'[h]) = Len(answers[h])
  PROVE  Untouched(h)' /\ WriteInv(h)'
<1>1. /\ Untouched(h) /\ WriteInv(h) /\ NotWriting(h)
      /\ Len(answers[h]) \in Nat
  BY HandleFacts DEF Untouched
<1>2. Untouched(h)'
  BY <1>1 DEF Untouched, NotWriting
<1>3. accepted[h] = 0 /\ flushed[h] = 0 /\ ~ending[h] /\ ~closed[h]
  BY <1>1 DEF NotWriting
<1>4. WriteInv(h)'
  BY <1>1, <1>3, FsBounds DEF WriteInv
<1>5. QED  BY <1>2, <1>4

\* Nobody waits: the chunk is queued and the stream pauses.
LEMMA QueueChunkKeeps ==
  ASSUME FsTypeOK, FsInv, NEW h \in Handle, OnData(h), waiters[h] = <<>>
  PROVE  HandleInv(h)'
<1>1. /\ Emits(h) /\ flowing[h] /\ emitted[h] < FileChunks
      /\ UNCHANGED <<common, open, ended, error, writes, answers, waiters>>
  BY DEF OnData, GiveChunk
<1>2. /\ emitted'[h] = emitted[h] + 1
      /\ queue'[h] = Append(queue[h], emitted[h] + 1)
      /\ ~flowing'[h]
  BY DEF OnData, GiveChunk, FsTypeOK, ReadsType
<1>3. /\ ReadInv(h) /\ emitted[h] \in Nat /\ Len(answers[h]) \in Nat
      /\ queue[h] = <<>>
  BY <1>1, HandleFacts DEF ReadInv, PausedByQueue
<1>4. queue'[h] = <<emitted[h] + 1>>
  BY <1>2, <1>3
<1>5. Len(queue'[h]) = 1 /\ queue'[h][1] = emitted[h] + 1 /\ queue'[h] # <<>>
  BY <1>3, <1>4
<1>6. Len(answers[h]) = emitted[h]
  BY <1>1, <1>3 DEF ReadInv, ReadsLineUp
<1>7. ReadsLineUp(h)'
  BY <1>1, <1>2, <1>3, <1>5, <1>6 DEF ReadsLineUp
<1>8. ~ended[h] /\ ~error[h] /\ mode[h] = "read"
  BY <1>1, <1>3 DEF Emits, ReadInv, EndAfterAll
<1>9. EndAfterAll(h)' /\ AnsweredInOrder(h)'
  BY <1>1, <1>3, <1>8 DEF EndAfterAll, AnsweredInOrder, ReadInv
<1>10. PausedByQueue(h)'
  BY <1>1, <1>2, <1>5 DEF PausedByQueue
<1>11. Untouched(h)' /\ WriteInv(h)'
  BY <1>1, <1>8, StreamKeepsRest
<1>12. QED  BY <1>7, <1>9, <1>10, <1>11 DEF HandleInv, ReadInv

\* The call that waits longest gets the chunk, and it is the chunk of its number.
LEMMA HandChunkKeeps ==
  ASSUME FsTypeOK, FsInv, NEW h \in Handle, OnData(h), waiters[h] # <<>>
  PROVE  HandleInv(h)'
<1>1. /\ Emits(h) /\ flowing[h] /\ emitted[h] < FileChunks
      /\ UNCHANGED <<common, open, ended, error, writes, queue, flowing>>
  BY DEF OnData, GiveChunk
<1>2. /\ ReadInv(h) /\ emitted[h] \in Nat /\ Len(answers[h]) \in Nat
      /\ waiters[h] \in Seq(Int) /\ Len(waiters[h]) \in Nat /\ answers[h] \in Seq(Int)
      /\ queue[h] = <<>> /\ Len(queue[h]) = 0
  BY <1>1, HandleFacts DEF ReadInv, PausedByQueue
<1>3. /\ Len(waiters[h]) >= 1
      /\ Head(waiters[h]) = waiters[h][1]
      /\ Len(Tail(waiters[h])) = Len(waiters[h]) - 1
      /\ \A j \in 1 .. Len(waiters[h]) - 1 : Tail(waiters[h])[j] = waiters[h][j + 1]
  BY <1>2, DropOne
<1>4. /\ Len(answers[h]) = emitted[h] + Len(waiters[h])
      /\ \A j \in 1 .. Len(waiters[h]) : waiters[h][j] = emitted[h] + j
  <2>1. /\ Len(answers[h]) = emitted[h] - Len(queue[h]) + Len(waiters[h])
        /\ \A j \in 1 .. Len(waiters[h]) : waiters[h][j] = emitted[h] - Len(queue[h]) + j
    BY <1>1, <1>2 DEF ReadInv, ReadsLineUp
  <2>2. emitted[h] \in Nat /\ Len(queue[h]) = 0 /\ emitted[h] - Len(queue[h]) = emitted[h]
    BY <1>2
  <2>3. QED  BY <2>1, <2>2
<1>5. Head(waiters[h]) = emitted[h] + 1 /\ emitted[h] + 1 \in 1 .. Len(answers[h])
  BY <1>2, <1>3, <1>4
<1>6. /\ emitted'[h] = emitted[h] + 1
      /\ waiters'[h] = Tail(waiters[h])
      /\ answers'[h] = [answers[h] EXCEPT ![emitted[h] + 1] = emitted[h] + 1]
  <2>1. answers'[h] = [answers[h] EXCEPT ![Head(waiters[h])] = emitted[h] + 1]
    BY DEF OnData, GiveChunk, FsTypeOK, CallsType
  <2>2. emitted'[h] = emitted[h] + 1 /\ waiters'[h] = Tail(waiters[h])
    BY DEF OnData, GiveChunk, FsTypeOK, CallsType, ReadsType
  <2>3. QED  BY <1>5, <2>1, <2>2
<1>7. /\ Len(answers'[h]) = Len(answers[h])
      /\ \A j \in 1 .. Len(answers[h]) :
           answers'[h][j] = IF j = emitted[h] + 1 THEN emitted[h] + 1 ELSE answers[h][j]
  BY <1>2, <1>5, <1>6, SetOne
<1>8. ReadsLineUp(h)'
  <2>1. Len(answers'[h]) = emitted'[h] - Len(queue'[h]) + Len(waiters'[h])
    BY <1>1, <1>2, <1>3, <1>4, <1>6, <1>7
  <2>2. \A j \in 1 .. Len(waiters'[h]) : waiters'[h][j] = emitted'[h] - Len(queue'[h]) + j
    <3> /\ emitted'[h] - Len(queue'[h]) = emitted[h] + 1
        /\ waiters'[h] = Tail(waiters[h]) /\ Len(waiters'[h]) = Len(waiters[h]) - 1
      <4>1. Len(queue'[h]) = 0 /\ emitted'[h] = emitted[h] + 1
        BY <1>1, <1>2, <1>6
      <4>2. emitted'[h] - Len(queue'[h]) = emitted[h] + 1
        BY <1>2, <4>1
      <4>3. QED  BY <1>3, <1>6, <4>2
    <3>1. SUFFICES ASSUME NEW j \in 1 .. Len(waiters[h]) - 1
                   PROVE  Tail(waiters[h])[j] = emitted[h] + 1 + j
      OBVIOUS
    <3>2. j + 1 \in 1 .. Len(waiters[h])
      BY <1>2
    <3>3. Tail(waiters[h])[j] = waiters[h][j + 1] /\ waiters[h][j + 1] = emitted[h] + (j + 1)
      BY <1>3, <1>4, <3>2
    <3>4. emitted[h] + (j + 1) = emitted[h] + 1 + j
      <4>1. emitted[h] \in Nat /\ j \in Nat
        BY <1>2
      <4>2. QED  BY <4>1
    <3>5. QED  BY <3>3, <3>4
  <2>3. QED  BY <1>1, <1>2, <2>1, <2>2 DEF ReadsLineUp
<1>9. AnsweredInOrder(h)'
  <2>1. SUFFICES ASSUME NEW i \in 1 .. Len(answers[h])
                 PROVE  /\ answers'[h][i] \in 1 .. FileChunks => answers'[h][i] = i
                        /\ answers'[h][i] = Eof => i > FileChunks
    BY <1>7 DEF AnsweredInOrder
  <2>2. CASE i = emitted[h] + 1
    BY <1>2, <1>7, <2>2
  <2>3. CASE i # emitted[h] + 1
    <3>1. answers'[h][i] = answers[h][i]
      BY <1>7, <2>3
    <3>2. QED  BY <1>2, <3>1 DEF ReadInv, AnsweredInOrder
  <2>4. QED  BY <2>2, <2>3
<1>10. mode[h] = "read" /\ ~ended[h] /\ ~error[h]
  BY <1>1, <1>2 DEF Emits, ReadInv, EndAfterAll
<1>11. EndAfterAll(h)' /\ PausedByQueue(h)'
  BY <1>1, <1>2, <1>10 DEF EndAfterAll, PausedByQueue
<1>12. Untouched(h)' /\ WriteInv(h)'
  BY <1>1, <1>7, <1>10, StreamKeepsRest
<1>13. QED  BY <1>8, <1>9, <1>11, <1>12 DEF HandleInv, ReadInv

\* Data that arrives serves the read that waits or is buffered.
LEMMA DataKeeps ==
  ASSUME FsTypeOK, FsInv, NEW h \in Handle, OnData(h)
  PROVE  HandleInv(h)'
BY QueueChunkKeeps, HandChunkKeeps

\* Releasing the waiters gives each the same answer; the order of the rest stands.
LEMMA ReleaseInOrder ==
  ASSUME FsTypeOK, FsInv, NEW h \in Handle, NEW a \in Int, Release(h, a), a \notin 1 .. FileChunks,
         a = Eof => \A j \in 1 .. Len(waiters[h]) : waiters[h][j] > FileChunks
  PROVE  AnsweredInOrder(h)'
<1>1. /\ Len(answers'[h]) = Len(answers[h])
      /\ \A j \in 1 .. Len(answers[h]) :
           answers'[h][j] = IF j \in Range(waiters[h]) THEN a ELSE answers[h][j]
  BY ReleaseType
<1>2. AnsweredInOrder(h) /\ waiters[h] \in Seq(Int)
  BY HandleFacts DEF ReadInv
<1>3. SUFFICES ASSUME NEW i \in 1 .. Len(answers[h])
               PROVE  /\ answers'[h][i] \in 1 .. FileChunks => answers'[h][i] = i
                      /\ answers'[h][i] = Eof => i > FileChunks
  BY <1>1 DEF AnsweredInOrder
<1>4. CASE i \in Range(waiters[h])
  <2>1. answers'[h][i] = a
    BY <1>1, <1>4
  <2>2. \E j \in 1 .. Len(waiters[h]) : i = waiters[h][j]
    BY <1>2, <1>4 DEF Range
  <2>3. QED  BY <2>1, <2>2
<1>5. CASE i \notin Range(waiters[h])
  <2>1. answers'[h][i] = answers[h][i]
    BY <1>1, <1>5
  <2>2. QED  BY <1>2, <2>1 DEF AnsweredInOrder
<1>6. QED  BY <1>4, <1>5

\* At the end every chunk was handed out: who waits has asked beyond the file.
LEMMA EndKeeps ==
  ASSUME FsTypeOK, FsInv, NEW h \in Handle, OnEnd(h)
  PROVE  HandleInv(h)'
<1>1. /\ Emits(h) /\ flowing[h] /\ emitted[h] = FileChunks /\ Release(h, Eof) /\ Eof \in Int
      /\ UNCHANGED <<common, open, flowing, emitted, queue, error, writes>>
  BY DEF OnEnd
<1>2. ended'[h]
  BY DEF OnEnd, FsTypeOK, ReadsType
<1>3. /\ ReadInv(h) /\ emitted[h] \in Nat
      /\ Len(answers[h]) \in Nat /\ Len(waiters[h]) \in Nat
      /\ queue[h] = <<>> /\ Len(queue[h]) = 0
  BY <1>1, HandleFacts DEF ReadInv, PausedByQueue
<1>4. /\ Len(answers[h]) = emitted[h] - Len(queue[h]) + Len(waiters[h])
      /\ \A j \in 1 .. Len(waiters[h]) : waiters[h][j] = emitted[h] - Len(queue[h]) + j
  BY <1>1, <1>3 DEF ReadInv, ReadsLineUp
<1>5. /\ \A j \in 1 .. Len(waiters[h]) : waiters[h][j] > FileChunks
      /\ Len(answers[h]) >= FileChunks
  BY <1>1, <1>3, <1>4
<1>6. Len(answers'[h]) = Len(answers[h]) /\ waiters'[h] = <<>>
  BY <1>1, ReleaseType
<1>7. AnsweredInOrder(h)'
  <2>1. Eof \notin 1 .. FileChunks
    BY FsBounds
  <2>2. QED  BY <1>1, <1>5, <2>1, ReleaseInOrder
<1>8. ReadsLineUp(h)'
  BY <1>2 DEF ReadsLineUp, Emits
<1>9. EndAfterAll(h)'
  BY <1>1, <1>2, <1>3, <1>5, <1>6 DEF EndAfterAll
<1>10. PausedByQueue(h)'
  BY <1>1, <1>3, <1>6 DEF PausedByQueue
<1>11. Untouched(h)' /\ WriteInv(h)'
  BY <1>1, <1>6, StreamKeepsRest DEF Emits
<1>12. QED  BY <1>7, <1>8, <1>9, <1>10, <1>11 DEF HandleInv, ReadInv

\* An error of a read stream fails the handle.
LEMMA ReadErrorKeeps ==
  ASSUME FsTypeOK, FsInv, NEW h \in Handle, OnReadError(h)
  PROVE  HandleInv(h)'
<1>1. /\ mode[h] = "read"
      /\ UNCHANGED <<nextHandle, mode, open, answers, waiters, flowing, emitted, queue, writes>>
  BY DEF OnReadError, Emits
<1>2. ended'[h] /\ error'[h]
  BY DEF OnReadError, FsTypeOK, ReadsType
<1>3. ReadInv(h)'
  BY <1>1, <1>2, HandleFacts DEF ReadInv, ReadsLineUp, Emits, EndAfterAll, PausedByQueue, AnsweredInOrder
<1>4. QED  BY <1>1, <1>3, StreamKeepsRest DEF HandleInv

\* A step of the write stream leaves the other facts of the handle.
LEMMA FileKeepsRest ==
  ASSUME FsTypeOK, FsInv, NEW h \in Handle, mode[h] = "write",
         UNCHANGED <<nextHandle, mode, reads>>, AnsweredInOrder(h)'
  PROVE  Untouched(h)' /\ ReadInv(h)'
<1>1. Untouched(h) /\ NotReading(h)
  BY HandleFacts DEF Untouched
<1>2. Untouched(h)'
  BY <1>1 DEF Untouched, NotReading
<1>3. ~ended[h] /\ ~error[h] /\ queue[h] = <<>> /\ ~flowing[h]
  BY <1>1 DEF NotReading
<1>4. ReadsLineUp(h)' /\ EndAfterAll(h)' /\ PausedByQueue(h)'
  BY <1>3 DEF ReadsLineUp, Emits, EndAfterAll, PausedByQueue
<1>5. QED  BY <1>2, <1>4 DEF ReadInv

\* 'drain' comes with the last chunk: then no buffer is full any more.
LEMMA FlushKeeps ==
  ASSUME FsTypeOK, FsInv, NEW h \in Handle, Flush(h)
  PROVE  HandleInv(h)'
<1>1. /\ mode[h] = "write" /\ flushed[h] < accepted[h]
      /\ UNCHANGED <<common, open, reads, accepted, ending, closed>>
  BY DEF Flush
<1>2. flushed'[h] = flushed[h] + 1
  BY DEF Flush, FsTypeOK, WritesType
<1>3. \/ Release(h, Done) /\ flushed'[h] = accepted[h]
      \/ UNCHANGED <<answers, waiters>>
  BY DEF Flush
<1>4. /\ WriteInv(h) /\ ReadInv(h) /\ accepted[h] \in Nat /\ flushed[h] \in Nat
      /\ Len(answers[h]) \in Nat
  BY HandleFacts
<1>5. AnsweredInOrder(h)' /\ Len(answers'[h]) = Len(answers[h])
  <2>1. CASE Release(h, Done)
    <3>1. Done \notin 1 .. FileChunks /\ Done # Eof /\ Done \in Int
      BY FsBounds
    <3>2. QED  BY <2>1, <3>1, ReleaseInOrder, ReleaseType
  <2>2. CASE UNCHANGED <<answers, waiters>>
    BY <1>4, <2>2 DEF ReadInv, AnsweredInOrder
  <2>3. QED  BY <1>3, <2>1, <2>2
<1>6. accepted[h] - flushed'[h] >= HighWaterMark => answers'[h][accepted[h]] = Waiting
  <2>1. CASE flushed'[h] = accepted[h]
    BY <1>4, <2>1, FsBounds
  <2>2. CASE UNCHANGED <<answers, waiters>>
    <3>1. accepted[h] - flushed'[h] >= HighWaterMark => accepted[h] - flushed[h] >= HighWaterMark
      BY <1>2, <1>4, FsBounds
    <3>2. QED  BY <1>4, <2>2, <3>1 DEF WriteInv
  <2>3. QED  BY <1>3, <2>1, <2>2
<1>7. ~closed[h] /\ flushed'[h] <= accepted[h]
  BY <1>1, <1>2, <1>4 DEF WriteInv
<1>8. WriteInv(h)'
  BY <1>1, <1>4, <1>5, <1>6, <1>7 DEF WriteInv
<1>9. QED  BY <1>1, <1>5, <1>8, FileKeepsRest DEF HandleInv

\* A finished write stream answers those who wait for it.
LEMMA FinishKeeps ==
  ASSUME FsTypeOK, FsInv, NEW h \in Handle, OnFinish(h)
  PROVE  HandleInv(h)'
<1>1. /\ ending[h] /\ flushed[h] = accepted[h]
      /\ UNCHANGED <<common, open, answers, waiters, reads, accepted, flushed, ending>>
  BY DEF OnFinish, Finished
<1>2. WriteInv(h) /\ ReadInv(h) /\ Untouched(h)
  BY HandleFacts
<1>3. mode[h] = "write"
  BY <1>1, <1>2 DEF Untouched, NotWriting
<1>4. WriteInv(h)'
  BY <1>1, <1>2 DEF WriteInv
<1>5. AnsweredInOrder(h)'
  BY <1>1, <1>2 DEF ReadInv, AnsweredInOrder
<1>6. QED  BY <1>1, <1>3, <1>4, <1>5, FileKeepsRest DEF HandleInv

\* A failed write stream answers those who wait for it.
LEMMA WriteErrorKeeps ==
  ASSUME FsTypeOK, FsInv, NEW h \in Handle, OnWriteError(h)
  PROVE  HandleInv(h)'
<1>1. /\ UNCHANGED <<nextHandle, mode, open, answers, waiters, reads, writes>>
      /\ nextHandle \in Nat
  BY HandleFacts DEF OnWriteError
<1>2. HandleInv(h) /\ Same(h) /\ nextHandle' >= nextHandle /\ nextHandle' \in Nat
  BY <1>1 DEF FsInv, Same
<1>3. QED  BY <1>2, SameKeeps

-----------------------------------------------------------------------------
(* The invariant, and what it is for. *)

\* Every step keeps the types and the invariant of each handle.
LEMMA FsInvStep ==
  ASSUME FsTypeOK, FsInv, [Next]_vars
  PROVE  FsTypeOK' /\ FsInv'
<1>1. CASE Next
  <2>1. PICK h \in Handle : Call(h) \/ StreamEvent(h) \/ OnReadError(h) \/ OnWriteError(h)
    BY <1>1 DEF Next
  <2>2. HandleInv(h)'
    BY <2>1, OpenKeeps, UnknownKeeps, ReadKeeps, CloseKeeps, WriteKeeps, DataKeeps, EndKeeps,
       FlushKeeps, FinishKeeps, ReadErrorKeeps, WriteErrorKeeps DEF Call, StreamEvent
  <2>3. \A g \in Handle \ {h} : HandleInv(g)'
    BY <2>1, OthersSame, SameKeeps DEF FsInv
  <2>4. FsInv'
    BY <2>2, <2>3 DEF FsInv
  <2>5. QED  BY <2>1, <2>4, FsTypeStep
<1>2. CASE UNCHANGED vars
  <2>1. FsTypeOK'
    BY <1>2 DEF FsTypeOK, CommonType, CallsType, ReadsType, WritesType
  <2>2. \A g \in Handle : Same(g)
    BY <1>2 DEF Same
  <2>3. nextHandle' >= nextHandle /\ nextHandle' \in Nat
    BY <1>2 DEF FsTypeOK, CommonType
  <2>4. FsInv'
    BY <2>2, <2>3, SameKeeps DEF FsInv
  <2>5. QED  BY <2>1, <2>4
<1>3. QED  BY <1>1, <1>2

\* At the start no handle is open.
LEMMA FsInvInit == Init => FsTypeOK /\ FsInv
<1> SUFFICES ASSUME Init PROVE FsTypeOK /\ FsInv
  OBVIOUS
<1>1. <<>> \in Seq(Int) /\ Len(<<>>) = 0
  OBVIOUS
<1>2. CommonType /\ WritesType
  BY FsBounds DEF Init, CommonType, WritesType
<1>3. CallsType /\ ReadsType
  BY <1>1 DEF Init, CallsType, ReadsType
<1>4. SUFFICES ASSUME NEW h \in Handle PROVE HandleInv(h)
  BY <1>2, <1>3 DEF FsTypeOK, FsInv
<1>5. Untouched(h)
  BY DEF Init, Untouched, NotReading, NotWriting
<1>6. ReadInv(h)
  BY DEF Init, ReadInv, ReadsLineUp, Emits, EndAfterAll, PausedByQueue, AnsweredInOrder
<1>7. WriteInv(h)
  BY FsBounds DEF Init, WriteInv
<1>8. QED  BY <1>5, <1>6, <1>7 DEF HandleInv

\* The invariant of the file streams holds throughout.
LEMMA FsInvariant == Spec => [](FsTypeOK /\ FsInv)
<1>1. Init => FsTypeOK /\ FsInv
  BY FsInvInit
<1>2. FsTypeOK /\ FsInv /\ [Next]_vars => (FsTypeOK /\ FsInv)'
  BY FsInvStep
<1>3. QED  BY <1>1, <1>2, PTL DEF Spec

\* The calls that were pipelined on a read stream get the chunks of the file in the order
\* of the calls and its end only after the last chunk, and at most one chunk is held
\* (read, and the 'data' and 'end' listeners of openRead, fs.node.ts:242-304).
THEOREM ReadsStayInOrder == Spec => []ReadsServed
<1>1. FsTypeOK /\ FsInv => ReadsServed
  <2> SUFFICES ASSUME FsTypeOK, FsInv PROVE ReadsServed
    OBVIOUS
  <2>1. \A h \in Handle : ReadInv(h) /\ answers[h] \in Seq(Int)
    BY HandleFacts
  <2>2. ReadsInOrder
    BY <2>1 DEF ReadsInOrder, ReadInv, AnsweredInOrder
  <2>3. OneChunkAhead
    BY <2>1 DEF OneChunkAhead, ReadInv, PausedByQueue
  <2>4. QED  BY <2>2, <2>3 DEF ReadsServed
<1>2. QED  BY <1>1, FsInvariant, PTL

\* The write that fills the buffer is not answered before the buffer has run empty, and
\* closeWrite resolves with every chunk in the file (write and closeWrite,
\* fs.node.ts:216-241).
THEOREM WritesStayHeld == Spec => []WritesServed
<1>1. FsTypeOK /\ FsInv => WritesServed
  BY HandleFacts DEF WritesServed, FullBufferHoldsWriter, ClosedMeansFlushed, WriteInv
<1>2. QED  BY <1>1, FsInvariant, PTL
=============================================================================
