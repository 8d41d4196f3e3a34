----------------------------- MODULE PartsProofs -----------------------------
(***************************************************************************)
(* The composition of the parts: every part behaves in it as it does       *)
(* alone, every variable has its type, and what the other modules prove of *)
(* the parts holds of the composition; for any constants.                  *)
(***************************************************************************)
EXTENDS MCParts, ServerProofs, MessageProofs, StorageProofs

\* A step of the composition is one of a part, or leaves the part alone.
LEMMA StepOfParts ==
  ASSUME [Next]_vars
  PROVE  /\ [AttachNext]_attachVars
         /\ [OptNext]_optVars
         /\ [StartNext]_startVars
         /\ [HttpNext]_httpVars
         /\ [NestNext]_nestVars
         /\ [JobNext]_jobVars
         /\ [FilesNext]_fileVars
         /\ [TablesNext]_tableVars
         /\ [SendLogNext]_sendLogVars
         /\ [StickersNext]_stickerVars
         /\ [LinksNext]_linkVars
         /\ [FoldersNext]_folderVars
         /\ [PinsNext]_pinVars
         /\ [InboxNext]_inboxVars
         /\ [BootNext]_bootVars
         /\ [SyncNext]_syncVars
<1>1. CASE UNCHANGED vars
  BY <1>1 DEF vars
<1>2. CASE AttachNext /\ UNCHANGED <<optVars, startVars, httpVars, nestVars, jobVars, fileVars, tableVars,
       sendLogVars, stickerVars, linkVars, folderVars, pinVars, inboxVars, bootVars, syncVars>>
  BY <1>2
<1>3. CASE OptNext /\ UNCHANGED <<attachVars, startVars, httpVars, nestVars, jobVars, fileVars, tableVars,
       sendLogVars, stickerVars, linkVars, folderVars, pinVars, inboxVars, bootVars, syncVars>>
  BY <1>3
<1>4. CASE StartNext /\ UNCHANGED <<attachVars, optVars, httpVars, nestVars, jobVars, fileVars, tableVars,
       sendLogVars, stickerVars, linkVars, folderVars, pinVars, inboxVars, bootVars, syncVars>>
  BY <1>4
<1>5. CASE HttpNext /\ UNCHANGED <<attachVars, optVars, startVars, nestVars, jobVars, fileVars, tableVars,
       sendLogVars, stickerVars, linkVars, folderVars, pinVars, inboxVars, bootVars, syncVars>>
  BY <1>5
<1>6. CASE NestNext /\ UNCHANGED <<attachVars, optVars, startVars, httpVars, jobVars, fileVars, tableVars,
       sendLogVars, stickerVars, linkVars, folderVars, pinVars, inboxVars, bootVars, syncVars>>
  BY <1>6
<1>7. CASE JobNext /\ UNCHANGED <<attachVars, optVars, startVars, httpVars, nestVars, fileVars, tableVars,
       sendLogVars, stickerVars, linkVars, folderVars, pinVars, inboxVars, bootVars, syncVars>>
  BY <1>7
<1>8. CASE FilesNext /\ UNCHANGED <<attachVars, optVars, startVars, httpVars, nestVars, jobVars, tableVars,
       sendLogVars, stickerVars, linkVars, folderVars, pinVars, inboxVars, bootVars, syncVars>>
  BY <1>8
<1>9. CASE TablesNext /\ UNCHANGED <<attachVars, optVars, startVars, httpVars, nestVars, jobVars, fileVars,
       sendLogVars, stickerVars, linkVars, folderVars, pinVars, inboxVars, bootVars, syncVars>>
  BY <1>9
<1>10. CASE SendLogNext /\ UNCHANGED <<attachVars, optVars, startVars, httpVars, nestVars, jobVars, fileVars,
       tableVars, stickerVars, linkVars, folderVars, pinVars, inboxVars, bootVars, syncVars>>
  BY <1>10
<1>11. CASE StickersNext /\ UNCHANGED <<attachVars, optVars, startVars, httpVars, nestVars, jobVars, fileVars,
       tableVars, sendLogVars, linkVars, folderVars, pinVars, inboxVars, bootVars, syncVars>>
  BY <1>11
<1>12. CASE LinksNext /\ UNCHANGED <<attachVars, optVars, startVars, httpVars, nestVars, jobVars, fileVars, tableVars,
       sendLogVars, stickerVars, folderVars, pinVars, inboxVars, bootVars, syncVars>>
  BY <1>12
<1>13. CASE FoldersNext /\ UNCHANGED <<attachVars, optVars, startVars, httpVars, nestVars, jobVars, fileVars,
       tableVars, sendLogVars, stickerVars, linkVars, pinVars, inboxVars, bootVars, syncVars>>
  BY <1>13
<1>14. CASE PinsNext /\ UNCHANGED <<attachVars, optVars, startVars, httpVars, nestVars, jobVars, fileVars, tableVars,
       sendLogVars, stickerVars, linkVars, folderVars, inboxVars, bootVars, syncVars>>
  BY <1>14
<1>15. CASE InboxNext /\ UNCHANGED <<attachVars, optVars, startVars, httpVars, nestVars, jobVars, fileVars, tableVars,
       sendLogVars, stickerVars, linkVars, folderVars, pinVars, bootVars, syncVars>>
  BY <1>15
<1>16. CASE BootNext /\ UNCHANGED <<attachVars, optVars, startVars, httpVars, nestVars, jobVars, fileVars, tableVars,
       sendLogVars, stickerVars, linkVars, folderVars, pinVars, inboxVars, syncVars>>
  BY <1>16
<1>17. CASE SyncNext /\ UNCHANGED <<attachVars, optVars, startVars, httpVars, nestVars, jobVars, fileVars, tableVars,
       sendLogVars, stickerVars, linkVars, folderVars, pinVars, inboxVars, bootVars>>
  BY <1>17
<1>18. QED  BY <1>1, <1>2, <1>3, <1>4, <1>5, <1>6, <1>7, <1>8, <1>9, <1>10, <1>11, <1>12, <1>13, <1>14, <1>15, <1>16,
       <1>17 DEF Next, server_, data_, more_

\* The parts run side by side in one process group, over one database and one set of files, without touching each
\* other's state: whatever the others do, each behaves as its own specification says, so what is proved of a part alone
\* holds in the whole (index.node.ts 298-433 and the modules it calls).
THEOREM PartsBehave ==
  Spec =>
    /\ AttachSpec
    /\ OptSpec
    /\ StartSpec
    /\ HttpSpec
    /\ NestSpec
    /\ JobSpec
    /\ FilesSpec
    /\ TablesSpec
    /\ SendLogSpec
    /\ StickersSpec
    /\ LinksSpec
    /\ FoldersSpec
    /\ PinsSpec
    /\ InboxSpec
    /\ BootSpec
    /\ SyncSpec
<1>1. Init =>
        /\ AttachInit
        /\ OptInit
        /\ StartInit
        /\ HttpInit
        /\ NestInit
        /\ JobInit
        /\ FilesInit
        /\ TablesInit
        /\ SendLogInit
        /\ StickersInit
        /\ LinksInit
        /\ FoldersInit
        /\ PinsInit
        /\ InboxInit
        /\ BootInit
        /\ SyncInit
  BY DEF Init
<1>2. Spec => AttachSpec
  <2>1. [Next]_vars => [AttachNext]_attachVars
    BY StepOfParts
  <2>2. QED  BY <1>1, <2>1, PTL DEF Spec, AttachSpec
<1>3. Spec => OptSpec
  <2>1. [Next]_vars => [OptNext]_optVars
    BY StepOfParts
  <2>2. QED  BY <1>1, <2>1, PTL DEF Spec, OptSpec
<1>4. Spec => StartSpec
  <2>1. [Next]_vars => [StartNext]_startVars
    BY StepOfParts
  <2>2. QED  BY <1>1, <2>1, PTL DEF Spec, StartSpec
<1>5. Spec => HttpSpec
  <2>1. [Next]_vars => [HttpNext]_httpVars
    BY StepOfParts
  <2>2. QED  BY <1>1, <2>1, PTL DEF Spec, HttpSpec
<1>6. Spec => NestSpec
  <2>1. [Next]_vars => [NestNext]_nestVars
    BY StepOfParts
  <2>2. QED  BY <1>1, <2>1, PTL DEF Spec, NestSpec
<1>7. Spec => JobSpec
  <2>1. [Next]_vars => [JobNext]_jobVars
    BY StepOfParts
  <2>2. QED  BY <1>1, <2>1, PTL DEF Spec, JobSpec
<1>8. Spec => FilesSpec
  <2>1. [Next]_vars => [FilesNext]_fileVars
    BY StepOfParts
  <2>2. QED  BY <1>1, <2>1, PTL DEF Spec, FilesSpec
<1>9. Spec => TablesSpec
  <2>1. [Next]_vars => [TablesNext]_tableVars
    BY StepOfParts
  <2>2. QED  BY <1>1, <2>1, PTL DEF Spec, TablesSpec
<1>10. Spec => SendLogSpec
  <2>1. [Next]_vars => [SendLogNext]_sendLogVars
    BY StepOfParts
  <2>2. QED  BY <1>1, <2>1, PTL DEF Spec, SendLogSpec
<1>11. Spec => StickersSpec
  <2>1. [Next]_vars => [StickersNext]_stickerVars
    BY StepOfParts
  <2>2. QED  BY <1>1, <2>1, PTL DEF Spec, StickersSpec
<1>12. Spec => LinksSpec
  <2>1. [Next]_vars => [LinksNext]_linkVars
    BY StepOfParts
  <2>2. QED  BY <1>1, <2>1, PTL DEF Spec, LinksSpec
<1>13. Spec => FoldersSpec
  <2>1. [Next]_vars => [FoldersNext]_folderVars
    BY StepOfParts
  <2>2. QED  BY <1>1, <2>1, PTL DEF Spec, FoldersSpec
<1>14. Spec => PinsSpec
  <2>1. [Next]_vars => [PinsNext]_pinVars
    BY StepOfParts
  <2>2. QED  BY <1>1, <2>1, PTL DEF Spec, PinsSpec
<1>15. Spec => InboxSpec
  <2>1. [Next]_vars => [InboxNext]_inboxVars
    BY StepOfParts
  <2>2. QED  BY <1>1, <2>1, PTL DEF Spec, InboxSpec
<1>16. Spec => BootSpec
  <2>1. [Next]_vars => [BootNext]_bootVars
    BY StepOfParts
  <2>2. QED  BY <1>1, <2>1, PTL DEF Spec, BootSpec
<1>17. Spec => SyncSpec
  <2>1. [Next]_vars => [SyncNext]_syncVars
    BY StepOfParts
  <2>2. QED  BY <1>1, <2>1, PTL DEF Spec, SyncSpec
<1>18. QED  BY <1>2, <1>3, <1>4, <1>5, <1>6, <1>7, <1>8, <1>9, <1>10, <1>11, <1>12, <1>13, <1>14, <1>15, <1>16, <1>17

----------------------------------------------------------------------------
(***************************************************************************)
(* Types of the server's parts. Each is the type of its values, which its  *)
(* own invariant knows, and the bounds of its counters, which the guards   *)
(* keep.                                                                   *)
(***************************************************************************)

\* A resource is in a state of its handler, and its cache file, callers and verdicts with it.
LEMMA OptTypes == OptSpec => []OptTypeOK
<1>1. OptInv /\ [OptNext]_optVars => OptInv'
  <2> SUFFICES ASSUME OptInv, [OptNext]_optVars PROVE OptInv'
    OBVIOUS
  <2>1. CASE OptNext
    BY <2>1, CallKeeps, CrashKeeps DEF OptNext
  <2>2. CASE UNCHANGED optVars
    BY <2>2 DEF OptInv, OptTypeOK, HoldsVerified, optVars
  <2>3. QED  BY <2>1, <2>2
<1>2. OptInv => OptTypeOK
  BY DEF OptInv
<1>3. QED  BY OptStart, <1>1, <1>2, PTL DEF OptSpec

\* The processes of a start, the key file and the settings have their types.
LEMMA StartTypes == StartSpec => []StartTypeOK
<1>1. StartInv /\ [StartNext]_startVars => StartInv'
  BY StartStep
<1>2. StartInv => StartTypeOK
  BY DEF StartInv, StartTyped, StartTypeOK, ServerRecord
<1>3. QED  BY StartBegins, <1>1, <1>2, PTL DEF StartSpec

\* The session and the stream to abort are streams that were opened; at most as many links end as began.
LEMMA NestTypes == NestSpec => []NestTypeOK
<1> DEFINE Bounds ==
      /\ links \in 0..MaxLinks /\ linking \in 0..links
      /\ Len(streams) <= MaxStreams /\ nest.sessionId <= MaxStreams /\ nest.abort <= MaxStreams
<1>1. NestInit => Bounds
  BY NestAssumption DEF NestInit
<1>2. NestInv /\ NestInv' /\ Bounds /\ [NestNext]_nestVars => Bounds'
  <2> SUFFICES ASSUME NestInv, NestInv', Bounds, [NestNext]_nestVars PROVE Bounds'
    OBVIOUS
  <2>1. /\ nest \in NestRec /\ nest' \in NestRec /\ links \in Nat /\ linking \in Nat
        /\ MaxLinks \in Nat /\ MaxStreams \in Nat
    BY NestAssumption DEF NestInv, NestShape
  <2>2. streams \in Seq(StreamRec) /\ streams' \in Seq(StreamRec)
    BY DEF NestInv, NestShape
  <2>3. ASSUME DOMAIN streams' = DOMAIN streams PROVE Len(streams') = Len(streams)
    BY <2>2, <2>3
  <2>4. PICK old \in Nat, new \in Nat : old = Len(streams) /\ new = Len(streams')
    BY <2>2
  <2>5. ASSUME links' = links, linking' = linking, new <= MaxStreams,
               nest'.sessionId <= MaxStreams, nest'.abort <= MaxStreams
        PROVE  Bounds'
    BY <2>4, <2>5
  <2>6. CASE StartLink \/ EndLink
    <3>1. nest'.sessionId = nest.sessionId /\ nest'.abort = nest.abort
      BY <2>1, <2>6 DEF StartLink, EndLink, NestRec
    <3>2. streams' = streams
      BY <2>6 DEF StartLink, EndLink
    <3>3. links' \in 0..MaxLinks /\ linking' \in 0..links'
      <4>1. CASE StartLink
        BY <2>1, <4>1 DEF StartLink
      <4>2. CASE EndLink
        <5>1. linking > 0 /\ linking' = linking - 1 /\ links' = links
          BY <4>2 DEF EndLink
        <5>2. QED  BY <2>1, <5>1
      <4>3. QED  BY <2>6, <4>1, <4>2
    <3>4. QED  BY <3>1, <3>2, <3>3
  <2>7. CASE unlink
    <3>1. DOMAIN streams' = DOMAIN streams /\ nest'.sessionId = 0 /\ nest'.abort = 0
      BY <2>7 DEF unlink, Abort
    <3>2. links' = links /\ linking' = linking
      BY <2>7 DEF unlink
    <3>3. new = old /\ old <= MaxStreams
      BY <2>3, <2>4, <3>1
    <3>4. QED  BY <2>1, <2>5, <3>1, <3>2, <3>3
  <2>8. ASSUME NEW body \in Bodies, OpenStream(body) PROVE Bounds'
    <3>1. old < MaxStreams /\ links' = links /\ linking' = linking
      BY <2>4, <2>8 DEF OpenStream
    <3>2. nest'.sessionId = nest.sessionId /\ nest'.abort = old + 1
      BY <2>1, <2>4, <2>8 DEF OpenStream, NestRec
    <3>3. nest'.abort # 0 => nest'.abort = new
      BY <2>4 DEF NestInv, OneActive
    <3>4. new <= MaxStreams
      BY <2>1, <3>1, <3>2, <3>3
    <3>5. QED  BY <2>1, <2>5, <3>1, <3>2, <3>4
  <2>9. ASSUME NEW n \in DOMAIN streams, NEW s, streams' = [streams EXCEPT ![n] = s],
               links' = links, linking' = linking, nest' = nest \/ nest' = [nest EXCEPT !.sessionId = n]
        PROVE  Bounds'
    <3>1. new = old /\ old <= MaxStreams
      BY <2>3, <2>4, <2>9
    <3>2. nest'.abort = nest.abort /\ (nest'.sessionId = nest.sessionId \/ nest'.sessionId = n)
      BY <2>1, <2>9 DEF NestRec
    <3>3. n <= old /\ n \in Nat
      BY <2>2, <2>4
    <3>4. QED  BY <2>1, <2>5, <2>9, <3>1, <3>2, <3>3
  <2>10. ASSUME NEW n \in DOMAIN streams, StreamAnswer(n) \/ BodyEnds(n) \/ ReaderEnds(n) PROVE Bounds'
    <3>1. PICK s : streams' = [streams EXCEPT ![n] = s]
      BY <2>10 DEF StreamAnswer, BodyEnds, ReaderEnds
    <3>2. links' = links /\ linking' = linking /\ nest' = nest
      BY <2>10 DEF StreamAnswer, BodyEnds, ReaderEnds
    <3>3. QED  BY <2>9, <3>1, <3>2
  <2>11. ASSUME NEW n \in DOMAIN streams, NEW k, NEW throws, Read(n, k, throws) PROVE Bounds'
    <3>1. PICK s : streams' = [streams EXCEPT ![n] = s]
      BY <2>11 DEF Read
    <3>2. links' = links /\ linking' = linking
      BY <2>11 DEF Read
    <3>3. nest' = nest \/ nest' = [nest EXCEPT !.sessionId = n]
      BY <2>11 DEF Read
    <3>4. QED  BY <2>9, <3>1, <3>2, <3>3
  <2>12. CASE UNCHANGED nestVars
    BY <2>12 DEF nestVars
  <2>13. QED  BY <2>6, <2>7, <2>8, <2>10, <2>11, <2>12 DEF NestNext
<1>3. NestInv /\ Bounds => NestTypeOK
  <2> SUFFICES ASSUME NestInv, Bounds PROVE NestTypeOK
    OBVIOUS
  <2>1. nest \in [linked : BOOLEAN, stored : BOOLEAN, sessionId : 0..MaxStreams, abort : 0..MaxStreams]
    BY NestAssumption DEF NestInv, NestShape, NestRec
  <2>2. \A n \in DOMAIN streams : streams[n].state \in Active \cup {"done"}
    <3>1. \A n \in DOMAIN streams : streams[n] \in StreamRec
      BY DEF NestInv, NestShape
    <3>2. QED  BY <3>1 DEF StreamRec
  <2>3. unlinkedAt \in 0..Len(streams)
    BY DEF NestInv, NestShape
  <2>4. QED  BY <2>1, <2>2, <2>3 DEF NestTypeOK
<1>4. QED  BY <1>1, <1>2, <1>3, NestSafe, PTL DEF NestSpec

\* No more is read of a body than it has, and a status is one that the handlers write.
LEMMA HttpTypes == HttpSpec => []HttpTypeOK
<1> DEFINE Status == {0, 200, 204, 400, 403, 404, 405, 413, 500, 502, 503}
<1> DEFINE Bounds ==
      /\ request.size \in 0..MaxBytes /\ request.read <= request.size
      /\ upstream.size \in 0..MaxBytes /\ upstream.read <= upstream.size
      /\ response.status \in Status
<1>1. HttpInit => Bounds
  BY HttpAssumption DEF HttpInit, NoRequest
<1>2. HttpInv /\ HttpInv' /\ Bounds /\ [HttpNext]_httpVars => Bounds'
  <2> SUFFICES ASSUME HttpTyped, HttpTyped', Bounds, [HttpNext]_httpVars PROVE Bounds'
    BY DEF HttpInv
  <2> DEFINE Written == response'.status \in Status
             ReadFits == request'.size \in 0..MaxBytes /\ request'.read <= request'.size
             Fetched == upstream'.size \in 0..MaxBytes /\ upstream'.read <= upstream'.size
  <2>1. /\ request.size \in Nat /\ request.read \in Nat /\ upstream.size \in Nat /\ upstream.read \in Nat
        /\ MaxBytes \in Nat
    BY HttpAssumption DEF HttpTyped
  <2>2. ASSUME NEW s \in Status, response' = Answer(s) \/ response' = [Answer(s) EXCEPT !.open = FALSE]
                                 \/ response' = [Answer(s) EXCEPT !.body = upstream.read]
                                 \/ response' = WriteHead(s)
        PROVE  Written
    <3>1. PICK head : head = WriteHead(s)
      OBVIOUS
    <3>2. DOMAIN head = DOMAIN response /\ "status" \in DOMAIN response /\ head.status = s
      BY <3>1 DEF WriteHead, HttpTyped
    <3>3. \/ response' = [head EXCEPT !.ended = TRUE]
          \/ response' = [[head EXCEPT !.ended = TRUE] EXCEPT !.open = FALSE]
          \/ response' = [[head EXCEPT !.ended = TRUE] EXCEPT !.body = upstream.read]
          \/ response' = head
      BY <2>2, <3>1 DEF Answer
    <3>4. PICK b : b = upstream.read
      OBVIOUS
    <3>5. PICK ended : ended = [head EXCEPT !.ended = TRUE]
      BY ZenonT(30)
    <3>6. DOMAIN ended = DOMAIN head /\ ended.status = s
      BY <3>2, <3>5
    <3>7. \/ response' = ended \/ response' = [ended EXCEPT !.open = FALSE]
          \/ response' = [ended EXCEPT !.body = b] \/ response' = head
      BY <3>3, <3>4, <3>5
    <3>8. response'.status = s
      BY <3>2, <3>6, <3>7
    <3>9. QED  BY <3>8
  <2>3. ASSUME NEW flag \in BOOLEAN, NEW n,
               response' = response \/ response' = [response EXCEPT !.open = flag]
               \/ response' = [response EXCEPT !.ended = flag] \/ response' = [response EXCEPT !.body = n]
        PROVE  Written
    BY <2>3 DEF HttpTyped
  <2>4. request' = request => ReadFits
    OBVIOUS
  <2>5. ASSUME NEW s, upstream' = upstream \/ upstream' = [upstream EXCEPT !.state = s] PROVE Fetched
    BY <2>5 DEF HttpTyped
  <2>6. ASSUME NEW size \in 0..MaxBytes, upstream' = Outgoing(size) PROVE Fetched
    BY <2>1, <2>6 DEF Outgoing
  <2>7. ASSUME NEW m \in Method, NEW p \in Path, NEW size \in 0..MaxBytes, NEW url, NEW enabled, NEW mount,
               Receive(m, p, size, url, enabled, mount)
        PROVE  Bounds'
    <3>1. PICK s : s = Refused(m, p, url, enabled, mount)
      OBVIOUS
    <3>2. s \in Status
      BY <3>1 DEF Refused
    <3>3. response' = Answer(s) \/ response' = response
      BY <2>7, <3>1 DEF Receive, Finish
    <3>4. request' = [method |-> m, path |-> p, size |-> size, read |-> 0, state |-> "open"]
          /\ upstream' = upstream
      BY <2>7 DEF Receive
    <3>5. ReadFits
      BY <2>1, <3>4
    <3>6. QED  BY <2>2, <2>3, <2>5, <3>2, <3>3, <3>4, <3>5
  <2>8. ASSUME NEW n \in 1..MaxBytes, OnData(n) PROVE Bounds'
    <3>1. PICK s : request' = [request EXCEPT !.read = request.read + n, !.state = s]
      BY <2>8, ZenonT(30) DEF OnData
    <3>2. ReadFits
      <4>1. request.read + n <= request.size
        BY <2>8 DEF OnData
      <4>2. request'.read = request.read + n /\ request'.size = request.size
        BY <3>1 DEF HttpTyped
      <4>3. QED  BY <4>1, <4>2
    <3>3. upstream' = upstream
      BY <2>8 DEF OnData
    <3>4. response' = response \/ response' = [Answer(413) EXCEPT !.open = FALSE]
      BY <2>8 DEF OnData
    <3>5. QED  BY <2>2, <2>3, <2>5, <3>2, <3>3, <3>4
  <2>9. CASE OnEnd
    BY <2>3, <2>4, <2>5, <2>9 DEF OnEnd
  <2>10. CASE OnError
    <3>1. request' = [request EXCEPT !.state = "destroyed"] /\ upstream' = upstream
          /\ response' = [Answer(500) EXCEPT !.open = FALSE]
      BY <2>10 DEF OnError, BodyFailed
    <3>2. ReadFits
      BY <3>1 DEF HttpTyped
    <3>3. QED  BY <2>2, <2>5, <3>1, <3>2
  <2>11. CASE HandleSync
    BY <2>2, <2>4, <2>5, <2>11 DEF HandleSync, Finish
  <2>12. ASSUME NEW size \in 0..MaxBytes, HandleNest(size) PROVE Bounds'
    BY <2>3, <2>4, <2>6, <2>12 DEF HandleNest
  <2>13. ASSUME NEW size \in 0..MaxBytes, NEW allowed \in BOOLEAN, HandleProxy(allowed, size) PROVE Bounds'
    <3>1. request' = request /\ (upstream' = upstream \/ upstream' = Outgoing(size))
          /\ (response' = response \/ response' = Answer(405) \/ response' = Answer(403))
      BY <2>13 DEF HandleProxy, Finish
    <3>2. QED  BY <2>2, <2>3, <2>4, <2>5, <2>6, <3>1
  <2>14. ASSUME NEW n \in 1..MaxBytes, FetchData(n) \/ NestData(n) PROVE Bounds'
    <3>1. upstream.read + n <= upstream.size
      BY <2>14 DEF FetchData, NestData
    <3>2. PICK k \in Nat : k = upstream.read + n
      BY <2>1
    <3>3. PICK s : s = IF NestData(n) THEN upstream.state
                       ELSE IF upstream.read + n > MaxFetch THEN "destroyed" ELSE upstream.state
      OBVIOUS
    <3>4. upstream'.read = k /\ upstream'.size = upstream.size
      <4>1. CASE NestData(n)
        <5>1. upstream' = [upstream EXCEPT !.read = k]
          BY <3>2, <4>1 DEF NestData
        <5>2. QED  BY <5>1 DEF HttpTyped
      <4>2. CASE FetchData(n) /\ ~NestData(n)
        <5>1. upstream' = [upstream EXCEPT !.read = k, !.state = s]
          BY <3>2, <3>3, <4>2 DEF FetchData
        <5>2. QED  BY <5>1 DEF HttpTyped
      <4>3. QED  BY <2>14, <4>1, <4>2
    <3>5. PICK b : b = response.body + n
      OBVIOUS
    <3>6. request' = request /\ (response' = response \/ response' = [response EXCEPT !.body = b])
      BY <2>14, <3>5 DEF FetchData, NestData
    <3>7. Fetched
      BY <3>1, <3>2, <3>4
    <3>8. Written
      BY <3>6 DEF HttpTyped
    <3>9. QED  BY <2>4, <3>6, <3>7, <3>8
  <2>15. CASE FetchHead \/ FetchEnd \/ FetchTimeout \/ FetchError
    BY <2>3, <2>4, <2>5, <2>15 DEF FetchHead, FetchEnd, FetchTimeout, FetchError
  <2>16. CASE FetchAnswer
    BY <2>2, <2>4, <2>5, <2>16 DEF FetchAnswer
  <2>17. CASE NestHead
    BY <2>2, <2>4, <2>5, <2>17 DEF NestHead
  <2>18. CASE NestEnd \/ NestResponseError \/ NestClientGone
    <3>1. PICK s : request' = request /\ upstream' = [upstream EXCEPT !.state = s]
      BY <2>18 DEF NestEnd, NestResponseError, NestClientGone
    <3>2. \/ response' = response \/ response' = [response EXCEPT !.ended = TRUE]
          \/ response' = [response EXCEPT !.open = FALSE]
      BY <2>18 DEF NestEnd, NestResponseError, NestClientGone
    <3>3. Written
      BY <3>2 DEF HttpTyped
    <3>4. Fetched
      BY <2>5, <3>1
    <3>5. QED  BY <2>4, <3>1, <3>3, <3>4
  <2>19. CASE NestError
    BY <2>2, <2>3, <2>4, <2>5, <2>19 DEF NestError, NestErrorAnswer
  <2>20. CASE UNCHANGED httpVars
    BY <2>3, <2>4, <2>5, <2>20 DEF httpVars
  <2>21. QED
    BY <2>7, <2>8, <2>9, <2>10, <2>11, <2>12, <2>13, <2>14, <2>15, <2>16, <2>17, <2>18, <2>19, <2>20 DEF HttpNext
<1>3. HttpInv /\ Bounds => HttpTypeOK
  BY HttpAssumption DEF HttpInv, HttpTyped, HttpTypeOK
<1>4. HttpInv /\ [HttpNext]_httpVars => HttpInv'
  BY HttpStep
<1>5. QED  BY HttpStart, <1>1, <1>2, <1>3, <1>4, PTL DEF HttpSpec

\* The boot payload is made of the files that were read.
LEMMA BootTypes == BootSpec => []BootTypeOK
<1>1. BootInit => BootTypeOK
  BY BootAssumption DEF BootInit, BootTypeOK
<1>2. BootTypeOK /\ [BootNext]_bootVars => BootTypeOK'
  BY DEF BootTypeOK, BootNext, BuildBoot, buildBootPayload, bootVars
<1>3. QED  BY <1>1, <1>2, PTL DEF BootSpec

\* A status the handler writes, and bytes that a file can have.
AnswerFits(h) == h.status \in {0, 200, 206, 400, 403, 404, 405, 500} /\ h.body \subseteq 0..FileBytes

\* An answer with such a status and such bytes.
LEMMA AnsweredFits ==
  ASSUME NEW h \in RequestRecord, NEW length, NEW status \in {0, 200, 206, 400, 403, 404, 405, 500},
         NEW body \in SUBSET (0..FileBytes), NEW a, a = Answered(h, status, length, body)
  PROVE  AnswerFits(a)
<1>1. {"state", "status", "length", "body"} \subseteq DOMAIN h
  BY DEF RequestRecord
<1>2. a.status = status /\ a.body = body
  BY <1>1 DEF Answered
<1>3. QED  BY <1>2 DEF AnswerFits

\* The bytes of a file, and of a range in it, are bytes that a file can have.
LEMMA BytesFit ==
  ASSUME NEW total \in -1..FileBytes
  PROVE  /\ 0..total - 1 \subseteq 0..FileBytes
         /\ \A range \in [start : -1..FileBytes + 1, end : -1..FileBytes + 1] :
              parseRange(range, total) # NoRange =>
                parseRange(range, total).start..parseRange(range, total).end \subseteq 0..FileBytes
<1>1. total \in Int /\ total <= FileBytes /\ FileBytes \in Nat
  BY AttachmentAssumption
<1>2. 0..total - 1 \subseteq 0..FileBytes
  BY <1>1
<1>3. ASSUME NEW range \in [start : -1..FileBytes + 1, end : -1..FileBytes + 1], parseRange(range, total) # NoRange
      PROVE  parseRange(range, total).start..parseRange(range, total).end \subseteq 0..FileBytes
  <2>1. PICK a \in Int, b \in Int :
          parseRange(range, total) = [start |-> a, end |-> b] /\ 0 <= a /\ a <= b /\ b <= total - 1
    BY <1>3, RangeInBody
  <2>2. a..b \subseteq 0..FileBytes
    BY <1>1, <2>1
  <2>3. QED  BY <2>1, <2>2
<1>4. QED  BY <1>2, <1>3

\* serveBuffer answers with such a status and such bytes.
LEMMA ServedFits ==
  ASSUME NEW h \in RequestRecord, h.q \in Query, NEW total \in 0..FileBytes, NEW a, a = serveBuffer(h, total)
  PROVE  AnswerFits(a)
<1>1. total \in -1..FileBytes
  BY AttachmentAssumption
<1>2. PICK range : range = parseRange(h.q.range, total)
  OBVIOUS
<1>3. 0..total - 1 \subseteq 0..FileBytes
  BY <1>1, BytesFit
<1>4. PICK whole \in SUBSET (0..FileBytes) : whole = 0..total - 1
  BY <1>3
<1>5. \/ a = Answered(h, 200, total, {}) \/ a = Answered(h, 200, total, whole)
      \/ a = Answered(h, 206, range.end - range.start + 1, (range.start..range.end) \cap whole)
  BY <1>2, <1>4 DEF serveBuffer
<1>6. ASSUME a = Answered(h, 206, range.end - range.start + 1, (range.start..range.end) \cap whole)
      PROVE  AnswerFits(a)
  <2>1. PICK length : length = range.end - range.start + 1
    OBVIOUS
  <2>2. PICK body \in SUBSET (0..FileBytes) : body = (range.start..range.end) \cap whole
    OBVIOUS
  <2>3. a = Answered(h, 206, length, body)
    BY <1>6, <2>1, <2>2
  <2>4. QED  BY <2>3, AnsweredFits
<1>7. ASSUME NEW body \in SUBSET (0..FileBytes), a = Answered(h, 200, total, body) PROVE AnswerFits(a)
  BY <1>7, AnsweredFits
<1>8. {} \in SUBSET (0..FileBytes)
  OBVIOUS
<1>9. QED  BY <1>5, <1>6, <1>7, <1>8

\* The answers say no more bytes than a file can have, and a decryption has the size of its key.
LEMMA AttachTypes == AttachSpec => []AttachTypeOK
<1> DEFINE Bounds == fileSteps \in 0..MaxFileSteps /\ \A r \in Request : AnswerFits(http[r])
<1>1. AttachInit => Bounds
  BY AttachmentAssumption DEF AttachInit, Idle, AnswerFits
<1>2. AttachInv /\ Bounds /\ [AttachNext]_attachVars => Bounds'
  <2> SUFFICES ASSUME AttachInv, Bounds, [AttachNext]_attachVars PROVE Bounds'
    OBVIOUS
  <2>1. \A r \in Request : http[r] \in RequestRecord /\ (http[r].state \in {"stat", "stream", "decrypt"} =>
                             http[r].q \in Query /\ http[r].key \in Key)
    BY DEF AttachInv, RequestsRight, RequestIsRight
  <2>2. DOMAIN http = Request /\ onDisk \in [File -> -1..FileBytes]
    BY DEF AttachInv, AttachTyped
  <2>3. ASSUME NEW r \in Request, NEW a, AnswerFits(a), http' = [http EXCEPT ![r] = a], fileSteps' = fileSteps
        PROVE  Bounds'
    <3>1. \A s \in Request : http'[s] = IF s = r THEN a ELSE http[s]
      BY <2>2, <2>3
    <3>2. \A s \in Request : AnswerFits(http'[s])
      BY <2>3, <3>1
    <3>3. QED  BY <2>3, <3>2 DEF AnswerFits
  <2>4. ASSUME NEW r \in Request, Arrive(r) PROVE Bounds'
    <3>1. PICK q \in Queries, key \in Key :
            http' = [http EXCEPT ![r] =
              IF Refusal(q) # 0 THEN Answered(Idle, Refusal(q), 0, {})
              ELSE [Idle EXCEPT !.state = "stat", !.q = q, !.key = key]]
      BY <2>4 DEF Arrive
    <3>2. PICK s \in {0, 400, 403, 404, 405} : s = Refusal(q)
      BY DEF Refusal
    <3>3. PICK a : a = IF s # 0 THEN Answered(Idle, s, 0, {})
                       ELSE [Idle EXCEPT !.state = "stat", !.q = q, !.key = key]
      OBVIOUS
    <3>4. AnswerFits(a)
      <4>1. CASE s # 0
        BY <3>3, <4>1, IdleTyped, AnsweredFits
      <4>2. CASE s = 0
        BY <3>3, <4>2 DEF Idle, AnswerFits
      <4>3. QED  BY <4>1, <4>2
    <3>5. http' = [http EXCEPT ![r] = a] /\ fileSteps' = fileSteps
      BY <2>4, <3>1, <3>2, <3>3 DEF Arrive
    <3>6. QED  BY <2>3, <3>4, <3>5
  <2>5. ASSUME NEW r \in Request, PlainStat(r) PROVE Bounds'
    <3>1. PICK total : total = onDisk[http[r].key[1]]
      OBVIOUS
    <3>2. PICK h : h = [http[r] EXCEPT !.steady = TRUE]
      OBVIOUS
    <3>3. PICK range : range = parseRange(http[r].q.range, total)
      OBVIOUS
    <3>4. http[r] \in RequestRecord /\ http[r].q \in Query /\ http[r].key \in Key /\ AnswerFits(http[r])
      BY <2>1, <2>5 DEF PlainStat
    <3>5. total \in -1..FileBytes
      BY <2>2, <3>1, <3>4, BytesOfKey
    <3>6. range # NoRange => range.start..range.end \subseteq 0..FileBytes
      BY <3>3, <3>4, <3>5, BytesFit DEF Query
    <3>7. h \in RequestRecord /\ AnswerFits(h)
      <4>1. h \in RequestRecord /\ h.status = http[r].status /\ h.body = http[r].body
        BY <3>2, <3>4 DEF RequestRecord
      <4>2. QED  BY <3>4, <4>1 DEF AnswerFits
    <3>8. PICK a : a = IF total = -1 THEN Answered(h, 404, 0, {})
                       ELSE IF h.q.method = "HEAD" THEN Answered(h, 200, total, {})
                       ELSE IF range = NoRange THEN [h EXCEPT !.state = "stream", !.status = 200, !.length = total]
                       ELSE [h EXCEPT !.state = "stream", !.status = 206,
                                      !.length = range.end - range.start + 1, !.body = range.start..range.end]
      OBVIOUS
    <3>9. http' = [http EXCEPT ![r] = a] /\ fileSteps' = fileSteps
      BY <2>5, <3>1, <3>2, <3>3, <3>8, SMTT(40) DEF PlainStat
    <3>10. {"state", "status", "length", "body"} \subseteq DOMAIN h
      BY <3>7 DEF RequestRecord
    <3>11. CASE a = Answered(h, 404, 0, {}) \/ a = Answered(h, 200, total, {})
      BY <2>3, <3>7, <3>9, <3>11, AnsweredFits
    <3>12. CASE a = [h EXCEPT !.state = "stream", !.status = 200, !.length = total]
      <4>1. a.status = 200 /\ a.body = h.body
        BY <3>10, <3>12
      <4>2. AnswerFits(a)
        BY <3>7, <4>1 DEF AnswerFits
      <4>3. QED  BY <2>3, <3>9, <4>2
    <3>13. CASE /\ range # NoRange
                /\ a = [h EXCEPT !.state = "stream", !.status = 206,
                                 !.length = range.end - range.start + 1, !.body = range.start..range.end]
      <4>1. PICK l, b : l = range.end - range.start + 1 /\ b = range.start..range.end
        OBVIOUS
      <4>2. a.status = 206 /\ a.body = b
        BY <3>10, <3>13, <4>1
      <4>3. AnswerFits(a)
        BY <3>6, <3>13, <4>1, <4>2 DEF AnswerFits
      <4>4. QED  BY <2>3, <3>9, <4>3
    <3>14. QED  BY <3>8, <3>11, <3>12, <3>13
  <2>6. ASSUME NEW r \in Request, PlainStream(r) PROVE Bounds'
    <3>1. PICK h : h = http[r]
      OBVIOUS
    <3>2. PICK total : total = onDisk[h.key[1]]
      OBVIOUS
    <3>3. h \in RequestRecord /\ h.key \in Key /\ AnswerFits(h)
      BY <2>1, <2>6, <3>1 DEF PlainStream
    <3>4. total \in -1..FileBytes
      BY <2>2, <3>2, <3>3, BytesOfKey
    <3>5. PICK whole \in SUBSET (0..FileBytes) : whole = 0..total - 1
      BY <3>4, BytesFit
    <3>6. PICK body \in SUBSET (0..FileBytes) : body = IF h.status = 200 THEN whole ELSE h.body \cap whole
      BY <3>3
    <3>7. PICK a : a = IF total = -1 THEN Answered(h, 0, 0, {}) ELSE Answered(h, h.status, h.length, body)
      OBVIOUS
    <3>8. http' = [http EXCEPT ![r] = a] /\ fileSteps' = fileSteps
      BY <2>6, <3>1, <3>2, <3>5, <3>6, <3>7 DEF PlainStream
    <3>9. AnswerFits(a)
      <4>1. PICK status \in {0, 200, 206, 400, 403, 404, 405, 500} : status = h.status
        BY <3>3 DEF AnswerFits
      <4>2. a = Answered(h, 0, 0, {}) \/ a = Answered(h, status, h.length, body)
        BY <3>7, <4>1
      <4>3. QED  BY <3>3, <4>2, AnsweredFits
    <3>10. QED  BY <2>3, <3>8, <3>9
  <2>7. ASSUME NEW r \in Request, EncryptedStat(r) PROVE Bounds'
    <3>1. http[r] \in RequestRecord /\ http[r].q \in Query /\ AnswerFits(http[r]) /\ fileSteps' = fileSteps
      BY <2>1, <2>7 DEF EncryptedStat
    <3>2. {"state", "promised"} \subseteq DOMAIN http[r]
      BY <3>1 DEF RequestRecord
    <3>3. ASSUME NEW p, http' = [http EXCEPT ![r] = [http[r] EXCEPT !.state = "decrypt", !.promised = p]] PROVE Bounds'
      <4>1. PICK a : a = [http[r] EXCEPT !.state = "decrypt", !.promised = p]
        OBVIOUS
      <4>2. a.status = http[r].status /\ a.body = http[r].body
        BY <3>1, <4>1 DEF RequestRecord
      <4>3. AnswerFits(a)
        BY <3>1, <4>2 DEF AnswerFits
      <4>4. QED  BY <2>3, <3>1, <3>3, <4>1, <4>3
    <3>4. CASE http' = [http EXCEPT ![r] = Answered(@, 404, 0, {})]
      <4>1. PICK a : a = Answered(http[r], 404, 0, {})
        OBVIOUS
      <4>2. AnswerFits(a)
        BY <3>1, <4>1, AnsweredFits
      <4>3. QED  BY <2>3, <3>1, <3>4, <4>1, <4>2
    <3>5. ASSUME NEW ck \in DOMAIN decrypted, http' = [http EXCEPT ![r] = serveBuffer(@, decrypted[ck])] PROVE Bounds'
      <4>1. PICK a : a = serveBuffer(http[r], decrypted[ck])
        OBVIOUS
      <4>2. decrypted[ck] \in 0..FileBytes
        BY BytesOfKey DEF AttachInv, AttachTyped, CacheRight
      <4>3. AnswerFits(a)
        BY <3>1, <4>1, <4>2, ServedFits
      <4>4. QED  BY <2>3, <3>1, <3>5, <4>1, <4>3
    <3>6. \/ http' = [http EXCEPT ![r] = Answered(@, 404, 0, {})]
          \/ \E ck \in DOMAIN decrypted : http' = [http EXCEPT ![r] = serveBuffer(@, decrypted[ck])]
          \/ \E p : http' = [http EXCEPT ![r] = [http[r] EXCEPT !.state = "decrypt", !.promised = p]]
      BY <2>7 DEF EncryptedStat
    <3>7. QED  BY <3>3, <3>4, <3>5, <3>6
  <2>8. ASSUME NEW ck \in DOMAIN inFlight, DecryptOk(ck) \/ DecryptFailure(ck) PROVE Bounds'
    <3>1. inFlight[ck].size \in 0..FileBytes
      BY BytesOfKey DEF AttachInv, AttachTyped, FlightsRight
    <3>2. \A r \in inFlight[ck].waiters : http[r].state = "decrypt"
      BY DEF AttachInv, FlightsRight
    <3>3. ASSUME NEW r \in Request PROVE AnswerFits(http'[r])
      <4>1. CASE r \notin inFlight[ck].waiters
        <5>1. http'[r] = http[r]
          BY <2>8, <4>1 DEF DecryptOk, DecryptFailure
        <5>2. QED  BY <5>1
      <4>2. CASE r \in inFlight[ck].waiters /\ DecryptOk(ck)
        <5>1. PICK a : a = serveBuffer(http[r], inFlight[ck].size)
          OBVIOUS
        <5>2. http'[r] = a
          BY <4>2, <5>1 DEF DecryptOk
        <5>3. AnswerFits(a)
          BY <2>1, <3>1, <3>2, <4>2, <5>1, ServedFits
        <5>4. QED  BY <5>2, <5>3
      <4>3. CASE r \in inFlight[ck].waiters /\ DecryptFailure(ck)
        <5>1. PICK a : a = Answered(http[r], 500, 0, {})
          OBVIOUS
        <5>2. http'[r] = a
          BY <4>3, <5>1 DEF DecryptFailure
        <5>3. AnswerFits(a)
          BY <2>1, <5>1, AnsweredFits
        <5>4. QED  BY <5>2, <5>3
      <4>4. QED  BY <2>8, <4>1, <4>2, <4>3
    <3>4. fileSteps' = fileSteps
      BY <2>8 DEF DecryptOk, DecryptFailure
    <3>5. QED  BY <3>3, <3>4 DEF AnswerFits
  <2>9. ASSUME NEW ck \in DOMAIN decrypted, Expire(ck) PROVE Bounds'
    BY <2>9 DEF Expire, AnswerFits
  <2>10. ASSUME NEW f \in File, NEW bytes \in -1..FileBytes, FileChanges(f, bytes) PROVE Bounds'
    <3>1. fileSteps' \in 0..MaxFileSteps
      <4>1. fileSteps < MaxFileSteps /\ fileSteps' = fileSteps + 1
        BY <2>10 DEF FileChanges
      <4>2. fileSteps \in 0..MaxFileSteps
        OBVIOUS
      <4>3. QED  BY <4>1, <4>2, AttachmentAssumption
    <3>2. ASSUME NEW r \in Request PROVE AnswerFits(http'[r])
      <4>1. PICK p : p = (http[r].promised /\ bytes # -1)
        OBVIOUS
      <4>2. http'[r] = http[r] \/ http'[r] = [http[r] EXCEPT !.steady = FALSE, !.promised = p]
        BY <2>10, <4>1 DEF FileChanges
      <4>3. http'[r].status = http[r].status /\ http'[r].body = http[r].body
        BY <2>1, <4>2 DEF RequestRecord
      <4>4. QED  BY <4>3 DEF AnswerFits
    <3>3. QED  BY <3>1, <3>2 DEF AnswerFits
  <2>11. CASE UNCHANGED attachVars
    BY <2>11 DEF attachVars, AnswerFits
  <2>12. QED  BY <2>4, <2>5, <2>6, <2>7, <2>8, <2>9, <2>10, <2>11 DEF AttachNext
<1>3. AttachInv /\ Bounds => AttachTypeOK
  <2> SUFFICES ASSUME AttachInv, Bounds PROVE AttachTypeOK
    OBVIOUS
  <2>1. onDisk \in [File -> -1..FileBytes] /\ fileSteps \in 0..MaxFileSteps /\ DOMAIN http = Request
    BY DEF AttachInv, AttachTyped
  <2>2. \A r \in Request : /\ http[r].state \in {"none", "stat", "stream", "decrypt", "done"}
                           /\ http[r].status \in {0, 200, 206, 400, 403, 404, 405, 500}
                           /\ http[r].body \subseteq 0..FileBytes
    BY DEF AttachInv, AttachTyped, RequestRecord, AnswerFits
  <2>3. \A k \in DOMAIN inFlight : inFlight[k].size \in PlainSizes /\ inFlight[k].waiters \subseteq Request
    BY DEF AttachInv, AttachTyped, FlightRecord
  <2>4. \A k \in DOMAIN decrypted : decrypted[k] \in PlainSizes
    BY BytesOfKey DEF AttachInv, AttachTyped, CacheRight
  <2>5. QED  BY <2>1, <2>2, <2>3, <2>4 DEF AttachTypeOK
<1>4. QED  BY <1>1, <1>2, <1>3, AttachInvHolds, PTL DEF AttachSpec

----------------------------------------------------------------------------
(***************************************************************************)
(* Types of the database's parts.                                          *)
(***************************************************************************)

\* Rows, protections and files name messages and paths that there are.
LEMMA FilesTypes == FilesSpec => []FilesTypeOK
<1>1. FilesInit => FilesTypeOK
  BY FilesAssumption DEF FilesInit, FilesTypeOK
<1>2. FilesTypeOK /\ [FilesNext]_fileVars => FilesTypeOK'
  <2> SUFFICES ASSUME FilesTypeOK, [FilesNext]_fileVars PROVE FilesTypeOK'
    OBVIOUS
  <2>1. ASSUME NEW m \in FileMessage, NEW p \in AttachPath, DownloadNew(m, p) \/ DownloadExisting(m, p)
        PROVE  FilesTypeOK'
    BY <2>1, FilesAssumption DEF FilesTypeOK, DownloadNew, DownloadExisting
  <2>2. ASSUME NEW m \in FileMessage, SaveRows(m) \/ RemoveRows(m) \/ GiveUp(m) PROVE FilesTypeOK'
    BY <2>2 DEF FilesTypeOK, SaveRows, RemoveRows, GiveUp, StopProtecting
  <2>3. ASSUME NEW p \in AttachPath, CheckPath(p) \/ UnlinkPath(p) PROVE FilesTypeOK'
    BY <2>3 DEF FilesTypeOK, CheckPath, UnlinkPath
  <2>4. CASE ResetProtected
    BY <2>4 DEF FilesTypeOK, ResetProtected
  <2>5. CASE UNCHANGED fileVars
    BY <2>5 DEF FilesTypeOK, fileVars
  <2>6. QED  BY <2>1, <2>2, <2>3, <2>4, <2>5 DEF FilesNext
<1>3. QED  BY <1>1, <1>2, PTL DEF FilesSpec

\* Who runs a job has one of a message that there was: jobs go with their messages.
LEMMA JobTypes == JobSpec => []JobTypeOK
<1> DEFINE Bounds == jobMessages \subseteq JobMessage /\ running \subseteq JobMessage /\ jobSteps \in 0..MaxJobSteps
<1>1. JobInit => Bounds
  BY JobAssumption DEF JobInit
<1>2. JobsInv /\ Bounds /\ [JobNext]_jobVars => Bounds'
  <2> SUFFICES ASSUME JobsInv, Bounds, [JobNext]_jobVars PROVE Bounds'
    OBVIOUS
  <2>1. Count => jobSteps' \in 0..MaxJobSteps
    BY JobAssumption DEF Count
  <2>2. ASSUME NEW m \in JobMessage, AddMessage(m) PROVE Bounds'
    BY <2>1, <2>2 DEF AddMessage
  <2>3. ASSUME NEW m \in JobMessage, RemoveMessage(m) \/ MarkActive(m) \/ RemoveJob(m) \/ RemoveJobsOf(m) PROVE Bounds'
    BY <2>3 DEF RemoveMessage, MarkActive, RemoveJob, RemoveJobsOf
  <2>4. ASSUME NEW m \in JobMessage, NEW row \in Row, SaveJob(m, row) PROVE Bounds'
    BY <2>1, <2>4 DEF SaveJob
  <2>5. ASSUME NEW asked \in SUBSET JobMessage, NEW sources \in SUBSET Source, NextJobs(asked, sources) PROVE Bounds'
    <3>1. PICK taken \in SUBSET DOMAIN jobs : running' = running \cup taken \/ running' = running
      BY <2>5 DEF NextJobs, Due, Prioritized
    <3>2. DOMAIN jobs \subseteq jobMessages
      BY DEF JobsInv, StatsMatchRows
    <3>3. jobMessages' = jobMessages /\ jobSteps' = jobSteps
      BY <2>5 DEF NextJobs
    <3>4. QED  BY <3>1, <3>2, <3>3
  <2>6. CASE ResetActive \/ ResetRetryAfter \/ RemoveAllBackup
    BY <2>6 DEF ResetActive, ResetRetryAfter, RemoveAllBackup
  <2>7. CASE ResetStats
    BY <2>1, <2>7 DEF ResetStats
  <2>8. CASE UNCHANGED jobVars
    BY <2>8 DEF jobVars
  <2>9. QED  BY <2>2, <2>3, <2>4, <2>5, <2>6, <2>7, <2>8 DEF JobNext
<1>3. JobsInv /\ Bounds => JobTypeOK
  BY DEF JobsInv, JobsTyped, StatsMatchRows, JobTypeOK
<1>4. JobInit => JobsInv
  BY JobsStart
<1>5. JobsInv /\ [JobNext]_jobVars => JobsInv'
  BY JobsStep
<1>6. QED  BY <1>1, <1>2, <1>3, <1>4, <1>5, PTL DEF JobSpec

\* A version in a table, its index or a page is that of some write, and a table that of some run.
LEMMA TablesTypes == TablesSpec => []TablesTypeOK
<1> DEFINE Version == 0..MaxVersions
           Run     == 0..MaxRuns
           Table   == [run : Run, ids : SUBSET MessageId]
           Cursor  == [run : Run, done : BOOLEAN, failed : BOOLEAN, at : Connection, since : Version]
<1>1. NoTable \in Table /\ NoRun \in Cursor /\ Absent0 \in [MessageId -> Version] /\ 0 \in Version
  BY TablesAssumption DEF NoTable, NoRun, Absent0
<1>2. TablesInit => TablesTypeOK
  <2>1. TablesInit => messages \in [MessageId -> [version : Version, searchable : BOOLEAN]]
    BY <1>1 DEF TablesInit
  <2>2. TablesInit => tempTable \in [Connection -> Table] /\ cursor \in Cursor
    BY <1>1 DEF TablesInit
  <2>3. TablesInit => messagesFts \in [MessageId -> Version] /\ seen \in [MessageId -> Version]
    BY <1>1 DEF TablesInit
  <2>4. TablesInit => insertTriggers \in BOOLEAN /\ disabledItem \in BOOLEAN
    BY DEF TablesInit
  <2>5. 0 \in Run
    BY TablesAssumption
  <2>6. TablesInit => writes \in Version /\ runs \in Run
    BY <1>1, <2>5 DEF TablesInit
  <2>7. QED  BY <2>1, <2>2, <2>3, <2>4, <2>6 DEF TablesTypeOK
<1>3. TablesTypeOK /\ [TablesNext]_tableVars => TablesTypeOK'
  <2> SUFFICES ASSUME TablesTypeOK, [TablesNext]_tableVars PROVE TablesTypeOK'
    OBVIOUS
  <2>1. Backfill \in [MessageId -> Version]
    BY <1>1 DEF TablesTypeOK, Backfill
  <2>2. ASSUME NEW c \in Connection, NEW run \in Run, NEW at \in Connection, NEW since \in Version,
               NEW ids \in SUBSET MessageId, Page(c, run, at, since, ids)
        PROVE  tempTable' \in [Connection -> Table] /\ cursor' \in Cursor /\ seen' \in [MessageId -> Version]
    BY <2>2 DEF TablesTypeOK, Page
  <2>3. Write => writes' \in Version /\ writes + 1 \in Version
    BY TablesAssumption DEF TablesTypeOK, Write
  <2>4. runs < MaxRuns => runs + 1 \in Run
    BY TablesAssumption DEF TablesTypeOK
  <2>5. ASSUME NEW m \in MessageId PROVE TempTriggers(m) \in [Connection -> Table]
    BY DEF TablesTypeOK, TempTriggers
  <2>6. ASSUME NEW m \in MessageId, InsertMessage(m) \/ UpdateMessage(m) PROVE TablesTypeOK'
    <3>1. PICK v \in Version : v = writes + 1 /\ writes' \in Version
      BY <2>3, <2>6 DEF InsertMessage, UpdateMessage
    <3>2. messages' = [messages EXCEPT ![m].version = v]
          /\ (messagesFts' = messagesFts \/ messagesFts' = [messagesFts EXCEPT ![m] = v])
      BY <2>6, <3>1 DEF InsertMessage, UpdateMessage, IndexUpdated
    <3>3. tempTable' \in [Connection -> Table] /\ UNCHANGED <<insertTriggers, disabledItem, cursor, seen, runs>>
      BY <2>5, <2>6 DEF InsertMessage, UpdateMessage
    <3>4. messages' \in [MessageId -> [version : Version, searchable : BOOLEAN]]
      <4>1. messages \in [MessageId -> [version : Version, searchable : BOOLEAN]]
        BY DEF TablesTypeOK
      <4>2. QED  BY <3>1, <3>2, <4>1
    <3>5. messagesFts' \in [MessageId -> Version]
      BY <3>1, <3>2 DEF TablesTypeOK
    <3>6. QED  BY <3>1, <3>3, <3>4, <3>5 DEF TablesTypeOK
  <2>7. ASSUME NEW m \in MessageId, RemoveMessageRow(m) PROVE TablesTypeOK'
    BY <1>1, <2>7 DEF TablesTypeOK, RemoveMessageRow
  <2>8. CASE DisableTriggers
    BY <2>4, <2>8 DEF TablesTypeOK, DisableTriggers, pagingVars
  <2>9. CASE EnableTriggers
    BY <2>1, <2>9 DEF TablesTypeOK, EnableTriggers, pagingVars
  <2>10. CASE Restart
    <3>1. insertTriggers' \in BOOLEAN /\ disabledItem' = FALSE
      BY <2>10 DEF Restart
    <3>2. messagesFts' \in [MessageId -> Version] /\ runs' \in Run
      BY <2>1, <2>4, <2>10 DEF Restart, TablesTypeOK
    <3>3. tempTable' \in [Connection -> Table] /\ cursor' = NoRun /\ seen' = Absent0 /\ UNCHANGED <<messages, writes>>
      BY <1>1, <2>10 DEF Restart
    <3>4. QED  BY <1>1, <3>1, <3>2, <3>3 DEF TablesTypeOK
  <2>11. CASE PageFirst
    <3>1. PICK run \in Run : run = runs + 1 /\ runs' = run
      BY <2>4, <2>11 DEF PageFirst
    <3>2. PICK c \in Connection : Page(c, run, c, writes, {m \in MessageId : InTable(m)})
      BY <2>11, <3>1 DEF PageFirst, getWorker
    <3>3. tempTable' \in [Connection -> Table] /\ cursor' \in Cursor /\ seen' \in [MessageId -> Version]
      BY <2>2, <3>2 DEF TablesTypeOK
    <3>4. UNCHANGED <<messages, indexVars, writes>>
      BY <2>11 DEF PageFirst
    <3>5. QED  BY <3>1, <3>3, <3>4 DEF TablesTypeOK, indexVars
  <2>12. CASE PageNext
    <3>1. PICK c \in Connection :
            \/ tempTable[c].run = cursor.run /\ Page(c, cursor.run, cursor.at, cursor.since, tempTable[c].ids)
            \/ cursor' = [cursor EXCEPT !.failed = TRUE] /\ UNCHANGED <<tempTable, seen>>
      BY <2>12 DEF PageNext, getWorker
    <3>2. /\ cursor.run \in Run /\ cursor.at \in Connection /\ cursor.since \in Version
          /\ tempTable[c].ids \in SUBSET MessageId
      BY DEF TablesTypeOK
    <3>3. tempTable' \in [Connection -> Table] /\ cursor' \in Cursor /\ seen' \in [MessageId -> Version]
      <4>1. CASE Page(c, cursor.run, cursor.at, cursor.since, tempTable[c].ids)
        BY <2>2, <3>2, <4>1
      <4>2. CASE cursor' = [cursor EXCEPT !.failed = TRUE] /\ UNCHANGED <<tempTable, seen>>
        BY <4>2 DEF TablesTypeOK
      <4>3. QED  BY <3>1, <4>1, <4>2
    <3>4. UNCHANGED <<messages, indexVars, writes, runs>>
      BY <2>12 DEF PageNext
    <3>5. QED  BY <3>3, <3>4 DEF TablesTypeOK, indexVars
  <2>13. CASE finishPageMessages
    <3>1. PICK c \in Connection :
            tempTable' = [tempTable EXCEPT ![c] = IF tempTable[c].run = cursor.run THEN NoTable ELSE @]
      BY <2>13 DEF finishPageMessages, getWorker
    <3>2. tempTable' \in [Connection -> Table]
      BY <1>1, <3>1 DEF TablesTypeOK
    <3>3. cursor' = NoRun /\ seen' = Absent0 /\ UNCHANGED <<messages, indexVars, writes, runs>>
      BY <2>13 DEF finishPageMessages
    <3>4. QED  BY <1>1, <3>2, <3>3 DEF TablesTypeOK, indexVars
  <2>14. CASE UNCHANGED tableVars
    BY <2>14 DEF TablesTypeOK, tableVars
  <2>15. QED
    BY <2>6, <2>7, <2>8, <2>9, <2>10, <2>11, <2>12, <2>13, <2>14 DEF TablesNext
<1>4. QED  BY <1>2, <1>3, PTL DEF TablesSpec

\* A payload belongs to a send that there is, and a send to a row that was free.
LEMMA SendLogTypes == SendLogSpec => []SendLogTypeOK
<1>1. SendLogInit => LogTyped
  BY LogStart DEF LogInv
<1>2. LogTyped /\ [SendLogNext]_sendLogVars => LogTyped'
  <2> SUFFICES ASSUME LogTyped, [SendLogNext]_sendLogVars PROVE LogTyped'
    OBVIOUS
  <2>1. ASSUME NEW ds \in SUBSET LogDevice, NEW ms \in SUBSET LogMessage, NEW t \in 1..LogTimes,
               insertSentProto(ds, ms, t)
        PROVE  LogTyped'
    <3>1. PICK id \in 1..MaxSends :
            /\ payloads' = [i \in DOMAIN payloads \cup {id} |->
                              IF i = id THEN [send |-> Len(sends) + 1, timestamp |-> t, messageIds |-> ms]
                              ELSE payloads[i]]
            /\ recipients' = recipients \cup ({id} \X ds)
            /\ sends' = Append(sends, [rowid |-> id, waiting |-> ds, dropped |-> FALSE])
      BY <2>1 DEF insertSentProto
    <3>2. PICK new \in SendRecord : new = [rowid |-> id, waiting |-> ds, dropped |-> FALSE]
      BY DEF SendRecord
    <3>3. sends' \in Seq(SendRecord) /\ DOMAIN sends \subseteq DOMAIN sends' /\ Len(sends) + 1 \in DOMAIN sends'
      BY <3>1, <3>2 DEF LogTyped
    <3>4. payloads' \in [DOMAIN payloads' -> PayloadRecord'] /\ DOMAIN payloads' \subseteq 1..MaxSends
      BY <3>1, <3>3 DEF LogTyped, PayloadRecord
    <3>5. recipients' \subseteq (1..MaxSends) \X LogDevice
      BY <3>1 DEF LogTyped
    <3>6. QED  BY <3>3, <3>4, <3>5 DEF LogTyped
  <2>2. ASSUME DOMAIN sends' = DOMAIN sends, sends' \in Seq(SendRecord), recipients' \subseteq (1..MaxSends) \X LogDevice,
               payloads' = payloads \/ \E ids : payloads' = [id \in DOMAIN payloads \ ids |-> payloads[id]]
        PROVE  LogTyped'
    <3>1. PayloadRecord' = PayloadRecord
      BY <2>2 DEF PayloadRecord
    <3>2. payloads' \in [DOMAIN payloads' -> PayloadRecord] /\ DOMAIN payloads' \subseteq 1..MaxSends
      BY <2>2 DEF LogTyped
    <3>3. QED  BY <2>2, <3>1, <3>2 DEF LogTyped
  <2>3. ASSUME NEW s \in DOMAIN sends, NEW d \in LogDevice, insertProtoRecipients(s, d) PROVE LogTyped'
    <3>1. PICK new : new = [sends[s] EXCEPT !.waiting = @ \cup {d}]
      OBVIOUS
    <3>2. sends[s] \in SendRecord
      BY DEF LogTyped
    <3>3. new \in SendRecord /\ sends[s].rowid \in 1..MaxSends
      BY <3>1, <3>2 DEF SendRecord
    <3>4. sends' = [sends EXCEPT ![s] = new]
      BY <2>3, <3>1 DEF insertProtoRecipients
    <3>5. sends' \in Seq(SendRecord) /\ DOMAIN sends' = DOMAIN sends
      BY <3>3, <3>4, OneEntryChanges DEF LogTyped
    <3>6. recipients' \subseteq (1..MaxSends) \X LogDevice /\ payloads' = payloads
      BY <2>3, <3>3 DEF LogTyped, insertProtoRecipients
    <3>7. QED  BY <2>2, <3>5, <3>6
  <2>4. ASSUME NEW d \in LogDevice, NEW t \in 1..LogTimes, deleteSentProtoRecipient(d, t) PROVE LogTyped'
    <3>1. PICK id \in DOMAIN payloads :
            /\ sends' = [sends EXCEPT ![payloads[id].send].waiting = @ \ {d}]
            /\ IF LastOfPayload(id, d) THEN DeletePayloads({id})
               ELSE recipients' = recipients \ {<<id, d>>} /\ UNCHANGED payloads
      BY <2>4 DEF deleteSentProtoRecipient
    <3>2. PICK s \in DOMAIN sends : s = payloads[id].send
      BY DEF LogTyped, PayloadRecord
    <3>3. PICK new : new = [sends[s] EXCEPT !.waiting = @ \ {d}]
      OBVIOUS
    <3>4. sends[s] \in SendRecord
      BY DEF LogTyped
    <3>5. new \in SendRecord
      BY <3>3, <3>4 DEF SendRecord
    <3>6. sends' = [sends EXCEPT ![s] = new]
      BY <3>1, <3>2, <3>3
    <3>7. sends' \in Seq(SendRecord) /\ DOMAIN sends' = DOMAIN sends
      BY <3>5, <3>6, OneEntryChanges DEF LogTyped
    <3>8. recipients' \subseteq recipients
          /\ (payloads' = payloads \/ \E ids : payloads' = [i \in DOMAIN payloads \ ids |-> payloads[i]])
      BY <3>1 DEF DeletePayloads
    <3>9. recipients' \subseteq (1..MaxSends) \X LogDevice
      BY <3>8 DEF LogTyped
    <3>10. QED  BY <2>2, <3>7, <3>8, <3>9
  <2>5. ASSUME NEW ids, DeletePayloads(ids), DropSends(ids) PROVE LogTyped'
    <3>1. DOMAIN sends' = DOMAIN sends
      BY <2>5 DEF DropSends
    <3>2. \A s \in DOMAIN sends : sends'[s] \in SendRecord
      <4>1. SUFFICES ASSUME NEW s \in DOMAIN sends PROVE sends'[s] \in SendRecord
        OBVIOUS
      <4>2. PICK flag \in BOOLEAN : flag = (sends[s].dropped \/ \E id \in ids : payloads[id].send = s)
        OBVIOUS
      <4>3. sends'[s] = [sends[s] EXCEPT !.dropped = flag]
        BY <2>5, <4>2 DEF DropSends
      <4>4. sends[s] \in SendRecord
        BY DEF LogTyped
      <4>5. QED  BY <4>3, <4>4 DEF SendRecord
    <3>3. sends' \in Seq(SendRecord)
      BY <2>5, <3>1, <3>2 DEF DropSends, LogTyped
    <3>4. QED  BY <2>2, <2>5, <3>1, <3>3 DEF DeletePayloads, LogTyped
  <2>6. CASE UNCHANGED sendLogVars
    BY <2>6 DEF sendLogVars, LogTyped, PayloadRecord
  <2>7. QED
    BY <2>1, <2>3, <2>4, <2>5, <2>6 DEF SendLogNext, deleteSentProtosOlderThan, deleteSentProtoByMessageId, deleteAllSentProtos
<1>3. LogTyped => SendLogTypeOK
  <2>1. ASSUME LogTyped
        PROVE  /\ \A id \in DOMAIN payloads : payloads[id] \in PayloadRecord
               /\ \A s \in DOMAIN sends : sends[s] \in SendRecord
    BY <2>1 DEF LogTyped
  <2>2. QED  BY <2>1 DEF LogTyped, SendLogTypeOK, SendRecord, PayloadRecord
<1>4. QED  BY <1>1, <1>2, <1>3, PTL DEF SendLogSpec

\* Attempts are counted up to the limit and no further, since a row at the limit is not given again.
LEMMA InboxTypes == InboxSpec => []InboxTypeOK
<1> DEFINE Inv == InboxTyped /\ \A e \in startIds : unprocessed[e] < MaxAttempts
<1>1. InboxInit => Inv
  BY InboxAssumption DEF InboxInit, InboxTyped, NoRow
<1>2. Inv /\ [InboxNext]_inboxVars => Inv'
  <2> SUFFICES ASSUME Inv, [InboxNext]_inboxVars PROVE Inv'
    OBVIOUS
  <2>1. ASSUME NEW e \in Envelope, Decrypt(e) PROVE Inv'
    BY <2>1 DEF InboxTyped, Decrypt
  <2>2. ASSUME NEW batch \in SUBSET Envelope, commitDecryptResult(batch) PROVE Inv'
    BY <2>2, InboxAssumption
    DEF InboxTyped, commitDecryptResult, RolledBack, Committed, TripleOf, OfLastResort, saveUnprocessed, NoRow, Keys
  <2>3. ASSUME NEW old \in SUBSET Envelope, getAllUnprocessedIds(old) PROVE Inv'
    BY <2>3, InboxAssumption DEF InboxTyped, getAllUnprocessedIds, NoRow
  <2>4. ASSUME NEW ids \in SUBSET Envelope, getUnprocessedByIdsAndIncrementAttempts(ids) PROVE Inv'
    BY <2>4, InboxAssumption DEF InboxTyped, getUnprocessedByIdsAndIncrementAttempts, Counted, NoRow, InInbox
  <2>5. ASSUME NEW some \in SUBSET Envelope, removeUnprocessed(some) PROVE Inv'
    BY <2>5, InboxAssumption DEF InboxTyped, removeUnprocessed, NoRow
  <2>6. CASE ClientCrash
    BY <2>6 DEF InboxTyped, ClientCrash
  <2>7. CASE UNCHANGED inboxVars
    BY <2>7 DEF InboxTyped, inboxVars
  <2>8. QED  BY <2>1, <2>2, <2>3, <2>4, <2>5, <2>6, <2>7 DEF InboxNext
<1>3. Inv => InboxTypeOK
  BY DEF InboxTyped, InboxTypeOK
<1>4. QED  BY <1>1, <1>2, <1>3, PTL DEF InboxSpec

\* Tasks and scans have their types: ids and attempts stay within their bounds.
LEMMA SyncTypes == SyncSpec => []SyncTypeOK
<1>1. SyncInv => SyncTypeOK
  BY DEF SyncInv, SyncTyped, SyncTypeOK, TaskRecord, ScanRecord
<1>2. SyncInit => SyncInv
  BY SyncStart
<1>3. SyncInv /\ [SyncNext]_syncVars => SyncInv'
  BY SyncStep
<1>4. QED  BY <1>1, <1>2, <1>3, PTL DEF SyncSpec

\* Pinned messages have their times.
LEMMA PinsTypes == PinsSpec => []PinsTypeOK
<1>1. PinsInv => PinsTypeOK
  BY DEF PinsInv, PinsTyped, PinsTypeOK, TimesOf
<1>2. QED  BY <1>1, PinsSafe, PTL

\* A row of a call link, and what the storage service has of it, are rows and records.
LEMMA LinksTypes == LinksSpec => []LinksTypeOK
<1> DEFINE LinkRow == [there : BOOLEAN, adminKey : BOOLEAN, deleted : BOOLEAN, hasID : BOOLEAN, needsSync : BOOLEAN]
<1>1. LinksInit => LinksTypeOK
  BY DEF LinksInit, LinksTypeOK, LinkRecords, NoLink
<1>2. LinksTypeOK /\ [LinksNext]_linkVars => LinksTypeOK'
  <2> SUFFICES ASSUME LinksTypeOK, [LinksNext]_linkVars PROVE LinksTypeOK'
    OBVIOUS
  <2>1. NoLink \in LinkRow /\ \A l \in Link : callLinks[l] \in LinkRow /\ Deleted(callLinks[l]) \in LinkRow
    BY DEF LinksTypeOK, Deleted, NoLink
  <2>2. ASSUME NEW l \in Link, NEW admin \in BOOLEAN, insertCallLink(l, admin) PROVE LinksTypeOK'
    BY <2>2 DEF LinksTypeOK, insertCallLink, NoLink
  <2>3. ASSUME NEW l \in Link, insertOrUpdateCallLinkFromSync(l) PROVE LinksTypeOK'
    BY <2>3 DEF LinksTypeOK, insertOrUpdateCallLinkFromSync, NoLink
  <2>4. ASSUME NEW l \in Link, beginDeleteCallLink(l) PROVE LinksTypeOK'
    BY <2>1, <2>4 DEF LinksTypeOK, beginDeleteCallLink
  <2>5. ASSUME NEW l \in Link, deleteCallLinkFromSync(l) PROVE LinksTypeOK'
    BY <2>1, <2>5 DEF LinksTypeOK, deleteCallLinkFromSync, LinkRecords
  <2>6. ASSUME NEW l \in Link, finalizeDeleteCallLink(l) PROVE LinksTypeOK'
    BY <2>1, <2>6 DEF LinksTypeOK, finalizeDeleteCallLink
  <2>7. ASSUME NEW l \in Link, BeginLinkUpload(l) PROVE LinksTypeOK'
    BY <2>7 DEF LinksTypeOK, BeginLinkUpload, LinkRecord, LinkRecords
  <2>8. ASSUME NEW l \in Link, EndLinkUpload(l) PROVE LinksTypeOK'
    <3>1. callLinks' = callLinks \/ updateCallLink(l)
      BY <2>8 DEF EndLinkUpload
    <3>2. callLinks' \in [Link -> LinkRow]
      <4>1. PICK row : row = IF callLinks[l].there THEN [callLinks[l] EXCEPT !.adminKey = TRUE, !.hasID = TRUE, !.needsSync = FALSE]
                             ELSE callLinks[l]
        OBVIOUS
      <4>2. row \in LinkRow
        <5>1. PICK old \in LinkRow : old = callLinks[l]
          BY DEF LinksTypeOK
        <5>2. [old EXCEPT !.adminKey = TRUE, !.hasID = TRUE, !.needsSync = FALSE] \in LinkRow
          OBVIOUS
        <5>3. QED  BY <4>1, <5>1, <5>2
      <4>3. callLinks' = callLinks \/ callLinks' = [callLinks EXCEPT ![l] = row]
        BY <3>1, <4>1 DEF updateCallLink, callLinkExists
      <4>4. QED  BY <4>2, <4>3 DEF LinksTypeOK
    <3>3. linkUploading' \in [Link -> LinkRecords] /\ linkStorage' \in [Link -> LinkRecords]
      BY <2>8 DEF LinksTypeOK, EndLinkUpload, LinkRecords
    <3>4. QED  BY <3>2, <3>3 DEF LinksTypeOK
  <2>9. CASE beginDeleteAllCallLinks
    BY <2>1, <2>9 DEF LinksTypeOK, beginDeleteAllCallLinks
  <2>10. CASE removeAllCallLinks
    BY <2>1, <2>10 DEF LinksTypeOK, removeAllCallLinks, LinkRecords
  <2>11. CASE UNCHANGED linkVars
    BY <2>11 DEF LinksTypeOK, linkVars
  <2>12. QED  BY <2>2, <2>3, <2>4, <2>5, <2>6, <2>7, <2>8, <2>9, <2>10, <2>11 DEF LinksNext
<1>3. QED  BY <1>1, <1>2, PTL DEF LinksSpec

\* The same for sticker packs, whatever way they come, go and are told.
LEMMA StickersTypes == StickersSpec => []StickersTypeOK
<1>1. StickersInv => StickersTypeOK
  BY DEF StickersInv
<1>2. QED  BY PacksSafe, <1>1, PTL

\* Every row that a folder has, had or is about to be written with, is a row.
LEMMA FoldersTypes == FoldersSpec => []FoldersTypeOK
<1>1. FoldersInv => FoldersTypeOK
  BY DEF FoldersInv
<1>2. QED  BY FoldersSafe, <1>1, PTL

----------------------------------------------------------------------------
(***************************************************************************)
(* What the run of the composition checks.                                 *)
(***************************************************************************)

\* Every variable of every part has its type throughout (index.node.ts 298-433, sql.js and the modules around them).
THEOREM PartsTypeCorrect == Spec => []PartsTypeOK
<1>1. Spec => [](part \in Parts)
  <2>1. Init => part \in Parts
    BY DEF Init
  <2>2. part \in Parts /\ [Next]_vars => (part \in Parts)'
    BY DEF Next, vars
  <2>3. QED  BY <2>1, <2>2, PTL DEF Spec
<1>2. Spec => []AttachTypeOK
  BY PartsBehave, AttachTypes, PTL
<1>3. Spec => []OptTypeOK
  BY PartsBehave, OptTypes, PTL
<1>4. Spec => []StartTypeOK
  BY PartsBehave, StartTypes, PTL
<1>5. Spec => []HttpTypeOK
  BY PartsBehave, HttpTypes, PTL
<1>6. Spec => []NestTypeOK
  BY PartsBehave, NestTypes, PTL
<1>7. Spec => []JobTypeOK
  BY PartsBehave, JobTypes, PTL
<1>8. Spec => []FilesTypeOK
  BY PartsBehave, FilesTypes, PTL
<1>9. Spec => []TablesTypeOK
  BY PartsBehave, TablesTypes, PTL
<1>10. Spec => []SendLogTypeOK
  BY PartsBehave, SendLogTypes, PTL
<1>11. Spec => []StickersTypeOK
  BY PartsBehave, StickersTypes, PTL
<1>12. Spec => []LinksTypeOK
  BY PartsBehave, LinksTypes, PTL
<1>13. Spec => []FoldersTypeOK
  BY PartsBehave, FoldersTypes, PTL
<1>14. Spec => []PinsTypeOK
  BY PartsBehave, PinsTypes, PTL
<1>15. Spec => []InboxTypeOK
  BY PartsBehave, InboxTypes, PTL
<1>16. Spec => []BootTypeOK
  BY PartsBehave, BootTypes, PTL
<1>17. Spec => []SyncTypeOK
  BY PartsBehave, SyncTypes, PTL
<1>18. Spec =>
        /\ [](part \in Parts)
        /\ []AttachTypeOK
        /\ []OptTypeOK
        /\ []StartTypeOK
        /\ []HttpTypeOK
        /\ []NestTypeOK
        /\ []JobTypeOK
        /\ []FilesTypeOK
        /\ []TablesTypeOK
        /\ []SendLogTypeOK
        /\ []StickersTypeOK
        /\ []LinksTypeOK
        /\ []FoldersTypeOK
        /\ []PinsTypeOK
        /\ []InboxTypeOK
        /\ []BootTypeOK
        /\ []SyncTypeOK
  BY <1>1, <1>2, <1>3, <1>4, <1>5, <1>6, <1>7, <1>8, <1>9, <1>10, <1>11, <1>12, <1>13, <1>14, <1>15, <1>16, <1>17
<1>19. /\ part \in Parts
      /\ AttachTypeOK
      /\ OptTypeOK
      /\ StartTypeOK
      /\ HttpTypeOK
      /\ NestTypeOK
      /\ JobTypeOK
      /\ FilesTypeOK
      /\ TablesTypeOK
      /\ SendLogTypeOK
      /\ StickersTypeOK
      /\ LinksTypeOK
      /\ FoldersTypeOK
      /\ PinsTypeOK
      /\ InboxTypeOK
      /\ BootTypeOK
      /\ SyncTypeOK
      => PartsTypeOK
  BY DEF PartsTypeOK
<1>20. QED  BY <1>18, <1>19, PTL

\* What the parts promise, all at once and together with their types.
PartsSafe ==
  /\ PartsTypeOK
  /\ CompleteFileIsServed
  /\ BodyMatchesHeaders
  /\ OnlyVerifiedBytes
  /\ KeyOpensDatabase
  /\ SettingsSurvive
  /\ OneWholeAnswer
  /\ EventsAreTheLines
  /\ SessionOfNewestStream
  /\ StatsMatchRows
  /\ ReferencedFilesStay
  /\ IndexMatchesMessages
  /\ PagesMissOnlyLaterWrites
  /\ LogMatchesSends
  /\ StorageKnowsPacks
  /\ DeletionsAreTold
  /\ FoldersInOrder
  /\ NewestPinsStay
  /\ NothingDecryptedIsLost
  /\ BootPayloadIsRight
  /\ ScanMissesNone

\* Every part keeps its promises in the composition (index.node.ts 298-433, sql.js and the modules around
\* them), at once with the types: given that no second tab starts, that devices are added to a payload that
\* is in the log, that deletions of call links wait for their upload and that a one-time key is in one hand.
THEOREM PartsAreSafe ==
  ASSUME ~OtherTab, RecipientsInTime, DeletesWait, KeyUsedOnce
  PROVE  Spec => []PartsSafe
<1>1. Spec => []PartsTypeOK
  BY PartsTypeCorrect
<1>2. Spec => []CompleteFileIsServed
  BY PartsBehave, WholeFilesAreServed, PTL
<1>3. Spec => []BodyMatchesHeaders
  BY PartsBehave, AnswersMatchHeads, PTL
<1>4. Spec => []OnlyVerifiedBytes
  BY PartsBehave, VerifiedBytes, PTL
<1>5. Spec => []KeyOpensDatabase
  BY PartsBehave, KeyStaysGood, PTL
<1>6. Spec => []SettingsSurvive
  BY PartsBehave, SettingsStay, PTL
<1>7. Spec => []OneWholeAnswer
  BY PartsBehave, AnswersAreWhole, PTL
<1>8. Spec => []EventsAreTheLines
  BY PartsBehave, EventsAreRight, PTL
<1>9. Spec => []SessionOfNewestStream
  BY PartsBehave, SessionIsNewest, PTL
<1>10. Spec => []StatsMatchRows
  BY PartsBehave, StatsStayRight, PTL
<1>11. Spec => []ReferencedFilesStay
  BY PartsBehave, FilesStay, PTL
<1>12. Spec => []IndexMatchesMessages
  BY PartsBehave, IndexFollows, PTL
<1>13. Spec => []PagesMissOnlyLaterWrites
  BY PartsBehave, PagesCover, PTL
<1>14. Spec => []LogMatchesSends
  BY PartsBehave, LogIsRight, PTL
<1>15. Spec => []StorageKnowsPacks
  BY PartsBehave, PacksAreKnown, PTL
<1>16. Spec => []DeletionsAreTold
  BY PartsBehave, DeletionsTold, PTL
<1>17. Spec => []FoldersInOrder
  BY PartsBehave, FoldersStayInOrder, PTL
<1>18. Spec => []NewestPinsStay
  BY PartsBehave, NewestPinsAreKept, PTL
<1>19. Spec => []NothingDecryptedIsLost
  BY PartsBehave, InboxIsSafe, PTL
<1>20. Spec => []BootPayloadIsRight
  BY PartsBehave, PayloadIsRight, PTL
<1>21. Spec => []ScanMissesNone
  BY PartsBehave, ScansMissNone, PTL
<1>22. /\ PartsTypeOK
      /\ CompleteFileIsServed
      /\ BodyMatchesHeaders
      /\ OnlyVerifiedBytes
      /\ KeyOpensDatabase
      /\ SettingsSurvive
      /\ OneWholeAnswer
      /\ EventsAreTheLines
      /\ SessionOfNewestStream
      /\ StatsMatchRows
      /\ ReferencedFilesStay
      /\ IndexMatchesMessages
      /\ PagesMissOnlyLaterWrites
      /\ LogMatchesSends
      /\ StorageKnowsPacks
      /\ DeletionsAreTold
      /\ FoldersInOrder
      /\ NewestPinsStay
      /\ NothingDecryptedIsLost
      /\ BootPayloadIsRight
      /\ ScanMissesNone
      => PartsSafe
  BY DEF PartsSafe
<1>23. QED  BY <1>1, <1>2, <1>3, <1>4, <1>5, <1>6, <1>7, <1>8, <1>9, <1>10, <1>11, <1>12, <1>13, <1>14, <1>15, <1>16,
       <1>17, <1>18, <1>19, <1>20, <1>21, <1>22, PTL
=============================================================================
