----------------------------- MODULE BridgeProofs -----------------------------
(***************************************************************************)
(* Bridge for any number of tabs, links, requests, drops and restarts.     *)
(***************************************************************************)
EXTENDS Bridge, TLAPS

\* The bounds are numbers, and links, tabs and the absent link are told apart.
LEMMA BridgeBounds ==
  /\ MaxRequests \in Nat /\ MaxHandles \in Nat /\ MaxCallbacks \in Nat
  /\ MaxDrops \in Nat /\ MaxRestarts \in Nat
  /\ NoLink \notin Link /\ Tab \cap Link = {} /\ <<>> \notin Tab
  /\ Ops \subseteq {"mint", "use", "call", "plain", "send", "sync"}
BY BridgeAssumption DEF BridgeAssumption

-----------------------------------------------------------------------------
(* Frames and what is done with sequences of them. *)

\* The absent handle is no handle of the registry.
LEMMA NoHandleIsNone == NoHandle \notin HandleType
<1>1. HandleType \subseteq [id : Nat, epoch : Nat]
  BY BridgeBounds DEF HandleType
<1>2. QED  BY <1>1, BridgeAssumption DEF BridgeAssumption

\* A frame of a page is one of three kinds.
LEMMA UpFrameKinds ==
  ASSUME NEW f \in UpFrame
  PROVE  /\ f.t \in {"req", "release", "cbres"}
         /\ f.t = "req" => f \in RequestType
         /\ f.t = "release" => f.h \in HandleType
         /\ f.t = "cbres" => f.id \in 1 .. MaxCallbacks /\ f.for \in RequestType
BY DEF UpFrame, RequestType

\* A frame to a tab is an answer, a greeting or a callback request, each with its fields.
LEMMA DownFrameKinds ==
  ASSUME NEW f \in DownFrame
  PROVE  /\ f.t \in {"res", "hello", "cbreq"}
         /\ f.t = "res" => f.id \in 1 .. MaxRequests /\ f.h \in HandleType \cup {NoHandle}
         /\ f.t = "hello" => f.epoch \in 1 .. MaxRestarts + 1
         /\ f.t = "cbreq" => f \in CbReqType /\ f.h \in HandleType \cup {NoHandle}
BY DEF DownFrame, CbReqType

\* Sending a frame puts it behind those already sent.
LEMMA AddFrame ==
  ASSUME NEW S, NEW s \in Seq(S), NEW f \in S
  PROVE  /\ Append(s, f) \in Seq(S)
         /\ Len(Append(s, f)) = Len(s) + 1
         /\ Append(s, f)[Len(s) + 1] = f
         /\ \A i \in 1 .. Len(s) : Append(s, f)[i] = s[i]
OBVIOUS

\* Reading takes the oldest frame away.
LEMMA DropFrame ==
  ASSUME NEW S, NEW s \in Seq(S), s # <<>>
  PROVE  /\ Tail(s) \in Seq(S) /\ Len(s) \in Nat
         /\ Len(s) >= 1 /\ Len(Tail(s)) = Len(s) - 1
         /\ Head(s) = s[1] /\ Head(s) \in S
         /\ \A i \in 1 .. Len(s) - 1 : Tail(s)[i] = s[i + 1]
OBVIOUS

\* Flushing a queue puts its frames behind those already sent.
LEMMA JoinFrames ==
  ASSUME NEW S, NEW s \in Seq(S), NEW u \in Seq(S)
  PROVE  /\ s \o u \in Seq(S)
         /\ Len(s \o u) = Len(s) + Len(u)
         /\ \A i \in 1 .. Len(s) : (s \o u)[i] = s[i]
         /\ \A i \in 1 .. Len(u) : (s \o u)[Len(s) + i] = u[i]
OBVIOUS

\* A cut link keeps its first frames.
LEMMA KeepFirst ==
  ASSUME NEW S, NEW s \in Seq(S), NEW k \in 0 .. Len(s)
  PROVE  /\ SubSeq(s, 1, k) \in Seq(S)
         /\ Len(SubSeq(s, 1, k)) = k
         /\ \A i \in 1 .. k : SubSeq(s, 1, k)[i] = s[i]
OBVIOUS

\* The smaller of two numbers is at most each of them.
LEMMA MinOfTwo ==
  ASSUME NEW n \in Nat, NEW m \in Nat
  PROVE  Min({n, m}) \in 0 .. m /\ Min({n, m}) <= n
<1>1. \E x \in {n, m} : \A y \in {n, m} : x <= y
  OBVIOUS
<1>2. Min({n, m}) \in {n, m} /\ \A y \in {n, m} : Min({n, m}) <= y
  BY <1>1 DEF Min
<1>3. QED  BY <1>2

\* Cutting keeps a first part of every sequence, and all of it off the links C.
LEMMA CutFacts ==
  ASSUME NEW S, NEW frames \in [Link -> Seq(S)], NEW C, NEW n \in 0 .. Longest
  PROVE  /\ Cut(frames, C, n) \in [Link -> Seq(S)]
         /\ \A c \in Link : \E k \in 0 .. Len(frames[c]) :
              Cut(frames, C, n)[c] = SubSeq(frames[c], 1, k)
         /\ \A c \in Link : c \notin C => Cut(frames, C, n)[c] = frames[c]
<1>1. n \in Nat
  OBVIOUS
<1>2. ASSUME NEW c \in Link
      PROVE  \E k \in 0 .. Len(frames[c]) : Cut(frames, C, n)[c] = SubSeq(frames[c], 1, k)
  <2>1. Len(frames[c]) \in Nat /\ frames[c] \in Seq(S)
    OBVIOUS
  <2>2. CASE c \in C
    <3>1. Min({n, Len(frames[c])}) \in 0 .. Len(frames[c])
      BY <1>1, <2>1, MinOfTwo
    <3>2. Cut(frames, C, n)[c] = SubSeq(frames[c], 1, Min({n, Len(frames[c])}))
      BY <2>2 DEF Cut
    <3>3. QED  BY <3>1, <3>2
  <2>3. CASE c \notin C
    <3>1. SubSeq(frames[c], 1, Len(frames[c])) = frames[c]
      BY <2>1
    <3>2. Cut(frames, C, n)[c] = SubSeq(frames[c], 1, Len(frames[c]))
      BY <2>3, <3>1 DEF Cut
    <3>3. Len(frames[c]) \in 0 .. Len(frames[c])
      BY <2>1
    <3>4. QED  BY <3>2, <3>3
  <2>4. QED  BY <2>2, <2>3
<1>3. \A c \in Link : Cut(frames, C, n)[c] \in Seq(S)
  BY <1>2, KeepFirst
<1>4. \A c \in Link : c \notin C => Cut(frames, C, n)[c] = frames[c]
  BY DEF Cut
<1>5. Cut(frames, C, n) \in [Link -> Seq(S)]
  BY <1>3 DEF Cut
<1>6. QED  BY <1>2, <1>4, <1>5

\* Of every link a break leaves the first frames, as many as arrived.
LEMMA CutKeepsFirst ==
  ASSUME NEW S, NEW frames \in [Link -> Seq(S)], NEW C, NEW n \in 0 .. Longest, NEW c \in Link
  PROVE  \E k \in 0 .. Len(frames[c]) : Cut(frames, C, n)[c] = SubSeq(frames[c], 1, k)
BY CutFacts

\* A break that loses everything empties the links it hits and leaves the others.
LEMMA CutAll ==
  ASSUME NEW S, NEW frames \in [Link -> Seq(S)], NEW C
  PROVE  /\ Cut(frames, C, 0) \in [Link -> Seq(S)]
         /\ \A c \in Link : Cut(frames, C, 0)[c] = IF c \in C THEN <<>> ELSE frames[c]
<1>1. ASSUME NEW c \in Link
      PROVE  Cut(frames, C, 0)[c] = IF c \in C THEN <<>> ELSE frames[c]
  <2>1. frames[c] \in Seq(S) /\ Len(frames[c]) \in Nat
    OBVIOUS
  <2>2. Min({0, Len(frames[c])}) = 0
    <3>1. Min({0, Len(frames[c])}) \in 0 .. Len(frames[c]) /\ Min({0, Len(frames[c])}) <= 0
      BY <2>1, MinOfTwo
    <3>2. QED  BY <2>1, <3>1
  <2>3. SubSeq(frames[c], 1, 0) = <<>>
    BY <2>1
  <2>4. QED  BY <2>2, <2>3 DEF Cut
<1>2. Cut(frames, C, 0) \in [Link -> Seq(S)]
  <2>1. <<>> \in Seq(S)
    OBVIOUS
  <2>2. \A c \in Link : Cut(frames, C, 0)[c] \in Seq(S)
    BY <1>1, <2>1
  <2>3. QED  BY <2>2 DEF Cut
<1>3. QED  BY <1>1, <1>2

\* A page's frame goes to its open link, or waits, or is lost on a broken link.
LEMMA SendFrameFacts ==
  ASSUME TypeOK, NEW p \in Tab, NEW f \in UpFrame, SendFrame(p, f)
  PROVE  /\ toServer' \in [Link -> Seq(UpFrame)] /\ queue' \in [Tab -> Seq(UpFrame)]
         /\ \/ /\ socket[p] \in Link /\ link[socket[p]] = "up" /\ queue' = queue
               /\ toServer' = [toServer EXCEPT ![socket[p]] = Append(toServer[socket[p]], f)]
            \/ /\ ~(socket[p] \in Link /\ link[socket[p]] = "up")
               /\ \/ toServer' = toServer /\ queue' = [queue EXCEPT ![p] = Append(queue[p], f)]
                  \/ /\ UNCHANGED <<toServer, queue>>
                     /\ socket[p] \in Link /\ link[socket[p]] = "broken"
<1>1. /\ socket[p] \in Link \cup {NoLink} /\ NoLink \notin Link
      /\ toServer \in [Link -> Seq(UpFrame)] /\ queue \in [Tab -> Seq(UpFrame)]
  BY BridgeBounds DEF TypeOK, TabsTypeOK, LinksTypeOK
<1>2. CASE socket[p] \in Link /\ link[socket[p]] = "up"
  <2>1. /\ toServer' = [toServer EXCEPT ![socket[p]] = Append(toServer[socket[p]], f)]
        /\ queue' = queue
    BY <1>1, <1>2 DEF SendFrame, Transmit, Enqueue
  <2>2. Append(toServer[socket[p]], f) \in Seq(UpFrame)
    BY <1>1, <1>2, AddFrame
  <2>3. QED  BY <1>1, <1>2, <2>1, <2>2
<1>3. CASE ~(socket[p] \in Link /\ link[socket[p]] = "up")
  <2>1. \/ toServer' = toServer /\ queue' = [queue EXCEPT ![p] = Append(queue[p], f)]
        \/ /\ UNCHANGED <<toServer, queue>>
           /\ socket[p] \in Link /\ link[socket[p]] = "broken"
    BY <1>1, <1>3 DEF SendFrame, Transmit, Enqueue
  <2>2. Append(queue[p], f) \in Seq(UpFrame)
    BY <1>1, AddFrame
  <2>3. QED  BY <1>1, <1>3, <2>1, <2>2
<1>4. QED  BY <1>2, <1>3

-----------------------------------------------------------------------------
(* Types. *)

\* The frames a page makes.
LEMMA PageFrames ==
  ASSUME TypeOK, NEW p \in Tab
  PROVE  /\ \A op \in Ops, h \in held[p] \cup {NoHandle} :
              Live(p) /\ nextId[p] <= MaxRequests => Req(p, op, h) \in RequestType /\ Req(p, op, h) \in UpFrame
         /\ \A h \in held[p] : Release(h) \in UpFrame
         /\ \A x \in called[p] : CbRes(x) \in UpFrame
<1>1. /\ nextId[p] \in 1 .. MaxRequests + 1 /\ gen[p] \in Nat \ {0}
      /\ boot[p] \in 0 .. epoch /\ epoch \in 1 .. MaxRestarts + 1
      /\ held[p] \subseteq HandleType /\ called[p] \subseteq CbReqType
  BY DEF TypeOK, TabsTypeOK, ServerTypeOK
<1>2. ASSUME NEW op \in Ops, NEW h \in held[p] \cup {NoHandle}, Live(p), nextId[p] <= MaxRequests
      PROVE  Req(p, op, h) \in RequestType
  <2>1. nextId[p] \in 1 .. MaxRequests /\ boot[p] \in 1 .. MaxRestarts + 1
    BY <1>1, <1>2, BridgeBounds DEF Live
  <2>2. h \in HandleType \cup {NoHandle}
    BY <1>1
  <2>3. QED  BY <1>1, <2>1, <2>2 DEF Req, RequestType
<1>3. \A h \in held[p] : Release(h) \in UpFrame
  BY <1>1 DEF Release, UpFrame
<1>4. \A x \in called[p] : CbRes(x) \in UpFrame
  BY <1>1 DEF CbRes, UpFrame, CbReqType
<1>5. RequestType \subseteq UpFrame
  BY DEF UpFrame
<1>6. QED  BY <1>2, <1>3, <1>4, <1>5

\* The handle of a step, and the frames the server makes.
LEMMA ServerFrames ==
  ASSUME TypeOK
  PROVE  /\ NewHandle \in HandleType
         /\ Hello \in DownFrame
         /\ \A r \in RequestType, h \in HandleType \cup {NoHandle} : Res(r, h) \in DownFrame
         /\ \A n \in 1 .. MaxCallbacks, r \in RequestType, h \in HandleType \cup {NoHandle} :
              CbReq(n, h, r) \in DownFrame
<1>1. nextHandle \in Nat \ {0} /\ epoch \in 1 .. MaxRestarts + 1
  BY DEF TypeOK, ServerTypeOK
<1>2. NewHandle \in HandleType
  BY <1>1 DEF NewHandle, HandleType
<1>3. Hello \in DownFrame
  BY <1>1 DEF Hello, DownFrame
<1>4. \A r \in RequestType, h \in HandleType \cup {NoHandle} : Res(r, h) \in DownFrame
  BY DEF Res, DownFrame, RequestType
<1>5. \A n \in 1 .. MaxCallbacks, r \in RequestType, h \in HandleType \cup {NoHandle} :
        CbReq(n, h, r) \in DownFrame
  BY DEF CbReq, DownFrame, CbReqType
<1>6. QED  BY <1>2, <1>3, <1>4, <1>5

\* A reply is one more typed frame to a usable link, or none.
LEMMA ReplyType ==
  ASSUME TypeOK, NEW c \in Link, NEW f \in DownFrame, Reply(c, f)
  PROVE  /\ toTab' \in [Link -> Seq(DownFrame)]
         /\ \/ toTab' = toTab
            \/ session[c] /\ link[c] \in Usable /\ toTab' = [toTab EXCEPT ![c] = Append(toTab[c], f)]
<1>1. toTab \in [Link -> Seq(DownFrame)]
  BY DEF TypeOK, LinksTypeOK
<1>2. Append(toTab[c], f) \in Seq(DownFrame)
  BY <1>1, AddFrame
<1>3. QED  BY <1>1, <1>2 DEF Reply

\* A stored handle is below the counter.
LEMMA StoreTypes ==
  ASSUME TypeOK, StoreHandle
  PROVE  nextHandle' \in Nat \ {0} /\ registry' \subseteq 1 .. nextHandle' - 1
<1>1. /\ nextHandle \in Nat \ {0} /\ nextHandle' = nextHandle + 1
      /\ registry' = registry \cup {nextHandle} /\ registry \subseteq 1 .. nextHandle - 1
  BY DEF StoreHandle, NewHandle, TypeOK, ServerTypeOK
<1>2. nextHandle' \in Nat \ {0}
  BY <1>1
<1>3. \A i \in 1 .. nextHandle - 1 : i \in 1 .. nextHandle' - 1
  BY <1>1
<1>4. nextHandle \in 1 .. nextHandle' - 1
  BY <1>1
<1>5. QED  BY <1>1, <1>2, <1>3, <1>4

\* The links keep their shape when only their frames change, and so on.
LEMMA BridgeKept ==
  /\ TabsTypeOK /\ UNCHANGED <<tabVars, epoch>> => TabsTypeOK'
  /\ LinksTypeOK /\ UNCHANGED linkVars => LinksTypeOK'
  /\ ServerTypeOK /\ UNCHANGED <<serverVars, received, drops>> => ServerTypeOK'
BY DEF tabVars, linkVars, serverVars, TabsTypeOK, LinksTypeOK, ServerTypeOK

\* What a page does: Invoke, ReleaseHandle, SyncMint and AnswerCallback.
LEMMA PageTypes ==
  ASSUME TypeOK, NEW p \in Tab,
         Page(p) \/ \E x \in called[p] : AnswerCallback(p, x)
  PROVE  TypeOK'
<1> TabsTypeOK /\ LinksTypeOK /\ ServerTypeOK
  BY DEF TypeOK
<1>1. ASSUME NEW f \in UpFrame, SendFrame(p, f), UNCHANGED <<link, owner, session, toTab>>
      PROVE  LinksTypeOK' /\ queue' \in [Tab -> Seq(UpFrame)]
  BY <1>1, SendFrameFacts DEF LinksTypeOK
<1>2. ASSUME NEW op \in Ops \ {"sync"}, NEW h \in held[p] \cup {NoHandle}, Invoke(p, op, h)
      PROVE  TypeOK'
  <2>1. Req(p, op, h) \in UpFrame /\ SendFrame(p, Req(p, op, h))
    BY <1>2, PageFrames DEF Invoke
  <2>2. LinksTypeOK' /\ queue' \in [Tab -> Seq(UpFrame)]
    BY <1>1, <1>2, <2>1 DEF Invoke
  <2>3. ServerTypeOK'
    BY <1>2, BridgeKept DEF Invoke, history
  <2>4. nextId[p] \in 1 .. MaxRequests
    BY <1>2, BridgeBounds DEF Invoke, TabsTypeOK
  <2>5. nextId' \in [Tab -> 1 .. MaxRequests + 1]
    <3>1. nextId[p] + 1 \in 1 .. MaxRequests + 1
      BY <2>4, BridgeBounds
    <3>2. QED  BY <1>2, <3>1 DEF Invoke, TabsTypeOK
  <2>6. pending' \in [Tab -> SUBSET (1 .. MaxRequests)]
    BY <1>2, <2>4 DEF Invoke, TabsTypeOK
  <2>7. UNCHANGED <<boot, gen, reloading, socket, held, called, epoch>>
    BY <1>2 DEF Invoke, serverVars
  <2>8. TabsTypeOK'
    BY <2>2, <2>5, <2>6, <2>7 DEF TabsTypeOK
  <2>9. QED  BY <2>2, <2>3, <2>8 DEF TypeOK
<1>3. ASSUME NEW h \in held[p], ReleaseHandle(p, h)
      PROVE  TypeOK'
  <2>1. Release(h) \in UpFrame /\ SendFrame(p, Release(h))
    BY <1>3, PageFrames DEF ReleaseHandle
  <2>2. LinksTypeOK' /\ queue' \in [Tab -> Seq(UpFrame)]
    BY <1>1, <1>3, <2>1 DEF ReleaseHandle
  <2>3. ServerTypeOK'
    BY <1>3, BridgeKept DEF ReleaseHandle, history
  <2>4. held' \in [Tab -> SUBSET HandleType]
    BY <1>3 DEF ReleaseHandle, TabsTypeOK
  <2>5. UNCHANGED <<boot, gen, reloading, socket, nextId, pending, called, epoch>>
    BY <1>3 DEF ReleaseHandle, serverVars
  <2>6. TabsTypeOK'
    BY <2>2, <2>4, <2>5 DEF TabsTypeOK
  <2>7. QED  BY <2>2, <2>3, <2>6 DEF TypeOK
<1>4. ASSUME NEW x \in called[p], AnswerCallback(p, x)
      PROVE  TypeOK'
  <2>1. CbRes(x) \in UpFrame /\ SendFrame(p, CbRes(x))
    BY <1>4, PageFrames DEF AnswerCallback
  <2>2. LinksTypeOK' /\ queue' \in [Tab -> Seq(UpFrame)]
    BY <1>1, <1>4, <2>1 DEF AnswerCallback
  <2>3. ServerTypeOK'
    BY <1>4, BridgeKept DEF AnswerCallback, history
  <2>4. called' \in [Tab -> SUBSET CbReqType]
    BY <1>4 DEF AnswerCallback, TabsTypeOK
  <2>5. UNCHANGED <<boot, gen, reloading, socket, nextId, pending, held, epoch>>
    BY <1>4 DEF AnswerCallback, serverVars
  <2>6. TabsTypeOK'
    BY <2>2, <2>4, <2>5 DEF TabsTypeOK
  <2>7. QED  BY <2>2, <2>3, <2>6 DEF TypeOK
<1>5. ASSUME SyncMint(p)
      PROVE  TypeOK'
  <2>1. held' \in [Tab -> SUBSET HandleType]
    BY <1>5, ServerFrames DEF SyncMint, TabsTypeOK
  <2>2. TabsTypeOK'
    BY <1>5, <2>1 DEF SyncMint, TabsTypeOK
  <2>3. ServerTypeOK'
    <3>1. nextHandle' \in Nat \ {0} /\ registry' \subseteq 1 .. nextHandle' - 1
      BY <1>5, StoreTypes DEF SyncMint
    <3>2. UNCHANGED <<epoch, running, nextCb, tasks, waitingCb, received, drops>>
      BY <1>5 DEF SyncMint
    <3>3. running
      BY <1>5 DEF SyncMint
    <3>4. QED  BY <3>1, <3>2, <3>3 DEF ServerTypeOK
  <2>4. LinksTypeOK'
    BY <1>5, BridgeKept DEF SyncMint
  <2>5. QED  BY <2>2, <2>3, <2>4 DEF TypeOK
<1>6. QED  BY <1>2, <1>3, <1>4, <1>5 DEF Page

\* A broken or closed link still has a state of its own.
LEMMA DownType ==
  ASSUME LinksTypeOK, NEW C
  PROVE  Down(C) \in [Link -> {"free", "opening", "up", "refused", "broken"}]
BY DEF Down, LinksTypeOK

\* What happens to a page: its socket and what the server sends it.
LEMMA PageEventTypes ==
  ASSUME TypeOK, NEW p \in Tab,
         Opened(p) \/ Closed(p) \/ OnFrame(p) \/ Reload(p) \/ Boot(p) \/ \E c \in Link : Connect(p, c)
  PROVE  TypeOK'
<1> TabsTypeOK /\ LinksTypeOK /\ ServerTypeOK
  BY DEF TypeOK
<1>1. socket[p] # NoLink => socket[p] \in Link
  BY DEF TabsTypeOK
<1>2. <<>> \in Seq(UpFrame) /\ <<>> \in Seq(DownFrame)
  OBVIOUS
<1>3. ASSUME NEW c \in Link, Connect(p, c) PROVE TypeOK'
  <2>1. TabsTypeOK'
    BY <1>3 DEF Connect, serverVars, TabsTypeOK
  <2>2. ServerTypeOK'
    BY <1>3, BridgeKept DEF Connect, history
  <2>3. toTab' \in [Link -> Seq(DownFrame)]
    <3>1. <<Hello>> \in Seq(DownFrame)
      BY ServerFrames
    <3>2. QED  BY ZenonT(60), <1>3, <3>1 DEF Connect, LinksTypeOK
  <2>4. LinksTypeOK'
    <3>1. owner' \in [Link -> Tab \cup {<<>>}]
      BY <1>3 DEF Connect, LinksTypeOK
    <3>2. link' \in [Link -> {"free", "opening", "up", "refused", "broken"}]
      BY ZenonT(60), <1>3 DEF Connect, LinksTypeOK
    <3>3. session' \in [Link -> BOOLEAN] /\ UNCHANGED toServer
      <4>1. session' = [session EXCEPT ![c] = TRUE] \/ UNCHANGED session
        BY <1>3 DEF Connect
      <4>2. UNCHANGED toServer
        BY <1>3 DEF Connect
      <4>3. QED  BY <4>1, <4>2 DEF LinksTypeOK
    <3>4. QED  BY <2>3, <3>1, <3>2, <3>3 DEF LinksTypeOK
  <2>5. QED  BY <2>1, <2>2, <2>4 DEF TypeOK
<1>4. ASSUME Opened(p) PROVE TypeOK'
  <2>1. queue[p] \in Seq(UpFrame) /\ toServer[socket[p]] \in Seq(UpFrame) /\ socket[p] \in Link
    BY <1>1, <1>4 DEF Opened, TabsTypeOK, LinksTypeOK
  <2>2. toServer[socket[p]] \o queue[p] \in Seq(UpFrame)
    BY <2>1, JoinFrames
  <2>3. toServer' \in [Link -> Seq(UpFrame)]
    BY <1>4, <2>1, <2>2 DEF Opened, Flush, LinksTypeOK
  <2>4. LinksTypeOK'
    BY <1>4, <2>3 DEF Opened, LinksTypeOK
  <2>5. TabsTypeOK'
    BY <1>4, <1>2 DEF Opened, Flush, serverVars, TabsTypeOK
  <2>6. ServerTypeOK'
    BY <1>4, BridgeKept DEF Opened, history
  <2>7. QED  BY <2>4, <2>5, <2>6 DEF TypeOK
<1>5. ASSUME Closed(p) PROVE TypeOK'
  <2>1. LinksTypeOK'
    BY <1>2, <1>5 DEF Closed, LinksTypeOK
  <2>2. TabsTypeOK'
    BY <1>5 DEF Closed, RejectAll, serverVars, TabsTypeOK
  <2>3. ServerTypeOK'
    BY <1>5, BridgeKept DEF Closed, history
  <2>4. QED  BY <2>1, <2>2, <2>3 DEF TypeOK
<1>6. ASSUME OnFrame(p) PROVE TypeOK'
  <2>1. socket[p] \in Link /\ toTab[socket[p]] \in Seq(DownFrame) /\ toTab[socket[p]] # <<>>
    BY <1>1, <1>6 DEF OnFrame, LinksTypeOK
  <2>2. Head(toTab[socket[p]]) \in DownFrame /\ Tail(toTab[socket[p]]) \in Seq(DownFrame)
    BY <2>1, DropFrame
  <2>3. PICK f \in DownFrame : OnResponse(p, f) \/ OnHello(p, f) \/ OnCallbackRequest(p, f)
    BY <1>6, <2>2 DEF OnFrame
  <2>4. f.t = "res" \/ f.t = "cbreq" => Handle(f) \subseteq HandleType
    BY DownFrameKinds DEF Handle
  <2>5. held' \in [Tab -> SUBSET HandleType]
    BY <2>3, <2>4 DEF OnResponse, OnHello, OnCallbackRequest, TabsTypeOK
  <2>6. called' \in [Tab -> SUBSET CbReqType]
    <3>1. CASE OnCallbackRequest(p, f)
      <4>1. f \in CbReqType
        BY <3>1, DownFrameKinds DEF OnCallbackRequest
      <4>2. QED  BY <3>1, <4>1 DEF OnCallbackRequest, TabsTypeOK
    <3>2. CASE OnResponse(p, f) \/ OnHello(p, f)
      BY <3>2 DEF OnResponse, OnHello, TabsTypeOK
    <3>3. QED  BY <2>3, <3>1, <3>2
  <2>7. pending' \in [Tab -> SUBSET (1 .. MaxRequests)]
    <3>1. CASE OnResponse(p, f)
      BY <3>1 DEF OnResponse, TabsTypeOK
    <3>2. CASE OnHello(p, f) \/ OnCallbackRequest(p, f)
      BY <3>2 DEF OnHello, OnCallbackRequest, TabsTypeOK
    <3>3. QED  BY <2>3, <3>1, <3>2
  <2>8. reloading' \in [Tab -> BOOLEAN]
    BY <2>3 DEF OnResponse, OnHello, OnCallbackRequest, TabsTypeOK
  <2>9. UNCHANGED <<boot, gen, socket, nextId, queue, epoch>>
    BY <1>6 DEF OnFrame, serverVars
  <2>10. TabsTypeOK'
    BY <2>5, <2>6, <2>7, <2>8, <2>9 DEF TabsTypeOK
  <2>11. LinksTypeOK'
    BY <1>6, <2>1, <2>2 DEF OnFrame, LinksTypeOK
  <2>12. ServerTypeOK'
    BY <1>6, BridgeKept DEF OnFrame, history
  <2>13. QED  BY <2>10, <2>11, <2>12 DEF TypeOK
<1>7. ASSUME Reload(p) PROVE TypeOK'
  <2>1. toServer \in [Link -> Seq(UpFrame)] /\ toTab \in [Link -> Seq(DownFrame)]
    BY DEF LinksTypeOK
  <2>2. toServer' \in [Link -> Seq(UpFrame)]
    <3>1. PICK n \in 0 .. Longest : toServer' = Cut(toServer, {socket[p]}, n)
      BY <1>7 DEF Reload
    <3>2. QED  BY <2>1, <3>1, CutFacts
  <2>3. toTab' \in [Link -> Seq(DownFrame)]
    BY ZenonT(60), <1>7, <2>1, CutAll DEF Reload
  <2>4. LinksTypeOK'
    BY <1>7, <2>2, <2>3, DownType DEF Reload, LinksTypeOK
  <2>5. boot' \in [Tab -> 0 .. epoch]
    BY <1>7 DEF Reload, TabsTypeOK, ServerTypeOK
  <2>6. gen' \in [Tab -> Nat \ {0}]
    BY <1>7 DEF Reload, TabsTypeOK
  <2>7. nextId' \in [Tab -> 1 .. MaxRequests + 1]
    BY <1>7, BridgeBounds DEF Reload, TabsTypeOK
  <2>8. /\ reloading' \in [Tab -> BOOLEAN]
        /\ socket' \in [Tab -> Link \cup {NoLink}]
        /\ pending' \in [Tab -> SUBSET (1 .. MaxRequests)]
        /\ queue' \in [Tab -> Seq(UpFrame)]
        /\ held' \in [Tab -> SUBSET HandleType]
        /\ called' \in [Tab -> SUBSET CbReqType]
    BY <1>2, <1>7 DEF Reload, TabsTypeOK
  <2>9. UNCHANGED epoch
    BY <1>7 DEF Reload, serverVars
  <2>10. TabsTypeOK'
    BY <2>5, <2>6, <2>7, <2>8, <2>9 DEF TabsTypeOK
  <2>11. ServerTypeOK'
    BY <1>7, BridgeKept DEF Reload, history
  <2>12. QED  BY <2>4, <2>10, <2>11 DEF TypeOK
<1>8. ASSUME Boot(p) PROVE TypeOK'
  <2>1. boot' \in [Tab -> 0 .. epoch]
    BY <1>8 DEF Boot, TabsTypeOK, ServerTypeOK
  <2>2. TabsTypeOK'
    BY <1>8, <2>1 DEF Boot, serverVars, TabsTypeOK
  <2>3. LinksTypeOK' /\ ServerTypeOK'
    BY <1>8, BridgeKept DEF Boot, history
  <2>4. QED  BY <2>2, <2>3 DEF TypeOK
<1>9. QED  BY <1>3, <1>4, <1>5, <1>6, <1>7, <1>8

\* What the server does with its messages and its calls.
LEMMA ServerTypes ==
  ASSUME TypeOK,
         \/ \E c \in Link : OnMessage(c) \/ SessionClosed(c)
         \/ \E x \in tasks : Finish(x) \/ \E withHandle \in BOOLEAN : CallBack(x, withHandle)
  PROVE  TypeOK'
<1> TabsTypeOK /\ LinksTypeOK /\ ServerTypeOK
  BY DEF TypeOK
<1>1. ASSUME NEW entries \in SUBSET waitingCb, Settle(entries)
      PROVE  /\ waitingCb' \subseteq waitingCb
             /\ tasks' \subseteq [link : Link, req : RequestType, waits : BOOLEAN]
  BY ZenonT(60), <1>1 DEF Settle, ServerTypeOK
<1>2. ASSUME NEW c \in Link, OnMessage(c) PROVE TypeOK'
  <2>1. /\ toServer[c] \in Seq(UpFrame) /\ toServer[c] # <<>> /\ running
        /\ toServer' = [toServer EXCEPT ![c] = Tail(toServer[c])]
        /\ UNCHANGED <<tabVars, link, owner, session, epoch, running, nextHandle, nextCb, drops>>
    BY <1>2 DEF OnMessage, LinksTypeOK
  <2>2. Head(toServer[c]) \in UpFrame /\ Tail(toServer[c]) \in Seq(UpFrame)
    BY <2>1, DropFrame
  <2>3. PICK f \in UpFrame : OnRequest(c, f) \/ OnRelease(c, f) \/ OnCallbackAnswer(c, f)
    BY <1>2, <2>2 DEF OnMessage
  <2>4. TabsTypeOK'
    BY <2>1, BridgeKept
  <2>5. toServer' \in [Link -> Seq(UpFrame)]
    BY <2>1, <2>2 DEF LinksTypeOK
  <2>6. CASE OnRequest(c, f)
    <3>1. f \in RequestType /\ Res(f, NoHandle) \in DownFrame
      BY <2>6, UpFrameKinds, ServerFrames DEF OnRequest
    <3>2. toTab' \in [Link -> Seq(DownFrame)]
      BY <2>6, <3>1, ReplyType DEF OnRequest, LinksTypeOK
    <3>3. tasks' \subseteq [link : Link, req : RequestType, waits : BOOLEAN]
      <4>1. [link |-> c, req |-> f, waits |-> FALSE] \in [link : Link, req : RequestType, waits : BOOLEAN]
        BY <3>1
      <4>2. tasks' \subseteq tasks \cup {[link |-> c, req |-> f, waits |-> FALSE]}
        BY <2>6 DEF OnRequest
      <4>3. QED  BY <4>1, <4>2 DEF ServerTypeOK
    <3>4. received' \subseteq [tab : Tab, gen : Nat \ {0}, id : 1 .. MaxRequests]
      BY <2>6, <3>1 DEF OnRequest, ServerTypeOK, RequestType
    <3>5. UNCHANGED <<registry, waitingCb>>
      BY <2>6 DEF OnRequest
    <3>6. LinksTypeOK'
      BY <2>1, <2>5, <3>2 DEF LinksTypeOK
    <3>7. ServerTypeOK'
      BY <2>1, <3>3, <3>4, <3>5 DEF ServerTypeOK
    <3>8. QED  BY <2>4, <3>6, <3>7 DEF TypeOK
  <2>7. CASE OnRelease(c, f)
    <3>1. LinksTypeOK'
      BY <2>1, <2>5, <2>7 DEF OnRelease, LinksTypeOK
    <3>2. ServerTypeOK'
      BY <2>1, <2>7 DEF OnRelease, history, ServerTypeOK
    <3>3. QED  BY <2>4, <3>1, <3>2 DEF TypeOK
  <2>8. CASE OnCallbackAnswer(c, f)
    <3>1. LinksTypeOK'
      BY <2>1, <2>5, <2>8 DEF OnCallbackAnswer, LinksTypeOK
    <3>2. waitingCb' \subseteq waitingCb /\ tasks' \subseteq [link : Link, req : RequestType, waits : BOOLEAN]
      BY <1>1, <2>8 DEF OnCallbackAnswer
    <3>3. UNCHANGED <<registry, received>>
      BY <2>8 DEF OnCallbackAnswer
    <3>4. ServerTypeOK'
      BY <2>1, <3>2, <3>3 DEF ServerTypeOK
    <3>5. QED  BY <2>4, <3>1, <3>4 DEF TypeOK
  <2>9. QED  BY <2>3, <2>6, <2>7, <2>8
<1>3. ASSUME NEW c \in Link, SessionClosed(c) PROVE TypeOK'
  <2>1. waitingCb' \subseteq waitingCb /\ tasks' \subseteq [link : Link, req : RequestType, waits : BOOLEAN]
    BY <1>1, <1>3 DEF SessionClosed, RejectCallbacks
  <2>2. UNCHANGED <<tabVars, link, owner, toServer, toTab, epoch, running, registry,
                    nextHandle, nextCb, history, drops>>
    BY <1>3 DEF SessionClosed
  <2>3. TabsTypeOK'
    BY <2>2, BridgeKept
  <2>4. LinksTypeOK'
    BY <1>3, <2>2 DEF SessionClosed, LinksTypeOK
  <2>5. ServerTypeOK'
    <3>1. running
      BY <1>3 DEF SessionClosed
    <3>2. QED  BY <2>1, <2>2, <3>1 DEF ServerTypeOK, history
  <2>6. QED  BY <2>3, <2>4, <2>5 DEF TypeOK
<1>4. ASSUME NEW x \in tasks, Finish(x) PROVE TypeOK'
  <2>1. x.link \in Link /\ x.req \in RequestType
    BY DEF ServerTypeOK
  <2>2. UNCHANGED <<tabVars, link, owner, session, toServer, epoch, running, nextCb, waitingCb, history, drops>>
    BY <1>4 DEF Finish
  <2>3. /\ nextHandle' \in Nat \ {0} /\ registry' \subseteq 1 .. nextHandle' - 1
        /\ \E h \in HandleType \cup {NoHandle} : Reply(x.link, Res(x.req, h))
    <3>1. CASE x.req.op = "mint"
      BY <1>4, <3>1, StoreTypes, ServerFrames DEF Finish
    <3>2. CASE x.req.op # "mint"
      BY <1>4, <3>2 DEF Finish, ServerTypeOK
    <3>3. QED  BY <3>1, <3>2
  <2>4. toTab' \in [Link -> Seq(DownFrame)]
    BY <2>1, <2>3, ReplyType, ServerFrames
  <2>5. LinksTypeOK'
    BY <2>2, <2>4 DEF LinksTypeOK
  <2>6. TabsTypeOK'
    BY <2>2, BridgeKept
  <2>7. tasks' \subseteq tasks
    BY <1>4 DEF Finish
  <2>8. ServerTypeOK'
    <3>1. running
      BY DEF ServerTypeOK
    <3>2. QED  BY <2>2, <2>3, <2>7, <3>1 DEF ServerTypeOK, history
  <2>9. QED  BY <2>5, <2>6, <2>8 DEF TypeOK
<1>5. ASSUME NEW x \in tasks, NEW withHandle \in BOOLEAN, CallBack(x, withHandle) PROVE TypeOK'
  <2>1. x \in [link : Link, req : RequestType, waits : BOOLEAN]
    BY DEF ServerTypeOK
  <2>2. UNCHANGED <<tabVars, link, owner, session, toServer, epoch, running, history, drops>>
    BY <1>5 DEF CallBack
  <2>3. nextHandle' \in Nat \ {0} /\ registry' \subseteq 1 .. nextHandle' - 1
    <3>1. CASE withHandle
      BY <1>5, <3>1, StoreTypes DEF CallBack
    <3>2. CASE ~withHandle
      BY <1>5, <3>2 DEF CallBack, ServerTypeOK
    <3>3. QED  BY <3>1, <3>2
  <2>4. nextCb \in 1 .. MaxCallbacks /\ nextCb' \in 1 .. MaxCallbacks + 1
    <3>1. nextCb \in 1 .. MaxCallbacks
      BY <1>5, BridgeBounds DEF CallBack, ServerTypeOK
    <3>2. nextCb' = nextCb + 1
      BY <1>5 DEF CallBack
    <3>3. QED  BY <3>1, <3>2, BridgeBounds
  <2>5. \E h \in HandleType \cup {NoHandle} : Reply(x.link, CbReq(nextCb, h, x.req))
    BY <1>5, ServerFrames DEF CallBack, CallbackId
  <2>6. toTab' \in [Link -> Seq(DownFrame)]
    BY <2>1, <2>4, <2>5, ReplyType, ServerFrames
  <2>7. waitingCb' \subseteq [link : Link, id : 1 .. MaxCallbacks, req : RequestType, inTime : BOOLEAN]
    BY <1>5, <2>1, <2>4 DEF CallBack, CallbackId, ServerTypeOK, LinksTypeOK
  <2>8. tasks' \subseteq [link : Link, req : RequestType, waits : BOOLEAN]
    BY <1>5, <2>1 DEF CallBack, ServerTypeOK
  <2>9. LinksTypeOK' /\ TabsTypeOK'
    BY <2>2, <2>6, BridgeKept DEF LinksTypeOK
  <2>10. ServerTypeOK'
    <3>1. running
      BY DEF ServerTypeOK
    <3>2. QED  BY <2>2, <2>3, <2>4, <2>7, <2>8, <3>1 DEF ServerTypeOK, history
  <2>11. QED  BY <2>9, <2>10 DEF TypeOK
<1>6. QED  BY <1>2, <1>3, <1>4, <1>5

\* Links that break, and processes that end and start.
LEMMA WorldTypes ==
  ASSUME TypeOK, Stop \/ Start \/ \E c \in Link : Drop(c) \/ Recycle(c)
  PROVE  TypeOK'
<1> TabsTypeOK /\ LinksTypeOK /\ ServerTypeOK
  BY DEF TypeOK
<1>1. toServer \in [Link -> Seq(UpFrame)] /\ toTab \in [Link -> Seq(DownFrame)]
  BY DEF LinksTypeOK
<1>2. ASSUME NEW c \in Link, Drop(c) PROVE TypeOK'
  <2>1. PICK n \in 0 .. Longest : toServer' = Cut(toServer, {c}, n) /\ toTab' = Cut(toTab, {c}, n)
    BY <1>2 DEF Drop
  <2>2. toServer' \in [Link -> Seq(UpFrame)] /\ toTab' \in [Link -> Seq(DownFrame)]
    BY <1>1, <2>1, CutFacts
  <2>3. LinksTypeOK'
    BY <1>2, <2>2, DownType DEF Drop, LinksTypeOK
  <2>4. TabsTypeOK'
    BY <1>2, BridgeKept DEF Drop, serverVars
  <2>5. drops' \in 0 .. MaxDrops
    BY <1>2, BridgeBounds DEF Drop, ServerTypeOK
  <2>6. ServerTypeOK'
    BY <1>2, <2>5 DEF Drop, serverVars, history, ServerTypeOK
  <2>7. QED  BY <2>3, <2>4, <2>6 DEF TypeOK
<1>3. ASSUME NEW c \in Link, Recycle(c) PROVE TypeOK'
  <2>1. LinksTypeOK'
    BY <1>3 DEF Recycle, LinksTypeOK
  <2>2. TabsTypeOK' /\ ServerTypeOK'
    BY <1>3, BridgeKept DEF Recycle, history, serverVars
  <2>3. QED  BY <2>1, <2>2 DEF TypeOK
<1>4. ASSUME Stop PROVE TypeOK'
  <2>1. PICK n \in 0 .. Longest : toTab' = Cut(toTab, Link, n)
    BY <1>4 DEF Stop
  <2>2. toServer' \in [Link -> Seq(UpFrame)]
    BY <1>1, <1>4, CutAll DEF Stop
  <2>3. toTab' \in [Link -> Seq(DownFrame)]
    BY <1>1, <2>1, CutFacts
  <2>4. LinksTypeOK'
    BY <1>4, <2>2, <2>3, DownType DEF Stop, LinksTypeOK
  <2>5. TabsTypeOK'
    BY <1>4, BridgeKept DEF Stop
  <2>6. ServerTypeOK'
    <3>1. registry' = {} /\ tasks' = {} /\ waitingCb' = {} /\ running' = FALSE /\ epoch <= MaxRestarts
      BY <1>4 DEF Stop
    <3>2. UNCHANGED <<epoch, nextHandle, nextCb, received, drops>>
      BY <1>4 DEF Stop, history
    <3>3. QED  BY <3>1, <3>2 DEF ServerTypeOK
  <2>7. QED  BY <2>4, <2>5, <2>6 DEF TypeOK
<1>5. ASSUME Start PROVE TypeOK'
  <2>1. LinksTypeOK'
    BY <1>5, BridgeKept DEF Start
  <2>2. epoch \in Nat /\ epoch' = epoch + 1 /\ epoch' \in 1 .. MaxRestarts + 1
    <3>1. epoch \in 1 .. MaxRestarts + 1 /\ epoch <= MaxRestarts /\ epoch' = epoch + 1
      BY <1>5 DEF Start, ServerTypeOK
    <3>2. QED  BY <3>1, BridgeBounds
  <2>3. boot' \in [Tab -> 0 .. epoch']
    <3>1. \A i \in 0 .. epoch : i \in 0 .. epoch'
      BY <2>2
    <3>2. QED  BY <1>5, <3>1 DEF Start, tabVars, TabsTypeOK
  <2>4. TabsTypeOK'
    BY <1>5, <2>3 DEF Start, tabVars, TabsTypeOK
  <2>5. nextHandle' = 1 /\ nextCb' = 1 /\ registry = {}
    BY <1>5 DEF Start, ServerTypeOK
  <2>6. ServerTypeOK'
    BY <1>5, <2>2, <2>5, BridgeBounds DEF Start, history, ServerTypeOK
  <2>7. QED  BY <2>1, <2>4, <2>6 DEF TypeOK
<1>6. QED  BY <1>2, <1>3, <1>4, <1>5

\* Every step keeps the variables in their types.
LEMMA BridgeTypeStep ==
  ASSUME TypeOK, [Next]_vars
  PROVE  TypeOK'
<1>1. ASSUME Next PROVE TypeOK'
  BY <1>1, PageTypes, PageEventTypes, ServerTypes, WorldTypes
     DEF Next, PageEvent, ServerEvent, NativeStep
<1>2. ASSUME UNCHANGED vars PROVE TypeOK'
  BY <1>2, BridgeKept DEF vars, tabVars, serverVars, history, TypeOK
<1>3. QED  BY <1>1, <1>2

\* The variables start in their types.
LEMMA BridgeTypeInit == Init => TypeOK
<1> SUFFICES ASSUME Init PROVE TypeOK
  OBVIOUS
<1>1. <<>> \in Seq(UpFrame) /\ <<>> \in Seq(DownFrame)
  OBVIOUS
<1>2. TabsTypeOK
  BY <1>1, BridgeBounds DEF Init, TabsTypeOK
<1>3. LinksTypeOK
  BY <1>1 DEF Init, LinksTypeOK
<1>4. ServerTypeOK
  BY BridgeBounds DEF Init, ServerTypeOK
<1>5. QED  BY <1>2, <1>3, <1>4 DEF TypeOK

\* Every variable of the bridge has its type, in every tab, link and process, and a page
\* holds handles only (client.web.ts, index.node.ts and native.node.ts).
THEOREM BridgeTypeCorrect == Spec => []TypeOK
<1>1. TypeOK /\ [Next]_vars => TypeOK'
  BY BridgeTypeStep
<1>2. QED  BY <1>1, BridgeTypeInit, PTL DEF Spec

-----------------------------------------------------------------------------
(* No request is executed twice. *)

Source == Tab \cup Link

Box(s) == IF s \in Tab THEN queue[s] ELSE toServer[s]

IsReq(s, i) == s[i].t = "req"

\* The requests in a sequence of frames, and that none is in it twice.
Names(s) == {Name(s[i]) : i \in {j \in 1 .. Len(s) : IsReq(s, j)}}

NoRepeat(s) ==
  \A i, j \in 1 .. Len(s) : IsReq(s, i) /\ IsReq(s, j) /\ Name(s[i]) = Name(s[j]) => i = j

NameType == [tab : Tab, gen : Nat \ {0}, id : 1 .. MaxRequests]

\* The page has used this number, or is gone.
Used(r) == r.gen < gen[r.tab] \/ (r.gen = gen[r.tab] /\ r.id < nextId[r.tab])

Apart ==
  /\ \A s \in Source : NoRepeat(Box(s)) /\ Names(Box(s)) \cap received = {}
  /\ \A s, u \in Source : s # u => Names(Box(s)) \cap Names(Box(u)) = {}

AllUsed ==
  /\ \A s \in Source : \A r \in Names(Box(s)) : Used(r)
  /\ \A r \in received : Used(r)

OnceInv == Apart /\ AllUsed

\* The names of typed frames are names of requests.
LEMMA NamesTyped ==
  ASSUME NEW s \in Seq(UpFrame)
  PROVE  Names(s) \subseteq NameType
<1>1. ASSUME NEW i \in 1 .. Len(s), IsReq(s, i) PROVE Name(s[i]) \in NameType
  <2>1. s[i] \in RequestType
    BY <1>1, UpFrameKinds DEF IsReq
  <2>2. QED  BY <2>1 DEF RequestType, Name, NameType
<1>2. QED  BY <1>1 DEF Names

\* No frames, no names.
LEMMA NamesNone == Names(<<>>) = {} /\ NoRepeat(<<>>)
BY DEF Names, NoRepeat

\* One more frame names at most its own request, and no repeat comes from a new name.
LEMMA NamesAdd ==
  ASSUME NEW s \in Seq(UpFrame), NEW f \in UpFrame
  PROVE  /\ f.t # "req" => Names(Append(s, f)) \subseteq Names(s)
         /\ f.t = "req" => Names(Append(s, f)) \subseteq Names(s) \cup {Name(f)}
         /\ NoRepeat(s) /\ (f.t = "req" => Name(f) \notin Names(s)) => NoRepeat(Append(s, f))
<1> DEFINE u == Append(s, f)
<1>1. /\ Len(s) \in Nat /\ Len(u) = Len(s) + 1 /\ u[Len(s) + 1] = f
      /\ \A i \in 1 .. Len(s) : u[i] = s[i]
  BY AddFrame
<1>2. \A i \in 1 .. Len(u) : i \in 1 .. Len(s) \/ i = Len(s) + 1
  BY <1>1
<1> HIDE DEF u
<1>3. ASSUME NEW i \in 1 .. Len(u), IsReq(u, i)
      PROVE  \/ i \in 1 .. Len(s) /\ Name(u[i]) \in Names(s)
             \/ i = Len(s) + 1 /\ f.t = "req" /\ Name(u[i]) = Name(f)
  BY <1>1, <1>2, <1>3 DEF Names, IsReq
<1>4. f.t # "req" => Names(u) \subseteq Names(s)
  BY <1>3 DEF Names
<1>5. f.t = "req" => Names(u) \subseteq Names(s) \cup {Name(f)}
  BY <1>3 DEF Names
<1>6. ASSUME NoRepeat(s), f.t = "req" => Name(f) \notin Names(s),
             NEW i \in 1 .. Len(u), NEW j \in 1 .. Len(u),
             IsReq(u, i), IsReq(u, j), Name(u[i]) = Name(u[j])
      PROVE  i = j
  <2>1. CASE i \in 1 .. Len(s) /\ j \in 1 .. Len(s)
    BY <1>1, <1>6, <2>1 DEF NoRepeat, IsReq
  <2>2. CASE i = Len(s) + 1 /\ j = Len(s) + 1
    BY <2>2
  <2>3. CASE i = Len(s) + 1 /\ j \in 1 .. Len(s)
    <3>1. f.t = "req" /\ Name(u[i]) = Name(f) /\ Name(u[j]) \in Names(s)
      BY <1>1, <1>6, <2>3 DEF Names, IsReq
    <3>2. QED  BY <1>6, <3>1
  <2>4. CASE j = Len(s) + 1 /\ i \in 1 .. Len(s)
    <3>1. f.t = "req" /\ Name(u[j]) = Name(f) /\ Name(u[i]) \in Names(s)
      BY <1>1, <1>6, <2>4 DEF Names, IsReq
    <3>2. QED  BY <1>6, <3>1
  <2>5. QED  BY <1>2, <2>1, <2>2, <2>3, <2>4
<1>7. NoRepeat(s) /\ (f.t = "req" => Name(f) \notin Names(s)) => NoRepeat(u)
  BY <1>6 DEF NoRepeat
<1>8. QED  BY <1>4, <1>5, <1>7 DEF u

\* Two queues without a common request have no repeat together.
LEMMA NamesJoin ==
  ASSUME NEW s \in Seq(UpFrame), NEW u \in Seq(UpFrame)
  PROVE  /\ Names(s \o u) \subseteq Names(s) \cup Names(u)
         /\ NoRepeat(s) /\ NoRepeat(u) /\ Names(s) \cap Names(u) = {} => NoRepeat(s \o u)
<1> DEFINE v == s \o u
<1>1. /\ Len(s) \in Nat /\ Len(u) \in Nat /\ Len(v) = Len(s) + Len(u)
      /\ \A i \in 1 .. Len(s) : v[i] = s[i]
      /\ \A i \in 1 .. Len(u) : v[Len(s) + i] = u[i]
  BY JoinFrames
<1> HIDE DEF v
<1>2. ASSUME NEW i \in 1 .. Len(v)
      PROVE  \/ i \in 1 .. Len(s) /\ v[i] = s[i]
             \/ \E k \in 1 .. Len(u) : i = Len(s) + k /\ v[i] = u[k]
  <2>1. CASE i <= Len(s)
    BY <1>1, <2>1
  <2>2. CASE i > Len(s)
    <3>1. i - Len(s) \in 1 .. Len(u) /\ i = Len(s) + (i - Len(s))
      BY <1>1, <2>2
    <3>2. v[Len(s) + (i - Len(s))] = u[i - Len(s)]
      BY <1>1, <3>1
    <3>3. QED  BY <3>1, <3>2
  <2>3. QED  BY <1>1, <2>1, <2>2
<1>3. Names(v) \subseteq Names(s) \cup Names(u)
  <2>1. ASSUME NEW i \in 1 .. Len(v), IsReq(v, i) PROVE Name(v[i]) \in Names(s) \cup Names(u)
    <3>1. CASE i \in 1 .. Len(s) /\ v[i] = s[i]
      BY <2>1, <3>1 DEF Names, IsReq
    <3>2. CASE \E k \in 1 .. Len(u) : i = Len(s) + k /\ v[i] = u[k]
      BY <2>1, <3>2 DEF Names, IsReq
    <3>3. QED  BY <1>2, <3>1, <3>2
  <2>2. QED  BY <2>1 DEF Names
<1>4. ASSUME NoRepeat(s), NoRepeat(u), Names(s) \cap Names(u) = {},
             NEW i \in 1 .. Len(v), NEW j \in 1 .. Len(v),
             IsReq(v, i), IsReq(v, j), Name(v[i]) = Name(v[j])
      PROVE  i = j
  <2>1. ASSUME NEW x \in 1 .. Len(v), IsReq(v, x)
        PROVE  \/ x \in 1 .. Len(s) /\ v[x] = s[x] /\ IsReq(s, x) /\ Name(v[x]) \in Names(s)
               \/ \E k \in 1 .. Len(u) : x = Len(s) + k /\ v[x] = u[k] /\ IsReq(u, k) /\ Name(v[x]) \in Names(u)
    BY <1>2, <2>1 DEF Names, IsReq
  <2>2. CASE /\ i \in 1 .. Len(s) /\ v[i] = s[i] /\ IsReq(s, i) /\ Name(v[i]) \in Names(s)
             /\ j \in 1 .. Len(s) /\ v[j] = s[j] /\ IsReq(s, j)
    BY <1>4, <2>2 DEF NoRepeat
  <2>3. CASE /\ \E k \in 1 .. Len(u) : i = Len(s) + k /\ v[i] = u[k] /\ IsReq(u, k)
             /\ \E k \in 1 .. Len(u) : j = Len(s) + k /\ v[j] = u[k] /\ IsReq(u, k)
    <3>1. PICK k \in 1 .. Len(u) : i = Len(s) + k /\ v[i] = u[k] /\ IsReq(u, k)
      BY <2>3
    <3>2. PICK m \in 1 .. Len(u) : j = Len(s) + m /\ v[j] = u[m] /\ IsReq(u, m)
      BY <2>3
    <3>3. k = m
      BY <1>4, <3>1, <3>2 DEF NoRepeat
    <3>4. QED  BY <3>1, <3>2, <3>3
  <2>4. ~(Name(v[i]) \in Names(s) /\ Name(v[j]) \in Names(u))
        /\ ~(Name(v[i]) \in Names(u) /\ Name(v[j]) \in Names(s))
    BY <1>4
  <2>5. QED  BY <1>4, <2>1, <2>2, <2>3, <2>4
<1>5. NoRepeat(s) /\ NoRepeat(u) /\ Names(s) \cap Names(u) = {} => NoRepeat(v)
  BY <1>4 DEF NoRepeat
<1>6. QED  BY <1>3, <1>5 DEF v

\* The oldest request, once read, is not among the rest.
LEMMA NamesRest ==
  ASSUME NEW s \in Seq(UpFrame), s # <<>>
  PROVE  /\ Names(Tail(s)) \subseteq Names(s)
         /\ Head(s).t = "req" => Name(Head(s)) \in Names(s)
         /\ NoRepeat(s) => NoRepeat(Tail(s))
         /\ NoRepeat(s) /\ Head(s).t = "req" => Name(Head(s)) \notin Names(Tail(s))
<1> DEFINE u == Tail(s)
<1>1. /\ Len(s) \in Nat /\ Len(s) >= 1 /\ Len(u) = Len(s) - 1 /\ Head(s) = s[1]
      /\ \A i \in 1 .. Len(s) - 1 : u[i] = s[i + 1]
  BY DropFrame
<1> HIDE DEF u
<1>2. \A i \in 1 .. Len(u) : i + 1 \in 1 .. Len(s) /\ u[i] = s[i + 1] /\ i + 1 # 1
  BY <1>1
<1>3. 1 \in 1 .. Len(s)
  BY <1>1
<1>4. Names(u) \subseteq Names(s)
  BY <1>2 DEF Names, IsReq
<1>5. Head(s).t = "req" => Name(Head(s)) \in Names(s)
  BY <1>1, <1>3 DEF Names, IsReq
<1>6. NoRepeat(s) => NoRepeat(u)
  <2> SUFFICES ASSUME NoRepeat(s), NEW i \in 1 .. Len(u), NEW j \in 1 .. Len(u),
                      IsReq(u, i), IsReq(u, j), Name(u[i]) = Name(u[j])
               PROVE  i = j
    BY DEF NoRepeat
  <2>1. i + 1 = j + 1
    BY <1>2 DEF NoRepeat, IsReq
  <2>2. QED  BY <2>1
<1>7. NoRepeat(s) /\ Head(s).t = "req" => Name(Head(s)) \notin Names(u)
  <2> SUFFICES ASSUME NoRepeat(s), s[1].t = "req", NEW i \in 1 .. Len(u), IsReq(u, i), Name(s[1]) = Name(u[i])
               PROVE  FALSE
    BY <1>1 DEF Names
  <2>1. 1 = i + 1
    BY <1>2, <1>3 DEF NoRepeat, IsReq
  <2>2. QED  BY <1>2, <2>1
<1>8. QED  BY <1>4, <1>5, <1>6, <1>7 DEF u

\* The first frames of a queue name no more than the queue.
LEMMA NamesPart ==
  ASSUME NEW s \in Seq(UpFrame), NEW k \in 0 .. Len(s)
  PROVE  /\ Names(SubSeq(s, 1, k)) \subseteq Names(s)
         /\ NoRepeat(s) => NoRepeat(SubSeq(s, 1, k))
<1> DEFINE u == SubSeq(s, 1, k)
<1>1. Len(u) = k /\ \A i \in 1 .. k : u[i] = s[i] /\ i \in 1 .. Len(s)
  BY KeepFirst
<1> HIDE DEF u
<1>2. Names(u) \subseteq Names(s)
  BY <1>1 DEF Names, IsReq
<1>3. NoRepeat(s) => NoRepeat(u)
  BY <1>1 DEF NoRepeat, IsReq
<1>4. QED  BY <1>2, <1>3 DEF u

\* The box of a tab is its queue, that of a link what is in flight to the server.
LEMMA BoxTyped ==
  ASSUME TypeOK
  PROVE  /\ \A p \in Tab : Box(p) = queue[p]
         /\ \A c \in Link : Box(c) = toServer[c] /\ c \notin Tab
         /\ \A s \in Source : Box(s) \in Seq(UpFrame) /\ Names(Box(s)) \subseteq NameType
<1>1. \A c \in Link : c \notin Tab
  BY BridgeBounds
<1>2. \A s \in Source : Box(s) \in Seq(UpFrame)
  BY DEF Box, Source, TypeOK, TabsTypeOK, LinksTypeOK
<1>3. QED  BY <1>1, <1>2, NamesTyped DEF Box

\* Requests that are nowhere new stay apart.
LEMMA FewerStayApart ==
  ASSUME OnceInv, TypeOK,
         \A s \in Source : /\ Names(Box(s)') \subseteq Names(Box(s))
                           /\ NoRepeat(Box(s)) => NoRepeat(Box(s)'),
         received' = received,
         \A r \in NameType : Used(r) => Used(r)'
  PROVE  OnceInv'
<1>1. Apart'
  BY DEF OnceInv, Apart
<1>2. AllUsed'
  <2>1. \A s \in Source : Names(Box(s)) \subseteq NameType
    BY BoxTyped
  <2>2. received \subseteq NameType
    BY DEF TypeOK, ServerTypeOK, NameType
  <2>3. QED  BY <2>1, <2>2 DEF OnceInv, AllUsed
<1>3. QED  BY <1>1, <1>2 DEF OnceInv

\* A step that leaves the frames of the pages where they are.
LEMMA SameBoxes ==
  ASSUME OnceInv, TypeOK, UNCHANGED <<queue, toServer, received, gen, nextId>>
  PROVE  OnceInv'
BY DEF OnceInv, Apart, AllUsed, Used, Box

\* A frame that a page sends goes to one box, or is lost.
LEMMA SentToOneBox ==
  ASSUME TypeOK, NEW p \in Tab, NEW f \in UpFrame, SendFrame(p, f)
  PROVE  \E t \in Source :
           /\ t = p \/ (t \in Link /\ t = socket[p] /\ link[t] = "up")
           /\ Box(t)' \in {Box(t), Append(Box(t), f)}
           /\ \A s \in Source : s # t => Box(s)' = Box(s)
<1>1. /\ toServer \in [Link -> Seq(UpFrame)] /\ queue \in [Tab -> Seq(UpFrame)]
      /\ \A c \in Link : c \notin Tab
  BY BridgeBounds DEF TypeOK, TabsTypeOK, LinksTypeOK
<1>2. ASSUME NEW c \in Link, c = socket[p], link[c] = "up", queue' = queue,
             toServer' = [toServer EXCEPT ![c] = Append(toServer[c], f)]
      PROVE  \E t \in Source : /\ t = p \/ (t \in Link /\ t = socket[p] /\ link[t] = "up")
                               /\ Box(t)' \in {Box(t), Append(Box(t), f)}
                               /\ \A s \in Source : s # t => Box(s)' = Box(s)
  <2>1. Box(c)' = Append(Box(c), f)
    <3>1. toServer'[c] = Append(toServer[c], f)
      BY <1>1, <1>2
    <3>2. QED  BY <1>1, <3>1 DEF Box
  <2>2. ASSUME NEW s \in Source, s # c PROVE Box(s)' = Box(s)
    <3>1. CASE s \in Tab
      BY <1>2, <3>1 DEF Box
    <3>2. CASE s \in Link
      <4>1. toServer'[s] = toServer[s]
        BY <1>1, <1>2, <2>2, <3>2
      <4>2. QED  BY <1>1, <3>2, <4>1 DEF Box
    <3>3. QED  BY <3>1, <3>2 DEF Source
  <2>3. c \in Source
    BY DEF Source
  <2>4. QED  BY <1>2, <2>1, <2>2, <2>3
<1>3. CASE toServer' = toServer /\ queue' = [queue EXCEPT ![p] = Append(queue[p], f)]
  <2>1. Box(p)' = Append(Box(p), f)
    BY <1>1, <1>3 DEF Box
  <2>2. ASSUME NEW s \in Source, s # p PROVE Box(s)' = Box(s)
    <3>1. CASE s \in Tab
      <4>1. queue'[s] = queue[s]
        BY <1>1, <1>3, <2>2, <3>1
      <4>2. QED  BY <3>1, <4>1 DEF Box
    <3>2. CASE s \in Link
      BY <1>1, <1>3, <3>2 DEF Box
    <3>3. QED  BY <3>1, <3>2 DEF Source
  <2>3. p \in Source
    BY DEF Source
  <2>4. QED  BY <2>1, <2>2, <2>3
<1>4. CASE UNCHANGED <<toServer, queue>>
  <2>1. \A s \in Source : Box(s)' = Box(s)
    BY <1>4 DEF Box
  <2>2. p \in Source
    BY DEF Source
  <2>3. QED  BY <2>1, <2>2
<1>5. QED  BY <1>2, <1>3, <1>4, SendFrameFacts

\* A frame that is no request, put in a box or lost.
LEMMA OtherFrameSent ==
  ASSUME OnceInv, TypeOK, NEW p \in Tab, NEW f \in UpFrame, f.t # "req", SendFrame(p, f),
         UNCHANGED <<received, gen, nextId>>
  PROVE  OnceInv'
<1>1. ASSUME NEW s \in Source
      PROVE  Box(s)' = Box(s) \/ Box(s)' = Append(Box(s), f)
  BY SentToOneBox
<1>2. ASSUME NEW s \in Source
      PROVE  Names(Box(s)') \subseteq Names(Box(s)) /\ (NoRepeat(Box(s)) => NoRepeat(Box(s)'))
  BY <1>1, BoxTyped, NamesAdd
<1>3. \A r \in NameType : Used(r) => Used(r)'
  BY DEF Used
<1>4. QED  BY <1>2, <1>3, FewerStayApart

\* A request is numbered anew, so its name is nowhere.
LEMMA InvokeOnce ==
  ASSUME OnceInv, TypeOK, NEW p \in Tab, NEW op \in Ops \ {"sync"}, NEW h \in held[p] \cup {NoHandle},
         Invoke(p, op, h)
  PROVE  OnceInv'
<1>0. PICK f : f = Req(p, op, h)
  OBVIOUS
<1>1. f \in RequestType /\ f \in UpFrame /\ SendFrame(p, f)
  BY <1>0, PageFrames DEF Invoke
<1>2. /\ f.t = "req" /\ Name(f) = [tab |-> p, gen |-> gen[p], id |-> nextId[p]]
      /\ Name(f) \in NameType
  BY <1>0, <1>1 DEF Req, Name, RequestType, NameType
<1>3. /\ nextId[p] \in Nat /\ gen[p] \in Nat /\ nextId'[p] = nextId[p] + 1
      /\ \A q \in Tab : q # p => nextId'[q] = nextId[q]
      /\ UNCHANGED <<gen, received>>
  BY DEF Invoke, TypeOK, TabsTypeOK, history
<1>4. ~Used(Name(f)) /\ Used(Name(f))'
  <2>1. Name(f).tab = p /\ Name(f).gen = gen[p] /\ Name(f).id = nextId[p]
    BY <1>2
  <2>2. ~Used(Name(f))
    BY <1>3, <2>1 DEF Used
  <2>3. gen'[p] = gen[p] /\ nextId[p] < nextId'[p]
    BY <1>3
  <2>4. QED  BY <2>1, <2>2, <2>3 DEF Used
<1>5. \A r \in NameType : Used(r) => Used(r)'
  <2> SUFFICES ASSUME NEW r \in NameType, Used(r) PROVE Used(r)'
    OBVIOUS
  <2>1. r.tab \in Tab /\ r.gen \in Nat /\ r.id \in Nat
    BY DEF NameType
  <2>2. CASE r.tab = p
    BY <1>3, <2>1, <2>2 DEF Used
  <2>3. CASE r.tab # p
    BY <1>3, <2>1, <2>3 DEF Used
  <2>4. QED  BY <2>2, <2>3
<1>6. PICK t \in Source : /\ Box(t)' \in {Box(t), Append(Box(t), f)}
                         /\ \A s \in Source : s # t => Box(s)' = Box(s)
  BY <1>1, SentToOneBox
<1>7. \A s \in Source : Name(f) \notin Names(Box(s))
  BY <1>4 DEF OnceInv, AllUsed
<1>8. \A s \in Source : s # t => Names(Box(s)') = Names(Box(s)) /\ (NoRepeat(Box(s)) => NoRepeat(Box(s)'))
  BY <1>6
<1>9. Names(Box(t)') \subseteq Names(Box(t)) \cup {Name(f)} /\ (NoRepeat(Box(t)) => NoRepeat(Box(t)'))
  <2>1. CASE Box(t)' = Box(t)
    BY <2>1
  <2>2. CASE Box(t)' = Append(Box(t), f)
    <3>1. Box(t) \in Seq(UpFrame) /\ Name(f) \notin Names(Box(t))
      BY <1>7, BoxTyped
    <3>2. QED  BY <1>1, <1>2, <2>2, <3>1, NamesAdd
  <2>3. QED  BY <1>6, <2>1, <2>2
<1>10. Name(f) \notin received
  BY <1>4 DEF OnceInv, AllUsed
<1>11. Apart'
  <2>1. \A s \in Source : NoRepeat(Box(s)') /\ Names(Box(s)') \cap received' = {}
    BY <1>3, <1>8, <1>9, <1>10 DEF OnceInv, Apart
  <2>2. \A s, u \in Source : s # u => Names(Box(s)') \cap Names(Box(u)') = {}
    BY <1>7, <1>8, <1>9 DEF OnceInv, Apart
  <2>3. QED  BY <2>1, <2>2 DEF Apart
<1>12. AllUsed'
  <2>1. \A s \in Source : Names(Box(s)) \subseteq NameType
    BY BoxTyped
  <2>2. received \subseteq NameType
    BY DEF TypeOK, ServerTypeOK, NameType
  <2>3. \A s \in Source : \A r \in Names(Box(s)') : r \in Names(Box(s)) \/ r = Name(f)
    BY <1>8, <1>9
  <2>4. QED  BY <1>3, <1>4, <1>5, <2>1, <2>2, <2>3 DEF OnceInv, AllUsed
<1>13. QED  BY <1>11, <1>12 DEF OnceInv

\* What waited in the queue moves to the link, all of it.
LEMMA OpenedOnce ==
  ASSUME OnceInv, TypeOK, NEW p \in Tab, Opened(p)
  PROVE  OnceInv'
<1>0. PICK c : c = socket[p]
  OBVIOUS
<1>1. c \in Link /\ p # c /\ p \in Source /\ c \in Source /\ c \notin Tab
  BY <1>0, BridgeBounds DEF Opened, TypeOK, TabsTypeOK, Source
<1>2. /\ Box(c)' = Box(c) \o Box(p) /\ Box(p)' = <<>>
      /\ \A s \in Source : s # c /\ s # p => Box(s)' = Box(s)
  <2>1. toServer' = [toServer EXCEPT ![c] = toServer[c] \o queue[p]] /\ queue' = [queue EXCEPT ![p] = <<>>]
    BY <1>0 DEF Opened, Flush
  <2>2. Box(c)' = toServer'[c] /\ Box(p)' = queue'[p] /\ Box(c) = toServer[c] /\ Box(p) = queue[p]
    BY <1>1 DEF Box
  <2>3. toServer'[c] = toServer[c] \o queue[p] /\ queue'[p] = <<>>
    BY <1>1, <2>1 DEF TypeOK, TabsTypeOK, LinksTypeOK
  <2>4. ASSUME NEW s \in Source, s # c, s # p PROVE Box(s)' = Box(s)
    <3>1. s \in Tab => queue'[s] = queue[s]
      BY <2>1, <2>4 DEF TypeOK, TabsTypeOK
    <3>2. s \in Link => toServer'[s] = toServer[s]
      BY <2>1, <2>4 DEF TypeOK, LinksTypeOK
    <3>3. QED  BY <3>1, <3>2 DEF Box, Source
  <2>5. QED  BY <2>2, <2>3, <2>4
<1>3. UNCHANGED <<received, gen, nextId>>
  BY DEF Opened, history
<1>4. Names(Box(p)) \cap Names(Box(c)) = {} /\ NoRepeat(Box(p)) /\ NoRepeat(Box(c))
  BY <1>1 DEF OnceInv, Apart
<1>5. Names(Box(c)') \subseteq Names(Box(c)) \cup Names(Box(p)) /\ NoRepeat(Box(c)')
  BY <1>1, <1>2, <1>4, BoxTyped, NamesJoin
<1>6. Names(Box(p)') = {} /\ NoRepeat(Box(p)')
  BY <1>2, NamesNone
<1>7. \A s \in Source : s # c /\ s # p => Names(Box(s)') = Names(Box(s)) /\ (NoRepeat(Box(s)) => NoRepeat(Box(s)'))
  BY <1>2
<1>8. Apart'
  <2>1. \A s \in Source : NoRepeat(Box(s)') /\ Names(Box(s)') \cap received' = {}
    BY <1>1, <1>3, <1>5, <1>6, <1>7 DEF OnceInv, Apart
  <2>2. ASSUME NEW s \in Source, NEW u \in Source, s # u PROVE Names(Box(s)') \cap Names(Box(u)') = {}
    <3>1. CASE s = p \/ u = p
      BY <1>6, <3>1
    <3>2. CASE s # p /\ u # p
      BY <1>1, <1>5, <1>7, <2>2, <3>2 DEF OnceInv, Apart
    <3>3. QED  BY <3>1, <3>2
  <2>3. QED  BY <2>1, <2>2 DEF Apart
<1>9. AllUsed'
  <2>1. \A r : Used(r) => Used(r)'
    BY <1>3 DEF Used
  <2>2. QED  BY <1>1, <1>3, <1>5, <1>6, <1>7, <2>1 DEF OnceInv, AllUsed
<1>10. QED  BY <1>8, <1>9 DEF OnceInv

\* A request that the server reads leaves its link.
LEMMA ReadOnce ==
  ASSUME OnceInv, TypeOK, NEW c \in Link, OnMessage(c)
  PROVE  OnceInv'
<1>1. /\ toServer[c] \in Seq(UpFrame) /\ toServer[c] # <<>> /\ UNCHANGED <<queue, gen, nextId>>
      /\ toServer' = [toServer EXCEPT ![c] = Tail(toServer[c])] /\ toServer \in [Link -> Seq(UpFrame)]
      /\ c \in Source /\ Box(c) = toServer[c]
  BY BoxTyped DEF OnMessage, tabVars, TypeOK, LinksTypeOK, Source
<1>2. PICK f \in UpFrame : f = Head(Box(c))
  BY <1>1, DropFrame
<1>3. Box(c)' = Tail(Box(c)) /\ \A s \in Source : s # c => Box(s)' = Box(s)
  <2>1. toServer'[c] = Tail(toServer[c]) /\ \A d \in Link : d # c => toServer'[d] = toServer[d]
    BY <1>1
  <2>2. QED  BY <1>1, <2>1, BridgeBounds DEF Box, Source
<1>4. received' = received \/ (f.t = "req" /\ received' = received \cup {Name(f)})
  BY <1>1, <1>2 DEF OnMessage, OnRequest, OnRelease, OnCallbackAnswer, history, Name
<1>5. NoRepeat(Box(c)) /\ Box(c) \in Seq(UpFrame) /\ Box(c) # <<>>
  BY <1>1 DEF OnceInv, Apart
<1>6. /\ Names(Box(c)') \subseteq Names(Box(c)) /\ NoRepeat(Box(c)')
      /\ f.t = "req" => Name(f) \in Names(Box(c)) /\ Name(f) \notin Names(Box(c)')
  BY <1>2, <1>3, <1>5, NamesRest
<1>7. \A s \in Source : s # c => Names(Box(s)') = Names(Box(s)) /\ (NoRepeat(Box(s)) => NoRepeat(Box(s)'))
  BY <1>3
<1>8. f.t = "req" => \A s \in Source : s # c => Name(f) \notin Names(Box(s))
  BY <1>1, <1>6 DEF OnceInv, Apart
<1>9. Apart'
  <2>1. ASSUME NEW s \in Source PROVE NoRepeat(Box(s)') /\ Names(Box(s)') \cap received' = {}
    <3>1. NoRepeat(Box(s)')
      BY <1>6, <1>7 DEF OnceInv, Apart
    <3>2. Names(Box(s)') \subseteq Names(Box(s)) /\ Names(Box(s)) \cap received = {}
      BY <1>6, <1>7 DEF OnceInv, Apart
    <3>3. f.t = "req" => Name(f) \notin Names(Box(s)')
      BY <1>6, <1>7, <1>8
    <3>4. QED  BY <1>4, <3>1, <3>2, <3>3
  <2>2. \A s, u \in Source : s # u => Names(Box(s)') \cap Names(Box(u)') = {}
    BY <1>6, <1>7 DEF OnceInv, Apart
  <2>3. QED  BY <2>1, <2>2 DEF Apart
<1>10. AllUsed'
  <2>1. \A r : Used(r) => Used(r)'
    BY <1>1 DEF Used
  <2>2. f.t = "req" => Used(Name(f))
    BY <1>1, <1>6 DEF OnceInv, AllUsed
  <2>3. ASSUME NEW r \in received' PROVE Used(r)
    BY <1>4, <2>2, <2>3 DEF OnceInv, AllUsed
  <2>4. ASSUME NEW s \in Source, NEW r \in Names(Box(s)') PROVE Used(r)
    <3>1. r \in Names(Box(s))
      BY <1>6, <1>7, <2>4
    <3>2. QED  BY <3>1 DEF OnceInv, AllUsed
  <2>5. QED  BY <2>1, <2>3, <2>4 DEF AllUsed
<1>11. QED  BY <1>9, <1>10 DEF OnceInv

\* Frames on links that break are lost from the end, and a queue may be gone.
LEMMA LostOnce ==
  ASSUME OnceInv, TypeOK,
         \A c \in Link : \E k \in 0 .. Len(toServer[c]) : toServer'[c] = SubSeq(toServer[c], 1, k),
         \A p \in Tab : queue'[p] \in {queue[p], <<>>},
         received' = received,
         \A r \in NameType : Used(r) => Used(r)'
  PROVE  OnceInv'
<1>1. ASSUME NEW s \in Source
      PROVE  Names(Box(s)') \subseteq Names(Box(s)) /\ (NoRepeat(Box(s)) => NoRepeat(Box(s)'))
  <2>1. CASE s \in Tab
    <3>1. Box(s)' = Box(s) \/ Box(s)' = <<>>
      BY <2>1 DEF Box
    <3>2. QED  BY <3>1, NamesNone
  <2>2. CASE s \in Link
    <3>1. Box(s) = toServer[s] /\ Box(s)' = toServer'[s] /\ Box(s) \in Seq(UpFrame)
      BY <2>2, BoxTyped, BridgeBounds DEF Box
    <3>2. PICK k \in 0 .. Len(Box(s)) : Box(s)' = SubSeq(Box(s), 1, k)
      BY <2>2, <3>1
    <3>3. QED  BY <3>1, <3>2, NamesPart
  <2>3. QED  BY <2>1, <2>2 DEF Source
<1>2. QED  BY <1>1, FewerStayApart

\* A link that breaks only loses requests, so none is there twice.
LEMMA DropOnce ==
  ASSUME OnceInv, TypeOK, NEW c \in Link, Drop(c)
  PROVE  OnceInv'
<1>0. PICK C : C = {c}
  OBVIOUS
<1>1. PICK n \in 0 .. Longest : toServer' = Cut(toServer, C, n)
  BY <1>0 DEF Drop
<1>2. toServer \in [Link -> Seq(UpFrame)]
  BY DEF TypeOK, LinksTypeOK
<1>3. \A d \in Link : \E k \in 0 .. Len(toServer[d]) : toServer'[d] = SubSeq(toServer[d], 1, k)
  BY SMTT(30), <1>1, <1>2, CutKeepsFirst
<1>4. UNCHANGED <<queue, gen, nextId, received>>
  BY DEF Drop, tabVars, history
<1>5. \A r : Used(r) => Used(r)'
  BY <1>4 DEF Used
<1>6. QED  BY <1>3, <1>4, <1>5, LostOnce

\* Nor does a server that stops bring one back.
LEMMA StopOnce ==
  ASSUME OnceInv, TypeOK, Stop
  PROVE  OnceInv'
<1>1. toServer \in [Link -> Seq(UpFrame)] /\ toServer' = Cut(toServer, Link, 0)
  BY DEF Stop, TypeOK, LinksTypeOK
<1>2. ASSUME NEW d \in Link
      PROVE  \E k \in 0 .. Len(toServer[d]) : toServer'[d] = SubSeq(toServer[d], 1, k)
  <2>1. toServer'[d] = <<>> /\ SubSeq(toServer[d], 1, 0) = <<>> /\ 0 \in 0 .. Len(toServer[d])
    BY <1>1, CutAll
  <2>2. QED  BY <2>1
<1>3. UNCHANGED <<queue, gen, nextId, received>>
  BY DEF Stop, tabVars, history
<1>4. \A r : Used(r) => Used(r)'
  BY <1>3 DEF Used
<1>5. QED  BY <1>2, <1>3, <1>4, LostOnce

\* A page that loads again starts its numbers over under a name of its own.
LEMMA ReloadOnce ==
  ASSUME OnceInv, TypeOK, NEW p \in Tab, Reload(p)
  PROVE  OnceInv'
<1>0. PICK C : C = {socket[p]}
  OBVIOUS
<1>1. PICK n \in 0 .. Longest : toServer' = Cut(toServer, C, n)
  BY <1>0 DEF Reload
<1>2. toServer \in [Link -> Seq(UpFrame)] /\ queue \in [Tab -> Seq(UpFrame)]
  BY DEF TypeOK, LinksTypeOK, TabsTypeOK
<1>3. \A d \in Link : \E k \in 0 .. Len(toServer[d]) : toServer'[d] = SubSeq(toServer[d], 1, k)
  <2>1. toServer \in [Link -> Seq(UpFrame)]
    BY <1>2
  <2>2. QED  BY <1>1, <2>1, CutKeepsFirst
<1>4. received' = received /\ \A q \in Tab : queue'[q] \in {queue[q], <<>>}
  BY <1>2 DEF Reload, history
<1>5. ASSUME NEW r \in NameType, Used(r) PROVE Used(r)'
  <2>1. /\ gen \in [Tab -> Nat \ {0}] /\ r.tab \in Tab /\ r.gen \in Nat
        /\ gen' = [gen EXCEPT ![p] = gen[p] + 1] /\ nextId' = [nextId EXCEPT ![p] = 1]
    BY DEF Reload, TypeOK, TabsTypeOK, NameType
  <2>2. CASE r.tab = p
    <3>1. r.gen <= gen[p] /\ gen'[p] = gen[p] + 1
      BY <1>5, <2>1, <2>2 DEF Used
    <3>2. r.gen < gen'[r.tab]
      BY <2>1, <2>2, <3>1
    <3>3. QED  BY <3>2 DEF Used
  <2>3. CASE r.tab # p
    <3>1. gen'[r.tab] = gen[r.tab] /\ nextId'[r.tab] = nextId[r.tab]
      BY <2>1, <2>3 DEF TypeOK, TabsTypeOK
    <3>2. QED  BY <1>5, <3>1 DEF Used
  <2>4. QED  BY <2>2, <2>3
<1>6. QED  BY <1>3, <1>4, <1>5, LostOnce

\* Every step leaves each request in one place at most.
LEMMA OnceStep ==
  ASSUME OnceInv, TypeOK, [Next]_vars
  PROVE  OnceInv'
<1>1. ASSUME NEW p \in Tab, Page(p) PROVE OnceInv'
  <2>1. ASSUME NEW h \in held[p], ReleaseHandle(p, h) PROVE OnceInv'
    <3>1. Release(h) \in UpFrame /\ Release(h).t # "req"
      BY PageFrames DEF Release
    <3>2. SendFrame(p, Release(h)) /\ UNCHANGED <<received, gen, nextId>>
      BY <2>1 DEF ReleaseHandle, history
    <3>3. QED  BY <3>1, <3>2, OtherFrameSent
  <2>2. SyncMint(p) => OnceInv'
    BY SameBoxes DEF SyncMint, linkVars
  <2>3. QED  BY <1>1, <2>1, <2>2, InvokeOnce DEF Page
<1>2. ASSUME NEW p \in Tab, PageEvent(p) PROVE OnceInv'
  <2>1. ASSUME NEW x \in called[p], AnswerCallback(p, x) PROVE OnceInv'
    <3>1. CbRes(x) \in UpFrame /\ CbRes(x).t # "req"
      BY PageFrames DEF CbRes
    <3>2. SendFrame(p, CbRes(x)) /\ UNCHANGED <<received, gen, nextId>>
      BY <2>1 DEF AnswerCallback, history
    <3>3. QED  BY <3>1, <3>2, OtherFrameSent
  <2>2. Closed(p) \/ Boot(p) \/ (\E c \in Link : Connect(p, c)) => OnceInv'
    BY SameBoxes DEF Closed, Boot, Connect, linkVars, history
  <2>3. OnFrame(p) => OnceInv'
    BY SameBoxes DEF OnFrame, history
  <2>4. QED  BY <1>2, <2>1, <2>2, <2>3, OpenedOnce, ReloadOnce DEF PageEvent
<1>3. ASSUME NEW c \in Link, ServerEvent(c) \/ Drop(c) \/ Recycle(c) PROVE OnceInv'
  <2>1. SessionClosed(c) \/ Recycle(c) => OnceInv'
    BY SameBoxes DEF SessionClosed, Recycle, tabVars, history
  <2>2. QED  BY <1>3, <2>1, ReadOnce, DropOnce DEF ServerEvent
<1>4. ASSUME NEW x \in tasks, Finish(x) \/ \E withHandle \in BOOLEAN : CallBack(x, withHandle)
      PROVE  OnceInv'
  BY <1>4, SameBoxes DEF Finish, CallBack, tabVars, history
<1>5. Start => OnceInv'
  BY SameBoxes DEF Start, tabVars, linkVars, history
<1>6. UNCHANGED vars => OnceInv'
  BY SameBoxes DEF vars, tabVars, linkVars, history
<1>7. QED  BY <1>1, <1>2, <1>3, <1>4, <1>5, <1>6, StopOnce DEF Next, NativeStep

\* At the start no request is anywhere.
LEMMA OnceInit == Init => OnceInv
<1> SUFFICES ASSUME Init PROVE OnceInv
  OBVIOUS
<1>1. received = {} /\ \A s \in Source : Box(s) = <<>>
  BY DEF Init, Box, Source
<1>2. \A s \in Source : Names(Box(s)) = {} /\ NoRepeat(Box(s))
  BY <1>1, NamesNone
<1>3. QED  BY <1>1, <1>2 DEF OnceInv, Apart, AllUsed

\* Requests kept apart run once at most.
LEMMA ApartOnlyOnce ==
  ASSUME TypeOK, Apart
  PROVE  OnlyOnce
<1>1. \A s \in Source : Outbox[s] = Box(s)
  BY DEF Outbox, Box, Source
<1>2. ASSUME NEW x \in Slots
      PROVE  /\ x[1] \in Source /\ x[2] \in 1 .. Len(Box(x[1])) /\ IsReq(Box(x[1]), x[2])
             /\ x = <<x[1], x[2]>> /\ Outbox[x[1]][x[2]] = Box(x[1])[x[2]]
             /\ Name(Outbox[x[1]][x[2]]) \in Names(Box(x[1]))
  <2>1. PICK s \in Source : x \in {s} \X {i \in 1 .. Len(Outbox[s]) : Outbox[s][i].t = "req"}
    BY DEF Slots, Source
  <2>2. x[1] = s /\ x = <<x[1], x[2]>> /\ x[2] \in {i \in 1 .. Len(Outbox[s]) : Outbox[s][i].t = "req"}
    BY <2>1
  <2>3. x[2] \in 1 .. Len(Box(s)) /\ IsReq(Box(s), x[2])
    BY <1>1, <2>2 DEF IsReq
  <2>4. Name(Box(s)[x[2]]) \in Names(Box(s))
    BY <2>3 DEF Names
  <2>5. QED  BY <1>1, <2>2, <2>3, <2>4
<1>3. ASSUME NEW x \in Slots, NEW y \in Slots,
             Name(Outbox[y[1]][y[2]]) = Name(Outbox[x[1]][x[2]])
      PROVE  x = y
  <2>1. x[1] = y[1]
    BY <1>2, <1>3 DEF Apart
  <2>2. x[2] = y[2]
    BY <1>2, <1>3, <2>1 DEF Apart, NoRepeat
  <2>3. QED  BY <1>2, <2>1, <2>2
<1>4. \A x \in Slots : Name(Outbox[x[1]][x[2]]) \notin received
  BY <1>2 DEF Apart
<1>5. QED  BY <1>3, <1>4 DEF OnlyOnce

\* No request is executed twice: whatever breaks, restarts and reloads, a request waits in
\* one place only, and none that the server has read waits anywhere (client.web.ts #sendQueue).
THEOREM RequestsRunOnce == Spec => []OnlyOnce
<1>1. TypeOK /\ OnceInv /\ [Next]_vars => OnceInv'
  BY OnceStep
<1>2. TypeOK /\ OnceInv => OnlyOnce
  BY ApartOnlyOnce DEF OnceInv
<1>3. QED  BY <1>1, <1>2, OnceInit, BridgeTypeCorrect, PTL DEF Spec

-----------------------------------------------------------------------------
(* The two ends of a link. *)

\* A tab and its socket know each other, nothing is on its way to a tab that let go, a
\* link that works has a session, and a page that loads has no socket.
Ends ==
  /\ \A p \in Tab : socket[p] \in Link => owner[socket[p]] = p
  /\ \A c \in Link : link[c] = "free" => owner[c] = <<>>
  /\ \A c \in Link : owner[c] = <<>> => toTab[c] = <<>> /\ link[c] \notin Usable
  /\ \A c \in Link : link[c] \in Usable => session[c]
  /\ \A p \in Tab : boot[p] = 0 => socket[p] = NoLink

\* What a break does to one link: a free one stays free, one it hits is gone.
LEMMA DownFacts ==
  ASSUME LinksTypeOK, NEW C, NEW c \in Link
  PROVE  /\ Down(C)[c] = "free" <=> link[c] = "free"
         /\ c \notin C => Down(C)[c] = link[c]
         /\ c \in C => Down(C)[c] \notin Usable
         /\ c \in C /\ link[c] # "free" => Down(C)[c] \in Gone
         /\ link[c] \in Gone => Down(C)[c] = link[c]
BY DEF Down, LinksTypeOK, Usable, Gone

\* A tab's socket is nobody else's, and a real link.
LEMMA OwnSocket ==
  ASSUME Ends, TypeOK, NEW p \in Tab, socket[p] \in Link
  PROVE  /\ \A q \in Tab : q # p => socket[q] # socket[p]
         /\ link[socket[p]] # "free" /\ owner[socket[p]] # <<>>
BY BridgeBounds DEF Ends

\* Steps that only touch the frames on links: what is sent to a tab goes to a link that works.
LEMMA EndsFramesOnly ==
  ASSUME Ends, TypeOK, UNCHANGED <<socket, owner, link, session, boot>>,
         \A c \in Link : toTab'[c] = toTab[c] \/ link[c] \in Usable \/ toTab[c] # <<>>
  PROVE  Ends'
BY DEF Ends

\* A reply goes to a usable link, which has an owner.
LEMMA EndsReply ==
  ASSUME Ends, TypeOK, NEW c \in Link, NEW f \in DownFrame, Reply(c, f),
         UNCHANGED <<socket, owner, link, session, boot>>
  PROVE  Ends'
<1>1. toTab \in [Link -> Seq(DownFrame)]
  BY DEF TypeOK, LinksTypeOK
<1>2. \A d \in Link : toTab'[d] = toTab[d] \/ link[d] \in Usable
  BY <1>1, ReplyType
<1>3. QED  BY <1>2, EndsFramesOnly

\* The requests of a message and a task have their types.
LEMMA ReadTypes ==
  ASSUME TypeOK
  PROVE  /\ \A c \in Link : toServer[c] # <<>> => Head(toServer[c]) \in UpFrame
         /\ \A x \in tasks : x.link \in Link /\ x.req \in RequestType /\ x.waits \in BOOLEAN
<1>1. toServer \in [Link -> Seq(UpFrame)]
  BY DEF TypeOK, LinksTypeOK
<1>2. \A x \in tasks : x.link \in Link /\ x.req \in RequestType /\ x.waits \in BOOLEAN
  BY DEF TypeOK, ServerTypeOK
<1>3. QED  BY <1>1, <1>2, DropFrame

\* What the server sends in a step: one frame on one link, never a hello, or none.
LEMMA ServerSends ==
  ASSUME TypeOK,
         (\E c \in Link : OnMessage(c)) \/ NativeStep
  PROVE  \/ toTab' = toTab
         \/ \E c \in Link, f \in DownFrame : f.t # "hello" /\ Reply(c, f)
<1>1. ASSUME NEW c \in Link, OnMessage(c)
      PROVE  toTab' = toTab \/ \E f \in DownFrame : f.t # "hello" /\ Reply(c, f)
  <2>1. PICK f \in UpFrame : f = Head(toServer[c])
    BY <1>1, ReadTypes DEF OnMessage
  <2>2. CASE OnRequest(c, f)
    <3>1. f \in RequestType
      BY <2>2, UpFrameKinds DEF OnRequest
    <3>2. Res(f, NoHandle) \in DownFrame /\ Res(f, NoHandle).t # "hello"
      BY <3>1, ServerFrames DEF Res
    <3>3. QED  BY <2>2, <3>2 DEF OnRequest
  <2>3. CASE OnRelease(c, f) \/ OnCallbackAnswer(c, f)
    BY <2>3 DEF OnRelease, OnCallbackAnswer
  <2>4. QED  BY <1>1, <2>1, <2>2, <2>3 DEF OnMessage
<1>2. ASSUME NEW x \in tasks, Finish(x)
      PROVE  \E f \in DownFrame : f.t # "hello" /\ Reply(x.link, f)
  <2>1. Res(x.req, NewHandle) \in DownFrame /\ Res(x.req, NoHandle) \in DownFrame
    BY ReadTypes, ServerFrames
  <2>2. Res(x.req, NewHandle).t # "hello" /\ Res(x.req, NoHandle).t # "hello"
    BY DEF Res
  <2>3. QED  BY <1>2, <2>1, <2>2 DEF Finish
<1>3. ASSUME NEW x \in tasks, NEW withHandle \in BOOLEAN, CallBack(x, withHandle)
      PROVE  \E f \in DownFrame : f.t # "hello" /\ Reply(x.link, f)
  <2>1. nextCb \in 1 .. MaxCallbacks
    BY <1>3, BridgeBounds DEF CallBack, TypeOK, ServerTypeOK
  <2>2. CbReq(nextCb, NewHandle, x.req) \in DownFrame /\ CbReq(nextCb, NoHandle, x.req) \in DownFrame
    BY <2>1, ReadTypes, ServerFrames
  <2>3. CbReq(nextCb, NewHandle, x.req).t # "hello" /\ CbReq(nextCb, NoHandle, x.req).t # "hello"
    BY DEF CbReq
  <2>4. QED  BY <1>3, <2>2, <2>3 DEF CallBack, CallbackId
<1>4. QED  BY <1>1, <1>2, <1>3, ReadTypes DEF NativeStep

\* A new connection takes a free link for its tab.
LEMMA EndsConnect ==
  ASSUME Ends, TypeOK, NEW p \in Tab, NEW c \in Link, Connect(p, c)
  PROVE  Ends'
<1>1. /\ socket \in [Tab -> Link \cup {NoLink}] /\ owner \in [Link -> Tab \cup {<<>>}]
      /\ link \in [Link -> {"free", "opening", "up", "refused", "broken"}]
      /\ session \in [Link -> BOOLEAN] /\ toTab \in [Link -> Seq(DownFrame)]
  BY DEF TypeOK, TabsTypeOK, LinksTypeOK
<1>2. /\ socket' = [socket EXCEPT ![p] = c] /\ owner' = [owner EXCEPT ![c] = p]
      /\ boot' = boot /\ boot[p] # 0 /\ link[c] = "free" /\ owner[c] = <<>>
  BY DEF Connect, Live, Ends
<1>3. \A q \in Tab : socket[q] # c
  BY <1>2, OwnSocket
<1>4. \A q \in Tab : socket'[q] \in Link => owner'[socket'[q]] = q
  <2>1. owner'[socket'[p]] = p
    BY <1>1, <1>2
  <2>2. ASSUME NEW q \in Tab, q # p, socket[q] \in Link PROVE owner'[socket'[q]] = q
    <3>1. socket'[q] = socket[q] /\ owner'[socket[q]] = owner[socket[q]]
      BY <1>1, <1>2, <1>3, <2>2
    <3>2. QED  BY <2>2, <3>1 DEF Ends
  <2>3. \A q \in Tab : q # p => socket'[q] = socket[q]
    BY <1>1, <1>2
  <2>4. QED  BY <2>1, <2>2, <2>3
<1>5. link'[c] \in {"opening", "refused"} /\ (link'[c] = "opening" => session'[c])
  BY <1>1 DEF Connect
<1>6. \A d \in Link : d # c => /\ link'[d] = link[d] /\ session'[d] = session[d]
                               /\ toTab'[d] = toTab[d] /\ owner'[d] = owner[d]
  BY <1>1, <1>2 DEF Connect
<1>7. owner'[c] = p /\ p # <<>>
  BY <1>1, <1>2, BridgeBounds
<1>8. \A d \in Link : /\ link'[d] = "free" => owner'[d] = <<>>
                      /\ owner'[d] = <<>> => toTab'[d] = <<>> /\ link'[d] \notin Usable
                      /\ link'[d] \in Usable => session'[d]
  BY <1>5, <1>6, <1>7 DEF Ends, Usable
<1>9. \A q \in Tab : boot'[q] = 0 => socket'[q] = NoLink
  BY <1>1, <1>2 DEF Ends
<1>10. QED  BY <1>4, <1>8, <1>9 DEF Ends, Usable

\* The page lets go of its socket: 'close', or a reload.
LEMMA EndsLetGo ==
  ASSUME Ends, TypeOK, NEW p \in Tab, socket[p] \in Link,
         socket' = [socket EXCEPT ![p] = NoLink],
         owner' = [owner EXCEPT ![socket[p]] = <<>>],
         toTab' = [toTab EXCEPT ![socket[p]] = <<>>],
         link' = Down({socket[p]}), session' = session,
         \A q \in Tab : q # p => boot'[q] = boot[q]
  PROVE  Ends'
<1>1. /\ socket \in [Tab -> Link \cup {NoLink}] /\ owner \in [Link -> Tab \cup {<<>>}]
      /\ toTab \in [Link -> Seq(DownFrame)] /\ NoLink \notin Link /\ LinksTypeOK
  BY BridgeBounds DEF TypeOK, TabsTypeOK, LinksTypeOK
<1>2. PICK c \in Link : c = socket[p]
  OBVIOUS
<1>3. /\ socket'[p] = NoLink /\ \A q \in Tab : q # p => socket'[q] = socket[q] /\ socket[q] # c
  BY <1>1, <1>2, OwnSocket
<1>4. /\ owner'[c] = <<>> /\ toTab'[c] = <<>> /\ link'[c] \notin Usable
      /\ \A d \in Link : d # c => owner'[d] = owner[d] /\ toTab'[d] = toTab[d] /\ link'[d] = link[d]
  BY <1>1, <1>2, DownFacts
<1>5. \A q \in Tab : socket'[q] \in Link => owner'[socket'[q]] = q
  BY <1>1, <1>3, <1>4 DEF Ends
<1>6. \A d \in Link : /\ link'[d] = "free" => owner'[d] = <<>>
                      /\ owner'[d] = <<>> => toTab'[d] = <<>> /\ link'[d] \notin Usable
                      /\ link'[d] \in Usable => session'[d]
  BY <1>4 DEF Ends
<1>7. \A q \in Tab : boot'[q] = 0 => socket'[q] = NoLink
  BY <1>3 DEF Ends
<1>8. QED  BY <1>5, <1>6, <1>7 DEF Ends, Usable

\* Links break: what is in flight is cut.
LEMMA EndsBreak ==
  ASSUME Ends, TypeOK, NEW C, NEW n \in 0 .. Longest,
         link' = Down(C), toTab' = Cut(toTab, C, n), UNCHANGED <<socket, owner, boot>>,
         \A c \in Link : c \notin C => session'[c] = session[c]
  PROVE  Ends'
<1>1. toTab \in [Link -> Seq(DownFrame)] /\ LinksTypeOK
  BY DEF TypeOK, LinksTypeOK
<1>2. ASSUME NEW c \in Link, toTab[c] = <<>> PROVE toTab'[c] = <<>>
  <2>1. PICK k \in 0 .. Len(toTab[c]) : toTab'[c] = SubSeq(toTab[c], 1, k)
    BY SMTT(30), <1>1, CutKeepsFirst
  <2>2. k = 0
    BY <1>2, <2>1
  <2>3. SubSeq(toTab[c], 1, 0) = <<>>
    BY <1>2
  <2>4. QED  BY <2>1, <2>2, <2>3
<1>3. \A c \in Link : /\ link'[c] = "free" => link[c] = "free"
                      /\ link'[c] \in Usable => c \notin C /\ link'[c] = link[c]
  BY <1>1, DownFacts
<1>4. QED  BY <1>2, <1>3 DEF Ends, Usable

\* Every step keeps the two ends of each link in agreement.
LEMMA EndsStep ==
  ASSUME Ends, TypeOK, [Next]_vars
  PROVE  Ends'
<1> TypeOK' /\ TabsTypeOK /\ LinksTypeOK
  BY BridgeTypeStep DEF TypeOK
<1>1. ASSUME NEW p \in Tab, Page(p) PROVE Ends'
  BY <1>1, EndsFramesOnly DEF Page, Invoke, ReleaseHandle, SyncMint, linkVars
<1>2. ASSUME NEW p \in Tab, PageEvent(p) PROVE Ends'
  <2>1. (\E x \in called[p] : AnswerCallback(p, x)) => Ends'
    BY EndsFramesOnly DEF AnswerCallback
  <2>2. ASSUME Opened(p) PROVE Ends'
    BY <2>2 DEF Opened, Ends, Usable, LinksTypeOK
  <2>3. ASSUME Closed(p) PROVE Ends'
    <3>1. socket[p] \in Link /\ link[socket[p]] \in Gone
      BY <2>3 DEF Closed, TabsTypeOK
    <3>2. Down({socket[p]}) = link
      <4>1. \A c \in Link : Down({socket[p]})[c] = link[c]
        BY <3>1, DownFacts
      <4>2. QED  BY <4>1 DEF Down, LinksTypeOK
    <3>3. QED  BY <2>3, <3>1, <3>2, EndsLetGo DEF Closed
  <2>4. ASSUME OnFrame(p) PROVE Ends'
    <3>1. \A c \in Link : toTab'[c] = toTab[c] \/ toTab[c] # <<>>
      BY <2>4 DEF OnFrame, LinksTypeOK
    <3>2. QED  BY <2>4, <3>1, EndsFramesOnly DEF OnFrame
  <2>5. ASSUME Reload(p) PROVE Ends'
    <3>1. toTab' = Cut(toTab, {socket[p]}, 0) /\ toTab \in [Link -> Seq(DownFrame)]
      BY <2>5 DEF Reload, LinksTypeOK
    <3>2. /\ toTab' \in [Link -> Seq(DownFrame)]
          /\ \A c \in Link : toTab'[c] = IF c \in {socket[p]} THEN <<>> ELSE toTab[c]
      <4>1. PICK C : C = {socket[p]}
        OBVIOUS
      <4>2. toTab \in [Link -> Seq(DownFrame)] /\ toTab' = Cut(toTab, C, 0)
        BY <3>1, <4>1
      <4>3. /\ Cut(toTab, C, 0) \in [Link -> Seq(DownFrame)]
            /\ \A c \in Link : Cut(toTab, C, 0)[c] = IF c \in C THEN <<>> ELSE toTab[c]
        BY <4>2, CutAll
      <4>4. QED  BY <4>1, <4>2, <4>3
    <3>3. CASE socket[p] \in Link
      <4>1. toTab' = [toTab EXCEPT ![socket[p]] = <<>>]
        BY <3>1, <3>2, <3>3
      <4>2. owner' = [owner EXCEPT ![socket[p]] = <<>>]
        BY <2>5, <3>3 DEF Reload, LinksTypeOK
      <4>3. \A q \in Tab : q # p => boot'[q] = boot[q]
        BY <2>5 DEF Reload, TabsTypeOK
      <4>4. QED  BY <2>5, <3>3, <4>1, <4>2, <4>3, EndsLetGo DEF Reload
    <3>4. CASE socket[p] = NoLink
      <4>1. \A c \in Link : toTab'[c] = toTab[c] /\ owner'[c] = owner[c] /\ link'[c] = link[c]
        BY <2>5, <3>2, <3>4, DownFacts, BridgeBounds DEF Reload
      <4>2. socket' = socket /\ session' = session /\ \A q \in Tab : boot'[q] = boot[q] \/ q = p
        BY <2>5, <3>4 DEF Reload, TabsTypeOK
      <4>3. QED  BY <3>4, <4>1, <4>2 DEF Ends, Usable
    <3>5. QED  BY <3>3, <3>4 DEF TabsTypeOK
  <2>6. ASSUME Boot(p) PROVE Ends'
    BY <2>6 DEF Boot, linkVars, Ends, Live, TabsTypeOK, ServerTypeOK, TypeOK
  <2>7. QED  BY <1>2, <2>1, <2>2, <2>3, <2>4, <2>5, <2>6, EndsConnect DEF PageEvent
<1>3. ASSUME (\E c \in Link : OnMessage(c)) \/ NativeStep PROVE Ends'
  <2>1. UNCHANGED <<socket, owner, link, session, boot>>
    BY <1>3 DEF OnMessage, NativeStep, Finish, CallBack, tabVars
  <2>2. QED  BY <1>3, <2>1, ServerSends, EndsReply, EndsFramesOnly
<1>4. ASSUME NEW c \in Link, SessionClosed(c) \/ Recycle(c) PROVE Ends'
  <2>1. CASE SessionClosed(c)
    BY <2>1 DEF SessionClosed, tabVars, Ends, Usable, Gone, LinksTypeOK
  <2>2. CASE Recycle(c)
    BY <2>2 DEF Recycle, tabVars, Ends, Usable, Gone, LinksTypeOK
  <2>3. QED  BY <1>4, <2>1, <2>2
<1>5. ASSUME NEW c \in Link, Drop(c) PROVE Ends'
  <2>1. PICK C : C = {c}
    OBVIOUS
  <2>2. PICK n \in 0 .. Longest : toTab' = Cut(toTab, C, n)
    BY <1>5, <2>1 DEF Drop
  <2>3. link' = Down(C) /\ UNCHANGED <<socket, owner, boot, session>>
    BY <1>5, <2>1 DEF Drop, tabVars
  <2>4. QED  BY <2>2, <2>3, EndsBreak
<1>6. ASSUME Stop PROVE Ends'
  <2>1. PICK n \in 0 .. Longest : toTab' = Cut(toTab, Link, n)
    BY <1>6 DEF Stop
  <2>2. link' = Down(Link) /\ UNCHANGED <<socket, owner, boot>>
    BY <1>6 DEF Stop, tabVars
  <2>3. QED  BY <2>1, <2>2, EndsBreak
<1>7. Start \/ UNCHANGED vars => Ends'
  BY DEF Start, vars, tabVars, linkVars, Ends
<1>8. QED  BY <1>1, <1>2, <1>3, <1>4, <1>5, <1>6, <1>7 DEF Next, ServerEvent

\* At the start all links are free.
LEMMA EndsInit == Init => Ends
BY BridgeBounds DEF Init, Ends, Usable

-----------------------------------------------------------------------------
(* A page reloads only if an older process has served it. *)

\* Hellos on their way name no process before the page's and none after the one that runs.
HellosFit(s, b, e) == \A i \in 1 .. Len(s) : s[i].t = "hello" => b <= s[i].epoch /\ s[i].epoch <= e

HelloInv == \A p \in Tab : socket[p] \in Link => HellosFit(toTab[socket[p]], boot[p], epoch)

\* Greetings that fit still do when another frame is added and when frames are lost or read.
LEMMA HellosKept ==
  ASSUME NEW s \in Seq(DownFrame), NEW b, NEW e, HellosFit(s, b, e)
  PROVE  /\ \A f \in DownFrame : f.t # "hello" => HellosFit(Append(s, f), b, e)
         /\ \A k \in 0 .. Len(s) : HellosFit(SubSeq(s, 1, k), b, e)
         /\ s # <<>> => HellosFit(Tail(s), b, e)
<1>1. ASSUME NEW f \in DownFrame, f.t # "hello" PROVE HellosFit(Append(s, f), b, e)
  <2>1. /\ Len(s) \in Nat /\ Len(Append(s, f)) = Len(s) + 1 /\ Append(s, f)[Len(s) + 1] = f
        /\ \A i \in 1 .. Len(s) : Append(s, f)[i] = s[i]
    BY AddFrame
  <2>2. \A i \in 1 .. Len(Append(s, f)) : i \in 1 .. Len(s) \/ i = Len(s) + 1
    BY <2>1
  <2>3. QED  BY <1>1, <2>1, <2>2 DEF HellosFit
<1>2. ASSUME NEW k \in 0 .. Len(s) PROVE HellosFit(SubSeq(s, 1, k), b, e)
  <2>1. /\ Len(SubSeq(s, 1, k)) = k
        /\ \A i \in 1 .. k : SubSeq(s, 1, k)[i] = s[i] /\ i \in 1 .. Len(s)
    BY KeepFirst
  <2>2. QED  BY <2>1 DEF HellosFit
<1>3. ASSUME s # <<>> PROVE HellosFit(Tail(s), b, e)
  <2>1. /\ Len(s) \in Nat /\ Len(s) >= 1 /\ Len(Tail(s)) = Len(s) - 1
        /\ \A i \in 1 .. Len(s) - 1 : Tail(s)[i] = s[i + 1]
    BY <1>3, DropFrame
  <2>2. \A i \in 1 .. Len(Tail(s)) : i + 1 \in 1 .. Len(s) /\ Tail(s)[i] = s[i + 1]
    BY <2>1
  <2>3. QED  BY <2>2 DEF HellosFit
<1>4. QED  BY <1>1, <1>2, <1>3

\* Steps that leave sockets and pages where they are.
LEMMA HellosStay ==
  ASSUME HelloInv, TypeOK, UNCHANGED <<socket, boot, epoch>>,
         \A c \in Link : \/ toTab'[c] = toTab[c]
                         \/ \E f \in DownFrame : f.t # "hello" /\ toTab'[c] = Append(toTab[c], f)
                         \/ \E k \in 0 .. Len(toTab[c]) : toTab'[c] = SubSeq(toTab[c], 1, k)
                         \/ toTab[c] # <<>> /\ toTab'[c] = Tail(toTab[c])
  PROVE  HelloInv'
<1>1. toTab \in [Link -> Seq(DownFrame)]
  BY DEF TypeOK, LinksTypeOK
<1>2. ASSUME NEW p \in Tab, socket[p] \in Link
      PROVE  HellosFit(toTab'[socket[p]], boot[p], epoch)
  <2>1. HellosFit(toTab[socket[p]], boot[p], epoch) /\ toTab[socket[p]] \in Seq(DownFrame)
    BY <1>1, <1>2 DEF HelloInv
  <2>2. QED  BY <1>2, <2>1, HellosKept
<1>3. QED  BY <1>2 DEF HelloInv

\* Every step keeps the greetings in flight fitting the tab that will read them.
LEMMA HelloStep ==
  ASSUME HelloInv, Ends, TypeOK, [Next]_vars
  PROVE  HelloInv'
<1> TabsTypeOK /\ LinksTypeOK /\ ServerTypeOK
  BY DEF TypeOK
<1>1. ASSUME NEW p \in Tab, Page(p) \/ \E x \in called[p] : AnswerCallback(p, x) PROVE HelloInv'
  BY <1>1, HellosStay
     DEF Page, Invoke, ReleaseHandle, SyncMint, AnswerCallback, linkVars, serverVars
<1>2. ASSUME NEW p \in Tab, NEW c \in Link, Connect(p, c) PROVE HelloInv'
  <2>1. /\ socket' = [socket EXCEPT ![p] = c] /\ UNCHANGED <<boot, epoch>>
        /\ boot[p] \in 0 .. epoch /\ epoch \in Nat /\ toTab[c] = <<>>
    BY <1>2 DEF Connect, serverVars, Ends, TabsTypeOK, ServerTypeOK
  <2>2. /\ toTab'[c] \in {<<>>, <<Hello>>}
        /\ \A d \in Link : d # c => toTab'[d] = toTab[d]
    BY <1>2, <2>1 DEF Connect, LinksTypeOK
  <2>3. HellosFit(<<>>, boot[p], epoch) /\ HellosFit(<<Hello>>, boot[p], epoch)
    BY <2>1 DEF HellosFit, Hello
  <2>4. socket'[p] = c /\ \A q \in Tab : q # p => socket'[q] = socket[q] /\ socket[q] # c
    BY <1>2, <2>1, OwnSocket DEF Connect, TabsTypeOK
  <2>5. HellosFit(toTab'[c], boot[p], epoch)
    BY <2>2, <2>3
  <2>6. QED  BY <2>1, <2>2, <2>4, <2>5 DEF HelloInv
<1>3. ASSUME NEW p \in Tab, Closed(p) \/ Reload(p) PROVE HelloInv'
  <2>1. socket' = [socket EXCEPT ![p] = NoLink] /\ epoch' = epoch /\ NoLink \notin Link
    BY <1>3, BridgeBounds DEF Closed, Reload, serverVars
  <2>2. ASSUME NEW q \in Tab, q # p, socket[q] \in Link
        PROVE  socket'[q] = socket[q] /\ boot'[q] = boot[q] /\ toTab'[socket[q]] = toTab[socket[q]]
    <3>1. socket[q] # socket[p] /\ socket'[q] = socket[q] /\ boot'[q] = boot[q]
      BY <1>3, <2>1, <2>2, OwnSocket DEF Closed, Reload, TabsTypeOK
    <3>2. CASE Closed(p)
      BY <2>2, <3>1, <3>2 DEF Closed, LinksTypeOK
    <3>3. CASE Reload(p)
      <4>1. PICK C : C = {socket[p]}
        OBVIOUS
      <4>2. toTab \in [Link -> Seq(DownFrame)] /\ toTab' = Cut(toTab, C, 0)
        BY <3>3, <4>1 DEF Reload, LinksTypeOK
      <4>3. Cut(toTab, C, 0)[socket[q]] = IF socket[q] \in C THEN <<>> ELSE toTab[socket[q]]
        BY <2>2, <4>2, CutAll
      <4>4. QED  BY <3>1, <4>1, <4>2, <4>3
    <3>4. QED  BY <1>3, <3>1, <3>2, <3>3
  <2>3. socket'[p] = NoLink /\ \A q \in Tab : q # p => socket'[q] = socket[q]
    BY <2>1 DEF TabsTypeOK
  <2>4. QED  BY <2>1, <2>2, <2>3 DEF HelloInv
<1>4. ASSUME NEW p \in Tab, OnFrame(p) PROVE HelloInv'
  <2>1. UNCHANGED <<socket, boot, epoch>>
    BY <1>4 DEF OnFrame, serverVars
  <2>2. \A c \in Link : toTab'[c] = toTab[c] \/ (toTab[c] # <<>> /\ toTab'[c] = Tail(toTab[c]))
    BY <1>4 DEF OnFrame, LinksTypeOK
  <2>3. QED  BY <2>1, <2>2, HellosStay
<1>5. ASSUME NEW p \in Tab, Boot(p) PROVE HelloInv'
  <2>1. socket[p] = NoLink /\ NoLink \notin Link
    BY <1>5, BridgeBounds DEF Boot, Live, Ends
  <2>2. UNCHANGED <<socket, toTab, epoch>> /\ \A q \in Tab : q # p => boot'[q] = boot[q]
    BY <1>5 DEF Boot, linkVars, serverVars, TabsTypeOK
  <2>3. QED  BY <2>1, <2>2 DEF HelloInv
<1>6. ASSUME NEW p \in Tab, Opened(p) PROVE HelloInv'
  BY <1>6, HellosStay DEF Opened, serverVars
<1>7. ASSUME (\E c \in Link : OnMessage(c)) \/ NativeStep PROVE HelloInv'
  <2>1. UNCHANGED <<socket, boot, epoch>>
    BY <1>7 DEF OnMessage, NativeStep, Finish, CallBack, tabVars
  <2>2. CASE toTab' = toTab
    BY <2>1, <2>2, HellosStay
  <2>3. ASSUME NEW c \in Link, NEW f \in DownFrame, f.t # "hello", Reply(c, f) PROVE HelloInv'
    <3>1. \A d \in Link : toTab'[d] = toTab[d] \/ toTab'[d] = Append(toTab[d], f)
      <4>1. toTab' = toTab \/ toTab' = [toTab EXCEPT ![c] = Append(toTab[c], f)]
        BY <2>3, ReplyType
      <4>2. toTab \in [Link -> Seq(DownFrame)]
        BY DEF LinksTypeOK
      <4>3. QED  BY <4>1, <4>2
    <3>2. QED  BY <2>1, <2>3, <3>1, HellosStay
  <2>4. QED  BY <1>7, <2>2, <2>3, ServerSends
<1>8. ASSUME NEW c \in Link, SessionClosed(c) \/ Recycle(c) PROVE HelloInv'
  BY <1>8, HellosStay DEF SessionClosed, Recycle, tabVars, serverVars
<1>9. ASSUME NEW C, NEW n \in 0 .. Longest, toTab' = Cut(toTab, C, n),
             UNCHANGED <<socket, boot, epoch>>
      PROVE  HelloInv'
  <2>1. ASSUME NEW c \in Link
        PROVE  \E k \in 0 .. Len(toTab[c]) : toTab'[c] = SubSeq(toTab[c], 1, k)
    <3>1. toTab \in [Link -> Seq(DownFrame)]
      BY DEF LinksTypeOK
    <3>2. QED  BY <1>9, <3>1, CutKeepsFirst
  <2>2. QED  BY <1>9, <2>1, HellosStay
<1>10. ASSUME NEW c \in Link, Drop(c) PROVE HelloInv'
  <2>1. PICK C : C = {c}
    OBVIOUS
  <2>2. PICK n \in 0 .. Longest : toTab' = Cut(toTab, C, n)
    BY <1>10, <2>1 DEF Drop
  <2>3. QED  BY <1>9, <1>10, <2>2 DEF Drop, tabVars, serverVars
<1>11. ASSUME Stop PROVE HelloInv'
  <2>1. PICK n \in 0 .. Longest : toTab' = Cut(toTab, Link, n)
    BY <1>11 DEF Stop
  <2>2. QED  BY <1>9, <1>11, <2>1 DEF Stop, tabVars
<1>12. ASSUME Start PROVE HelloInv'
  <2>1. UNCHANGED <<socket, boot, toTab>> /\ epoch' = epoch + 1 /\ epoch \in Nat
    BY <1>12 DEF Start, tabVars, linkVars, ServerTypeOK
  <2>2. ASSUME NEW p \in Tab, socket[p] \in Link PROVE HellosFit(toTab[socket[p]], boot[p], epoch + 1)
    <3>1. toTab[socket[p]] \in Seq(DownFrame) /\ HellosFit(toTab[socket[p]], boot[p], epoch)
      BY <2>2 DEF HelloInv, LinksTypeOK
    <3>2. \A i \in 1 .. Len(toTab[socket[p]]) : toTab[socket[p]][i] \in DownFrame
      BY <3>1
    <3>3. \A e \in 1 .. MaxRestarts + 1 : e <= epoch => e <= epoch + 1
      BY <2>1, BridgeBounds
    <3>4. QED  BY <3>1, <3>2, <3>3, DownFrameKinds DEF HellosFit
  <2>3. QED  BY <2>1, <2>2 DEF HelloInv
<1>13. UNCHANGED vars => HelloInv'
  BY DEF vars, tabVars, linkVars, serverVars, HelloInv
<1>14. QED
  BY <1>1, <1>2, <1>3, <1>4, <1>5, <1>6, <1>7, <1>8, <1>10, <1>11, <1>12, <1>13
     DEF Next, PageEvent, ServerEvent

\* At the start no greeting is in flight.
LEMMA HelloInit == Init => HelloInv
BY BridgeBounds DEF Init, HelloInv

\* A tab begins to reload only when it booted against an older server.
LEMMA ReloadOfOlder ==
  ASSUME HelloInv, TypeOK, [Next]_vars, NEW p \in Tab, reloading'[p], ~reloading[p]
  PROVE  boot[p] # epoch
<1> TabsTypeOK /\ LinksTypeOK /\ ServerTypeOK
  BY DEF TypeOK
<1>1. CASE OnFrame(p)
  <2>1. PICK c \in Link : c = socket[p]
    BY <1>1 DEF OnFrame, TabsTypeOK
  <2>2. toTab[c] \in Seq(DownFrame) /\ toTab[c] # <<>>
    BY <1>1, <2>1 DEF OnFrame, LinksTypeOK
  <2>3. PICK f \in DownFrame : f = Head(toTab[c])
    BY <2>2, DropFrame
  <2>4. f = toTab[c][1] /\ 1 \in 1 .. Len(toTab[c])
    BY <2>2, <2>3, DropFrame
  <2>5. OnResponse(p, f) \/ OnHello(p, f) \/ OnCallbackRequest(p, f)
    BY <1>1, <2>1, <2>3 DEF OnFrame
  <2>6. OnHello(p, f) /\ f.epoch # boot[p]
    <3>1. ~OnResponse(p, f) /\ ~OnCallbackRequest(p, f)
      BY DEF OnResponse, OnCallbackRequest
    <3>2. QED  BY <2>5, <3>1 DEF OnHello, TabsTypeOK
  <2>7. boot[p] <= f.epoch /\ f.epoch <= epoch
    BY <2>1, <2>4, <2>6 DEF HelloInv, HellosFit, OnHello
  <2>8. boot[p] \in Nat /\ epoch \in Nat /\ f.epoch \in Nat
    BY <2>6, DownFrameKinds, BridgeBounds DEF OnHello, TabsTypeOK, ServerTypeOK
  <2>9. QED  BY <2>6, <2>7, <2>8
<1>2. ASSUME NEW q \in Tab, q # p, OnFrame(q) PROVE FALSE
  <2>1. reloading'[p] = reloading[p]
    BY <1>2 DEF OnFrame, OnResponse, OnHello, OnCallbackRequest, TabsTypeOK
  <2>2. QED  BY <2>1
<1>3. ASSUME NEW q \in Tab, Reload(q) PROVE FALSE
  <2>1. reloading'[p] = IF q = p THEN FALSE ELSE reloading[p]
    BY <1>3 DEF Reload, TabsTypeOK
  <2>2. QED  BY <2>1
<1>4. ASSUME NEW q \in Tab, Page(q) PROVE FALSE
  BY <1>4 DEF Page, Invoke, ReleaseHandle, SyncMint
<1>5. ASSUME NEW q \in Tab,
             \/ \E x \in called[q] : AnswerCallback(q, x)
             \/ Opened(q) \/ Closed(q) \/ Boot(q) \/ \E c \in Link : Connect(q, c)
      PROVE  FALSE
  BY <1>5 DEF AnswerCallback, Opened, Closed, Boot, Connect
<1>6. ASSUME NEW c \in Link, ServerEvent(c) \/ Drop(c) \/ Recycle(c) PROVE FALSE
  BY <1>6 DEF ServerEvent, OnMessage, SessionClosed, Drop, Recycle, tabVars
<1>7. ~NativeStep /\ ~Stop /\ ~Start /\ ~UNCHANGED vars
  BY DEF NativeStep, Finish, CallBack, Stop, Start, vars, tabVars
<1>8. QED  BY <1>1, <1>2, <1>3, <1>4, <1>5, <1>6, <1>7 DEF Next, PageEvent

\* "A fresh load always matches, so this can't loop": only a page served by an older process
\* starts to reload, whatever hellos are in flight (client.web.ts #onServerHello).
THEOREM FreshPagesDoNotReload == Spec => NoReloadLoop
<1>1. TypeOK /\ Ends /\ [Next]_vars => Ends'
  BY EndsStep
<1>2. TypeOK /\ Ends /\ HelloInv /\ [Next]_vars => HelloInv'
  BY HelloStep
<1>3. TypeOK /\ HelloInv /\ [Next]_vars =>
        [\A p \in Tab : reloading'[p] /\ ~reloading[p] => boot[p] # epoch]_vars
  BY ReloadOfOlder
<1>4. QED
  BY <1>1, <1>2, <1>3, EndsInit, HelloInit, BridgeTypeCorrect, PTL DEF Spec, NoReloadLoop

-----------------------------------------------------------------------------
(* No promise of invoke() is forgotten. *)

\* No frames, no elements.
LEMMA RangeOfNone == Range(<<>>) = {}
BY DEF Range

\* One more frame is one more element.
LEMMA RangeAdd ==
  ASSUME NEW S, NEW s \in Seq(S), NEW f \in S
  PROVE  Range(Append(s, f)) = Range(s) \cup {f}
<1> DEFINE u == Append(s, f)
<1>1. /\ Len(s) \in Nat /\ Len(u) = Len(s) + 1 /\ u[Len(s) + 1] = f /\ u \in Seq(S)
      /\ \A i \in 1 .. Len(s) : u[i] = s[i]
  BY AddFrame
<1>2. DOMAIN s = 1 .. Len(s) /\ DOMAIN u = 1 .. Len(u)
  BY <1>1
<1> HIDE DEF u
<1>3. \A i \in 1 .. Len(u) : i \in 1 .. Len(s) \/ i = Len(s) + 1
  BY <1>1
<1>4. Range(u) \subseteq Range(s) \cup {f}
  BY <1>1, <1>2, <1>3 DEF Range
<1>5. (\A i \in 1 .. Len(s) : i \in 1 .. Len(u)) /\ Len(s) + 1 \in 1 .. Len(u)
  BY <1>1
<1>6. Range(s) \subseteq Range(u)
  BY <1>1, <1>2, <1>5 DEF Range
<1>7. f \in Range(u)
  BY <1>1, <1>2, <1>5 DEF Range
<1>8. QED  BY <1>4, <1>6, <1>7 DEF u

\* Joined queues hold the frames of both.
LEMMA RangeJoin ==
  ASSUME NEW S, NEW s \in Seq(S), NEW u \in Seq(S)
  PROVE  Range(s \o u) = Range(s) \cup Range(u)
<1> DEFINE v == s \o u
<1>1. /\ Len(s) \in Nat /\ Len(u) \in Nat /\ Len(v) = Len(s) + Len(u) /\ v \in Seq(S)
      /\ \A i \in 1 .. Len(s) : v[i] = s[i]
      /\ \A i \in 1 .. Len(u) : v[Len(s) + i] = u[i]
  BY JoinFrames
<1>2. DOMAIN s = 1 .. Len(s) /\ DOMAIN u = 1 .. Len(u) /\ DOMAIN v = 1 .. Len(v)
  BY <1>1
<1> HIDE DEF v
<1>3. \A i \in 1 .. Len(s) : i \in 1 .. Len(v)
  BY <1>1
<1>4. \A i \in 1 .. Len(u) : Len(s) + i \in 1 .. Len(v)
  BY <1>1
<1>5. Range(s) \subseteq Range(v)
  BY <1>1, <1>2, <1>3 DEF Range
<1>6. Range(u) \subseteq Range(v)
  BY <1>1, <1>2, <1>4 DEF Range
<1>7. ASSUME NEW i \in 1 .. Len(v) PROVE v[i] \in Range(s) \cup Range(u)
  <2>1. CASE i <= Len(s)
    <3>1. i \in 1 .. Len(s)
      BY <1>1, <2>1
    <3>2. QED  BY <1>1, <1>2, <3>1 DEF Range
  <2>2. CASE i > Len(s)
    <3>1. i - Len(s) \in 1 .. Len(u) /\ i = Len(s) + (i - Len(s))
      BY <1>1, <2>2
    <3>2. v[Len(s) + (i - Len(s))] = u[i - Len(s)]
      BY <1>1, <3>1
    <3>3. v[i] = u[i - Len(s)]
      BY <3>1, <3>2
    <3>4. QED  BY <1>2, <3>1, <3>3 DEF Range
  <2>3. QED  BY <1>1, <2>1, <2>2
<1>8. Range(v) \subseteq Range(s) \cup Range(u)
  BY <1>2, <1>7 DEF Range
<1>9. QED  BY <1>5, <1>6, <1>8 DEF v

\* A queue holds its head and those of its rest.
LEMMA RangeRest ==
  ASSUME NEW S, NEW s \in Seq(S), s # <<>>
  PROVE  Range(s) = Range(Tail(s)) \cup {Head(s)}
<1> DEFINE u == Tail(s)
<1>1. /\ Len(s) \in Nat /\ Len(s) >= 1 /\ Len(u) = Len(s) - 1 /\ Head(s) = s[1] /\ u \in Seq(S)
      /\ \A i \in 1 .. Len(s) - 1 : u[i] = s[i + 1]
  BY DropFrame
<1>2. DOMAIN s = 1 .. Len(s) /\ DOMAIN u = 1 .. Len(u)
  BY <1>1
<1> HIDE DEF u
<1>3. \A i \in 1 .. Len(u) : i + 1 \in 1 .. Len(s) /\ u[i] = s[i + 1]
  BY <1>1
<1>4. Range(u) \subseteq Range(s) /\ Head(s) \in Range(s)
  <2>1. 1 \in 1 .. Len(s)
    BY <1>1
  <2>2. Head(s) \in Range(s)
    BY <1>1, <1>2, <2>1 DEF Range
  <2>3. Range(u) \subseteq Range(s)
    BY <1>2, <1>3 DEF Range
  <2>4. QED  BY <2>2, <2>3
<1>5. ASSUME NEW i \in 1 .. Len(s), i # 1 PROVE s[i] \in Range(u)
  <2>1. i - 1 \in 1 .. Len(u) /\ (i - 1) + 1 = i
    BY <1>1, <1>5
  <2>2. u[i - 1] = s[i]
    BY <1>3, <2>1
  <2>3. QED  BY <1>2, <2>1, <2>2 DEF Range
<1>6. Range(s) \subseteq Range(u) \cup {Head(s)}
  BY <1>1, <1>2, <1>5 DEF Range
<1>7. QED  BY <1>4, <1>6 DEF u

\* The first frames are frames of the queue.
LEMMA RangePart ==
  ASSUME NEW S, NEW s \in Seq(S), NEW k \in 0 .. Len(s)
  PROVE  Range(SubSeq(s, 1, k)) \subseteq Range(s)
<1> DEFINE u == SubSeq(s, 1, k)
<1>1. u \in Seq(S) /\ Len(u) = k /\ \A i \in 1 .. k : u[i] = s[i] /\ i \in 1 .. Len(s)
  BY KeepFirst
<1>2. DOMAIN s = 1 .. Len(s) /\ DOMAIN u = 1 .. Len(u)
  BY <1>1
<1> HIDE DEF u
<1>3. Range(u) \subseteq Range(s)
  BY <1>1, <1>2 DEF Range
<1>4. QED  BY <1>3 DEF u

Mine(p, n, f) == f.t = "req" /\ Name(f) = [tab |-> p, gen |-> gen[p], id |-> n]

\* Where the request n of page p, or its answer, is.
Carried(p, n) ==
  LET c == socket[p]
  IN \/ \E f \in Range(queue[p]) : Mine(p, n, f)
     \/ /\ c \in Link
        /\ \/ \E f \in Range(toServer[c]) : Mine(p, n, f)
           \/ \E x \in tasks : x.link = c /\ Mine(p, n, x.req)
           \/ \E f \in Range(toTab[c]) : f.t = "res" /\ f.id = n
           \/ link[c] \in Gone

\* Every number a page waits for was used and is carried.
AllCarried == \A p \in Tab : \A n \in pending[p] : n < nextId[p] /\ Carried(p, n)

\* A request on its way that the page waits for is of the kind that is answered.
AwaitedAnswered ==
  \A s \in Source : \A f \in Range(Box(s)) :
    f.t = "req" /\ f.gen = gen[f.tab] /\ f.id \in pending[f.tab] => Answered(f.op)

AwaitInv == AllCarried /\ AwaitedAnswered

\* What keeps a request carried.
LEMMA CarriedKept ==
  ASSUME NEW p \in Tab, NEW n, Carried(p, n),
         gen'[p] = gen[p], socket'[p] = socket[p],
         Range(queue[p]) \subseteq Range(queue'[p]),
         socket[p] \in Link =>
           /\ Range(toServer[socket[p]]) \subseteq Range(toServer'[socket[p]])
           /\ \A x \in tasks : \E y \in tasks' : y.link = x.link /\ y.req = x.req
           /\ Range(toTab[socket[p]]) \subseteq Range(toTab'[socket[p]])
           /\ link[socket[p]] \in Gone => link'[socket[p]] \in Gone
  PROVE  Carried(p, n)'
<1>1. \A f : Mine(p, n, f) => Mine(p, n, f)'
  BY DEF Mine, Name
<1>2. CASE \E f \in Range(queue[p]) : Mine(p, n, f)
  BY <1>1, <1>2 DEF Carried
<1>3. CASE socket[p] \in Link /\ \E f \in Range(toServer[socket[p]]) : Mine(p, n, f)
  BY <1>1, <1>3 DEF Carried
<1>4. CASE socket[p] \in Link /\ \E x \in tasks : x.link = socket[p] /\ Mine(p, n, x.req)
  <2>1. PICK x \in tasks : x.link = socket[p] /\ Mine(p, n, x.req)
    BY <1>4
  <2>2. PICK y \in tasks' : y.link = x.link /\ y.req = x.req
    BY <1>4
  <2>3. Mine(p, n, y.req)'
    BY <1>1, <2>1, <2>2
  <2>4. QED  BY <1>4, <2>1, <2>2, <2>3 DEF Carried
<1>5. CASE socket[p] \in Link /\ \E f \in Range(toTab[socket[p]]) : f.t = "res" /\ f.id = n
  BY <1>5 DEF Carried
<1>6. CASE socket[p] \in Link /\ link[socket[p]] \in Gone
  BY <1>6 DEF Carried
<1>7. QED  BY <1>2, <1>3, <1>4, <1>5, <1>6 DEF Carried

\* Pages stop waiting, frames are read or lost.
LEMMA AnsweredKept ==
  ASSUME AwaitedAnswered,
         \A s \in Source : \A f \in Range(Box(s)') :
           (\E u \in Source : f \in Range(Box(u))) \/ f.t # "req",
         \A f : (\E s \in Source : f \in Range(Box(s)')) /\ f.t = "req" => f.tab \in Tab,
         \A q \in Tab : pending'[q] = {} \/ (gen'[q] = gen[q] /\ pending'[q] \subseteq pending[q])
  PROVE  AwaitedAnswered'
<1> SUFFICES ASSUME NEW s \in Source, NEW f \in Range(Box(s)'),
                    f.t = "req", f.gen = gen'[f.tab], f.id \in pending'[f.tab]
             PROVE  Answered(f.op)
  BY DEF AwaitedAnswered, Answered
<1>1. f.tab \in Tab /\ gen'[f.tab] = gen[f.tab] /\ f.id \in pending[f.tab]
  OBVIOUS
<1>2. PICK u \in Source : f \in Range(Box(u))
  OBVIOUS
<1>3. QED  BY <1>1, <1>2 DEF AwaitedAnswered

\* A frame in a box is typed, and a request there is named there.
LEMMA BoxFrames ==
  ASSUME TypeOK, NEW s \in Source, NEW f \in Range(Box(s))
  PROVE  f \in UpFrame /\ (f.t = "req" => f \in RequestType /\ f.tab \in Tab /\ Name(f) \in Names(Box(s)))
<1>1. Box(s) \in Seq(UpFrame)
  BY BoxTyped
<1>2. PICK i \in 1 .. Len(Box(s)) : f = Box(s)[i]
  BY <1>1 DEF Range
<1>3. f \in UpFrame
  BY <1>1, <1>2
<1>4. f.t = "req" => f \in RequestType /\ f.tab \in Tab
  BY <1>3, UpFrameKinds DEF RequestType
<1>5. f.t = "req" => Name(f) \in Names(Box(s))
  BY <1>2 DEF Names, IsReq
<1>6. QED  BY <1>3, <1>4, <1>5

\* A page sends a frame: all that was on its way still is, and the new frame too, unless
\* its socket is broken.
LEMMA AwaitSend ==
  ASSUME AwaitInv, TypeOK, NEW p \in Tab, NEW f \in UpFrame, SendFrame(p, f),
         UNCHANGED <<gen, socket, link, toTab, tasks>>
  PROVE  /\ \A q \in Tab, n \in Nat : Carried(q, n) => Carried(q, n)'
         /\ \/ f \in Range(queue'[p])
            \/ socket[p] \in Link /\ f \in Range(toServer'[socket[p]])
            \/ socket[p] \in Link /\ link[socket[p]] \in Gone
         /\ \A s \in Source : Range(Box(s)') \subseteq Range(Box(s)) \cup {f}
<1>1. toServer \in [Link -> Seq(UpFrame)] /\ queue \in [Tab -> Seq(UpFrame)]
  BY DEF TypeOK, TabsTypeOK, LinksTypeOK
<1>2. /\ \A q \in Tab : queue'[q] = queue[q] \/ (q = p /\ queue'[q] = Append(queue[q], f))
      /\ \A c \in Link : toServer'[c] = toServer[c] \/ toServer'[c] = Append(toServer[c], f)
      /\ \/ queue'[p] = Append(queue[p], f)
         \/ socket[p] \in Link /\ toServer'[socket[p]] = Append(toServer[socket[p]], f)
         \/ socket[p] \in Link /\ link[socket[p]] = "broken"
  <2>1. CASE /\ socket[p] \in Link /\ queue' = queue
             /\ toServer' = [toServer EXCEPT ![socket[p]] = Append(toServer[socket[p]], f)]
    BY <1>1, <2>1
  <2>2. CASE toServer' = toServer /\ queue' = [queue EXCEPT ![p] = Append(queue[p], f)]
    BY <1>1, <2>2
  <2>3. CASE /\ UNCHANGED <<toServer, queue>>
             /\ socket[p] \in Link /\ link[socket[p]] = "broken"
    BY <2>3
  <2>4. QED  BY <2>1, <2>2, <2>3, SendFrameFacts
<1>3. ASSUME NEW q \in Tab
      PROVE  /\ Range(queue[q]) \subseteq Range(queue'[q])
             /\ Range(queue'[q]) \subseteq Range(queue[q]) \cup {f}
  <2>1. queue[q] \in Seq(UpFrame) /\ (queue'[q] = queue[q] \/ queue'[q] = Append(queue[q], f))
    BY <1>1, <1>2
  <2>2. Range(Append(queue[q], f)) = Range(queue[q]) \cup {f}
    BY <2>1, RangeAdd
  <2>3. QED  BY <2>1, <2>2
<1>4. ASSUME NEW c \in Link
      PROVE  /\ Range(toServer[c]) \subseteq Range(toServer'[c])
             /\ Range(toServer'[c]) \subseteq Range(toServer[c]) \cup {f}
  <2>1. toServer[c] \in Seq(UpFrame) /\ (toServer'[c] = toServer[c] \/ toServer'[c] = Append(toServer[c], f))
    BY <1>1, <1>2
  <2>2. Range(Append(toServer[c], f)) = Range(toServer[c]) \cup {f}
    BY <2>1, RangeAdd
  <2>3. QED  BY <2>1, <2>2
<1>5. ASSUME NEW q \in Tab, NEW n \in Nat, Carried(q, n) PROVE Carried(q, n)'
  BY <1>3, <1>4, <1>5, CarriedKept
<1>6. \/ f \in Range(queue'[p])
      \/ socket[p] \in Link /\ f \in Range(toServer'[socket[p]])
      \/ socket[p] \in Link /\ link[socket[p]] \in Gone
  <2>1. CASE queue'[p] = Append(queue[p], f)
    BY <1>1, <2>1, RangeAdd
  <2>2. CASE socket[p] \in Link /\ toServer'[socket[p]] = Append(toServer[socket[p]], f)
    BY <1>1, <2>2, RangeAdd
  <2>3. CASE socket[p] \in Link /\ link[socket[p]] = "broken"
    BY <2>3 DEF Gone
  <2>4. QED  BY <1>2, <2>1, <2>2, <2>3
<1>7. \A s \in Source : Range(Box(s)') \subseteq Range(Box(s)) \cup {f}
  BY <1>3, <1>4 DEF Box, Source
<1>8. QED  BY <1>5, <1>6, <1>7

\* A frame that is no request changes nothing a promise waits for.
LEMMA AwaitOther ==
  ASSUME AwaitInv, TypeOK, NEW p \in Tab, NEW f \in UpFrame, f.t # "req", SendFrame(p, f),
         UNCHANGED <<gen, socket, link, toTab, tasks, pending, nextId>>
  PROVE  AwaitInv'
<1>1. pending \in [Tab -> SUBSET (1 .. MaxRequests)] /\ MaxRequests \in Nat
  BY BridgeBounds DEF TypeOK, TabsTypeOK
<1>2. AllCarried'
  BY <1>1, AwaitSend DEF AwaitInv, AllCarried
<1>3. AwaitedAnswered'
  <2>1. \A s \in Source : \A g \in Range(Box(s)') : (\E u \in Source : g \in Range(Box(u))) \/ g.t # "req"
    BY AwaitSend
  <2>2. \A g : (\E s \in Source : g \in Range(Box(s)')) /\ g.t = "req" => g.tab \in Tab
    BY <2>1, BoxFrames
  <2>3. QED  BY <2>1, <2>2, AnsweredKept DEF AwaitInv
<1>4. QED  BY <1>2, <1>3 DEF AwaitInv

\* A new call is carried by its tab's queue or link.
LEMMA AwaitInvoke ==
  ASSUME AwaitInv, OnceInv, TypeOK, NEW p \in Tab, NEW op \in Ops \ {"sync"},
         NEW h \in held[p] \cup {NoHandle}, Invoke(p, op, h)
  PROVE  AwaitInv'
<1>0. PICK f : f = Req(p, op, h)
  OBVIOUS
<1>1. f \in RequestType /\ f \in UpFrame /\ SendFrame(p, f)
  BY <1>0, PageFrames DEF Invoke
<1>2. /\ f.t = "req" /\ f.tab = p /\ f.gen = gen[p] /\ f.id = nextId[p] /\ f.op = op
      /\ Name(f) = [tab |-> p, gen |-> gen[p], id |-> nextId[p]]
  BY <1>0 DEF Req, Name
<1>3. /\ pending \in [Tab -> SUBSET (1 .. MaxRequests)] /\ nextId \in [Tab -> 1 .. MaxRequests + 1]
      /\ gen \in [Tab -> Nat \ {0}] /\ MaxRequests \in Nat
  BY BridgeBounds DEF TypeOK, TabsTypeOK
<1>4. UNCHANGED <<gen, socket, link, toTab, tasks>>
  BY DEF Invoke, serverVars
<1>5. /\ nextId'[p] = nextId[p] + 1 /\ nextId[p] \in Nat
      /\ \A q \in Tab : q # p => nextId'[q] = nextId[q] /\ pending'[q] = pending[q]
      /\ pending'[p] = IF Answered(op) THEN pending[p] \cup {nextId[p]} ELSE pending[p]
  BY <1>3 DEF Invoke
<1>6. \A q \in Tab, n \in Nat : Carried(q, n) => Carried(q, n)'
  BY <1>1, <1>4, AwaitSend
<1>7. ASSUME NEW n, n = nextId[p] PROVE Carried(p, n)'
  <2>1. f.t = "req" /\ Name(f) = [tab |-> p, gen |-> gen'[p], id |-> n]
    BY <1>2, <1>4, <1>7
  <2>2. CASE f \in Range(queue'[p])
    BY <2>1, <2>2 DEF Carried, Mine, Name
  <2>3. CASE socket'[p] \in Link /\ f \in Range(toServer'[socket'[p]])
    BY <2>1, <2>3 DEF Carried, Mine, Name
  <2>4. CASE socket'[p] \in Link /\ link'[socket'[p]] \in Gone
    BY <2>4 DEF Carried
  <2>5. \/ f \in Range(queue'[p])
        \/ socket[p] \in Link /\ f \in Range(toServer'[socket[p]])
        \/ socket[p] \in Link /\ link[socket[p]] \in Gone
    BY <1>1, <1>4, AwaitSend
  <2>6. QED  BY <1>4, <2>2, <2>3, <2>4, <2>5
<1>8. AllCarried'
  <2>1. ASSUME NEW q \in Tab, NEW n \in pending'[q] PROVE n < nextId'[q] /\ Carried(q, n)'
    <3>1. CASE n \in pending[q]
      <4>1. n \in Nat /\ n < nextId[q] /\ Carried(q, n)
        BY <1>3, <3>1 DEF AwaitInv, AllCarried
      <4>2. n < nextId'[q]
        BY <1>3, <1>5, <4>1
      <4>3. QED  BY <1>6, <4>1, <4>2
    <3>2. CASE q = p /\ n = nextId[p]
      <4>1. n < nextId'[q]
        BY <1>5, <3>2
      <4>2. Carried(p, n)'
        BY <1>7, <3>2
      <4>3. QED  BY <3>2, <4>1, <4>2
    <3>3. QED  BY <1>5, <3>1, <3>2
  <2>2. QED  BY <2>1 DEF AllCarried
<1>9. AwaitedAnswered'
  <2> SUFFICES ASSUME NEW s \in Source, NEW g \in Range(Box(s)'),
                      g.t = "req", g.gen = gen'[g.tab], g.id \in pending'[g.tab]
               PROVE  Answered(g.op)
    BY DEF AwaitedAnswered, Answered
  <2>1. CASE g = f
    <3>1. nextId[p] \notin pending[p]
      BY <1>5 DEF AwaitInv, AllCarried
    <3>2. QED  BY <1>2, <1>5, <2>1, <3>1
  <2>2. CASE g \in Range(Box(s))
    <3>1. g \in RequestType /\ g.tab \in Tab /\ Name(g) \in Names(Box(s))
      BY <2>2, BoxFrames
    <3>2. Used(Name(g))
      BY <3>1 DEF OnceInv, AllUsed
    <3>3. g.gen = gen[g.tab]
      BY <1>4
    <3>4. g.id < nextId[g.tab]
      BY <1>3, <3>1, <3>2, <3>3 DEF Used, Name
    <3>5. g.id \in pending[g.tab]
      BY <1>5, <3>1, <3>4
    <3>6. QED  BY <2>2, <3>3, <3>5 DEF AwaitInv, AwaitedAnswered
  <2>3. QED  BY <1>1, <1>4, <2>1, <2>2, AwaitSend
<1>10. QED  BY <1>8, <1>9 DEF AwaitInv

\* Steps of the links, the server and other pages that leave queues and numbers alone.
LEMMA AwaitKept ==
  ASSUME AwaitInv, TypeOK, UNCHANGED <<queue, gen, socket, nextId>>,
         \A c \in Link : toServer'[c] = toServer[c],
         \A q \in Tab : pending'[q] \subseteq pending[q],
         \A q \in Tab : \A n \in pending'[q] : Carried(q, n) => Carried(q, n)'
  PROVE  AwaitInv'
<1>1. AllCarried'
  BY DEF AwaitInv, AllCarried
<1>2. AwaitedAnswered'
  <2>1. \A s \in Source : Box(s)' = Box(s)
    BY DEF Box, Source
  <2>2. \A g : (\E s \in Source : g \in Range(Box(s)')) /\ g.t = "req" => g.tab \in Tab
    BY <2>1, BoxFrames
  <2>3. QED  BY <2>1, <2>2, AnsweredKept DEF AwaitInv
<1>3. QED  BY <1>1, <1>2 DEF AwaitInv

\* The socket opens: what was queued is under way.
LEMMA AwaitOpened ==
  ASSUME AwaitInv, TypeOK, NEW p \in Tab, Opened(p)
  PROVE  AwaitInv'
<1>1. PICK c \in Link : c = socket[p]
  BY DEF Opened, TypeOK, TabsTypeOK
<1>2. /\ toServer \in [Link -> Seq(UpFrame)] /\ queue \in [Tab -> Seq(UpFrame)]
      /\ link \in [Link -> {"free", "opening", "up", "refused", "broken"}]
      /\ socket \in [Tab -> Link \cup {NoLink}] /\ c \notin Tab
  BY BridgeBounds DEF TypeOK, TabsTypeOK, LinksTypeOK
<1>3. /\ UNCHANGED <<gen, socket, nextId, pending, toTab, tasks>>
      /\ toServer' = [toServer EXCEPT ![c] = toServer[c] \o queue[p]]
      /\ queue' = [queue EXCEPT ![p] = <<>>] /\ link' = [link EXCEPT ![c] = "up"] /\ link[c] = "opening"
  BY <1>1 DEF Opened, Flush, serverVars
<1>4. Range(toServer'[c]) = Range(toServer[c]) \cup Range(queue[p])
  <2>1. toServer'[c] = toServer[c] \o queue[p] /\ toServer[c] \in Seq(UpFrame) /\ queue[p] \in Seq(UpFrame)
    BY <1>2, <1>3
  <2>2. QED  BY <2>1, RangeJoin
<1>5. /\ \A d \in Link : d # c => toServer'[d] = toServer[d]
      /\ \A d \in Link : link[d] \in Gone => link'[d] \in Gone
  BY <1>2, <1>3 DEF Gone
<1>6. ASSUME NEW q \in Tab, NEW n, Carried(q, n), q # p PROVE Carried(q, n)'
  <2>1. queue'[q] = queue[q]
    BY <1>2, <1>3, <1>6
  <2>2. socket[q] \in Link => Range(toServer[socket[q]]) \subseteq Range(toServer'[socket[q]])
    BY <1>4, <1>5
  <2>3. QED  BY <1>3, <1>5, <1>6, <2>1, <2>2, CarriedKept
<1>7. ASSUME NEW n, Carried(p, n) PROVE Carried(p, n)'
  <2>1. CASE \E f \in Range(queue[p]) : Mine(p, n, f)
    <3>1. PICK f \in Range(queue[p]) : Mine(p, n, f)
      BY <2>1
    <3>2. f \in Range(toServer'[socket'[p]]) /\ socket'[p] \in Link
      BY <1>1, <1>3, <1>4, <3>1
    <3>3. QED  BY <1>3, <3>1, <3>2 DEF Carried, Mine, Name
  <2>2. CASE \E f \in Range(toServer[c]) : Mine(p, n, f)
    <3>1. PICK f \in Range(toServer[c]) : Mine(p, n, f)
      BY <2>2
    <3>2. f \in Range(toServer'[socket'[p]]) /\ socket'[p] \in Link
      BY <1>1, <1>3, <1>4, <3>1
    <3>3. QED  BY <1>3, <3>1, <3>2 DEF Carried, Mine, Name
  <2>3. CASE \E x \in tasks : x.link = c /\ Mine(p, n, x.req)
    BY <1>1, <1>3, <2>3 DEF Carried, Mine, Name
  <2>4. CASE \E f \in Range(toTab[c]) : f.t = "res" /\ f.id = n
    BY <1>1, <1>3, <2>4 DEF Carried
  <2>5. link[c] \notin Gone
    BY <1>3 DEF Gone
  <2>6. QED  BY <1>1, <1>7, <2>1, <2>2, <2>3, <2>4, <2>5 DEF Carried
<1>8. AllCarried'
  BY <1>3, <1>6, <1>7 DEF AwaitInv, AllCarried
<1>9. AwaitedAnswered'
  <2>1. ASSUME NEW s \in Source PROVE \A f \in Range(Box(s)') : \E u \in Source : f \in Range(Box(u))
    <3>1. CASE s = c
      <4>1. Box(s)' = toServer'[c] /\ Box(c) = toServer[c] /\ Box(p) = queue[p] /\ p \in Source
        BY <1>2, <3>1 DEF Box, Source
      <4>2. QED  BY <1>4, <2>1, <3>1, <4>1
    <3>2. CASE s \in Link /\ s # c
      BY <1>5, <3>2, BridgeBounds DEF Box, Source
    <3>3. CASE s \in Tab /\ s # p
      <4>1. queue'[s] = queue[s]
        BY <1>2, <1>3, <3>3
      <4>2. QED  BY <2>1, <3>3, <4>1 DEF Box
    <3>4. CASE s = p
      <4>1. Box(s)' = <<>>
        BY <1>2, <1>3, <3>4 DEF Box
      <4>2. Range(Box(s)') = {}
        BY <4>1, RangeOfNone
      <4>3. QED  BY <4>2
    <3>5. QED  BY <3>1, <3>2, <3>3, <3>4 DEF Source
  <2>2. \A g : (\E s \in Source : g \in Range(Box(s)')) /\ g.t = "req" => g.tab \in Tab
    BY <2>1, BoxFrames
  <2>3. QED  BY <1>3, <2>1, <2>2, AnsweredKept DEF AwaitInv
<1>10. QED  BY <1>8, <1>9 DEF AwaitInv

\* A connection carries on what the queue carried.
LEMMA AwaitConnect ==
  ASSUME AwaitInv, Ends, TypeOK, NEW p \in Tab, NEW c \in Link, Connect(p, c)
  PROVE  AwaitInv'
<1>1. /\ socket \in [Tab -> Link \cup {NoLink}] /\ NoLink \notin Link /\ toTab \in [Link -> Seq(DownFrame)]
      /\ link \in [Link -> {"free", "opening", "up", "refused", "broken"}]
  BY BridgeBounds DEF TypeOK, TabsTypeOK, LinksTypeOK
<1>2. /\ UNCHANGED <<gen, nextId, pending, queue, toServer, tasks>>
      /\ socket[p] = NoLink /\ link[c] = "free" /\ socket' = [socket EXCEPT ![p] = c]
      /\ \A d \in Link : d # c => toTab'[d] = toTab[d] /\ link'[d] = link[d]
  BY <1>1 DEF Connect, serverVars
<1>3. ASSUME NEW q \in Tab, NEW n, Carried(q, n) PROVE Carried(q, n)'
  <2>1. CASE q # p
    <3>1. socket'[q] = socket[q] /\ socket[q] # c
      BY <1>1, <1>2, <2>1, OwnSocket
    <3>2. QED  BY <1>2, <1>3, <3>1, CarriedKept
  <2>2. CASE q = p
    <3>1. PICK f \in Range(queue[q]) : Mine(q, n, f)
      BY <1>1, <1>2, <1>3, <2>2 DEF Carried
    <3>2. QED  BY <1>2, <3>1 DEF Carried, Mine, Name
  <2>3. QED  BY <2>1, <2>2
<1>4. AllCarried'
  BY <1>2, <1>3 DEF AwaitInv, AllCarried
<1>5. AwaitedAnswered'
  <2>1. \A s \in Source : Box(s)' = Box(s)
    BY <1>2 DEF Box, Source
  <2>2. \A g : (\E s \in Source : g \in Range(Box(s)')) /\ g.t = "req" => g.tab \in Tab
    BY <2>1, BoxFrames
  <2>3. QED  BY <1>2, <2>1, <2>2, AnsweredKept DEF AwaitInv
<1>6. QED  BY <1>4, <1>5 DEF AwaitInv

\* The page lets go of its socket and of all it waits for.
LEMMA AwaitLetGo ==
  ASSUME AwaitInv, Ends, TypeOK, NEW p \in Tab, Closed(p) \/ Reload(p)
  PROVE  AwaitInv'
<1>1. /\ queue \in [Tab -> Seq(UpFrame)] /\ toServer \in [Link -> Seq(UpFrame)]
      /\ toTab \in [Link -> Seq(DownFrame)] /\ pending \in [Tab -> SUBSET (1 .. MaxRequests)]
      /\ gen \in [Tab -> Nat \ {0}] /\ nextId \in [Tab -> 1 .. MaxRequests + 1]
      /\ socket \in [Tab -> Link \cup {NoLink}] /\ LinksTypeOK
  BY DEF TypeOK, TabsTypeOK, LinksTypeOK
<1>2. /\ pending'[p] = {} /\ tasks' = tasks /\ queue'[p] \in {queue[p], <<>>}
      /\ \A q \in Tab : q # p => /\ pending'[q] = pending[q] /\ gen'[q] = gen[q] /\ socket'[q] = socket[q]
                                 /\ nextId'[q] = nextId[q] /\ queue'[q] = queue[q]
  BY <1>1 DEF Closed, RejectAll, Reload, serverVars
<1>3. ASSUME NEW d \in Link, d # socket[p]
      PROVE  toServer'[d] = toServer[d] /\ toTab'[d] = toTab[d] /\ link'[d] = link[d]
  <2>1. CASE Closed(p)
    BY <1>1, <1>3, <2>1 DEF Closed
  <2>2. CASE Reload(p)
    <3>1. PICK C : C = {socket[p]}
      OBVIOUS
    <3>2. PICK n \in 0 .. Longest : toServer' = Cut(toServer, C, n)
      BY <2>2, <3>1 DEF Reload
    <3>3. toServer'[d] = toServer[d]
      <4>1. toServer \in [Link -> Seq(UpFrame)] /\ d \notin C
        BY <1>1, <1>3, <3>1
      <4>2. \A c \in Link : c \notin C => Cut(toServer, C, n)[c] = toServer[c]
        BY <3>2, <4>1, CutFacts
      <4>3. QED  BY <3>2, <4>1, <4>2
    <3>4. toTab' = Cut(toTab, C, 0) /\ d \notin C /\ toTab \in [Link -> Seq(DownFrame)]
      BY <1>1, <1>3, <2>2, <3>1 DEF Reload
    <3>5. toTab'[d] = toTab[d]
      BY <3>4, CutAll
    <3>6. link' = Down(C) /\ d \notin C
      BY <1>3, <2>2, <3>1 DEF Reload
    <3>7. link'[d] = link[d]
      BY <1>1, <3>6, DownFacts
    <3>8. QED  BY <3>3, <3>5, <3>7
  <2>3. QED  BY <2>1, <2>2
<1>4. ASSUME NEW q \in Tab, q # p, NEW n, Carried(q, n) PROVE Carried(q, n)'
  <2>1. socket[q] \in Link => socket[q] # socket[p]
    BY <1>4, OwnSocket
  <2>2. socket[q] \in Link => /\ toServer'[socket[q]] = toServer[socket[q]]
                              /\ toTab'[socket[q]] = toTab[socket[q]] /\ link'[socket[q]] = link[socket[q]]
    BY <1>3, <2>1
  <2>3. QED  BY <1>2, <1>4, <2>2, CarriedKept
<1>5. AllCarried'
  <2>1. ASSUME NEW q \in Tab, NEW n \in pending'[q] PROVE n < nextId'[q] /\ Carried(q, n)'
    BY <1>2, <1>4, <2>1 DEF AwaitInv, AllCarried
  <2>2. QED  BY <2>1 DEF AllCarried
<1>6. AwaitedAnswered'
  <2>1. ASSUME NEW s \in Source PROVE Range(Box(s)') \subseteq Range(Box(s))
    <3>1. CASE s \in Tab
      <4>1. Range(<<>>) = {}
        BY RangeOfNone
      <4>2. Box(s)' = Box(s) \/ Box(s)' = <<>>
        BY <1>2, <3>1 DEF Box
      <4>3. QED  BY <4>1, <4>2
    <3>2. CASE s \in Link
      <4>1. Box(s) = toServer[s] /\ Box(s)' = toServer'[s] /\ toServer[s] \in Seq(UpFrame)
        BY <1>1, <3>2, BridgeBounds DEF Box
      <4>2. toServer' = toServer \/ \E C : \E n \in 0 .. Longest : toServer' = Cut(toServer, C, n)
        <5>1. CASE Closed(p)
          BY <5>1 DEF Closed
        <5>2. CASE Reload(p)
          <6>1. PICK C : C = {socket[p]}
            OBVIOUS
          <6>2. PICK n \in 0 .. Longest : toServer' = Cut(toServer, C, n)
            BY <5>2, <6>1 DEF Reload
          <6>3. QED  BY <6>2
        <5>3. QED  BY <5>1, <5>2
      <4>3. CASE toServer' = toServer
        BY <4>1, <4>3
      <4>4. ASSUME NEW C, NEW n \in 0 .. Longest, toServer' = Cut(toServer, C, n)
            PROVE  Range(Box(s)') \subseteq Range(Box(s))
        <5>1. PICK k \in 0 .. Len(toServer[s]) : toServer'[s] = SubSeq(toServer[s], 1, k)
          <6>1. toServer \in [Link -> Seq(UpFrame)]
            BY <1>1
          <6>2. QED  BY <3>2, <4>4, <6>1, CutKeepsFirst
        <5>2. QED  BY <4>1, <5>1, RangePart
      <4>5. QED  BY <4>2, <4>3, <4>4
    <3>3. QED  BY <2>1, <3>1, <3>2 DEF Source
  <2>2. \A g : (\E s \in Source : g \in Range(Box(s)')) /\ g.t = "req" => g.tab \in Tab
    BY <2>1, BoxFrames
  <2>3. \A q \in Tab : pending'[q] = {} \/ (gen'[q] = gen[q] /\ pending'[q] \subseteq pending[q])
    BY <1>2
  <2>4. QED  BY <2>1, <2>2, <2>3, AnsweredKept DEF AwaitInv
<1>7. QED  BY <1>5, <1>6 DEF AwaitInv

\* The page reads a frame: an answer settles the request it is for, and no other.
LEMMA AwaitFrame ==
  ASSUME AwaitInv, Ends, TypeOK, NEW p \in Tab, OnFrame(p)
  PROVE  AwaitInv'
<1>1. /\ toTab \in [Link -> Seq(DownFrame)] /\ pending \in [Tab -> SUBSET (1 .. MaxRequests)]
      /\ socket \in [Tab -> Link \cup {NoLink}]
  BY DEF TypeOK, TabsTypeOK, LinksTypeOK
<1>2. PICK c \in Link : c = socket[p]
  BY <1>1 DEF OnFrame
<1>3. /\ toTab[c] # <<>> /\ toTab' = [toTab EXCEPT ![c] = Tail(toTab[c])]
      /\ UNCHANGED <<queue, gen, socket, nextId, toServer, link, tasks>>
  BY <1>2 DEF OnFrame, serverVars
<1>4. PICK f \in DownFrame : f = Head(toTab[c])
  BY <1>1, <1>3, DropFrame
<1>5. OnResponse(p, f) \/ OnHello(p, f) \/ OnCallbackRequest(p, f)
  BY <1>2, <1>4 DEF OnFrame
<1>6. /\ \A q \in Tab : pending'[q] \subseteq pending[q]
      /\ f.t = "res" => f.id \notin pending'[p]
  BY <1>1, <1>5 DEF OnResponse, OnHello, OnCallbackRequest
<1>7. /\ \A d \in Link : d # c => toTab'[d] = toTab[d]
      /\ Range(toTab[c]) = Range(toTab'[c]) \cup {f}
  <2>1. toTab[c] \in Seq(DownFrame) /\ toTab'[c] = Tail(toTab[c])
    BY <1>1, <1>3
  <2>2. \A d \in Link : d # c => toTab'[d] = toTab[d]
    BY <1>1, <1>3
  <2>3. QED  BY <1>3, <1>4, <2>1, <2>2, RangeRest
<1>8. ASSUME NEW q \in Tab, NEW n \in pending'[q], Carried(q, n) PROVE Carried(q, n)'
  <2>1. CASE q # p
    <3>1. socket[q] \in Link => socket[q] # c
      BY <1>2, <2>1, OwnSocket
    <3>2. QED  BY <1>3, <1>7, <1>8, <3>1, CarriedKept
  <2>2. CASE q = p
    <3>1. CASE \E g \in Range(queue[p]) : Mine(p, n, g)
      BY <1>3, <2>2, <3>1 DEF Carried, Mine, Name
    <3>2. CASE \E g \in Range(toServer[c]) : Mine(p, n, g)
      BY <1>2, <1>3, <2>2, <3>2 DEF Carried, Mine, Name
    <3>3. CASE \E x \in tasks : x.link = c /\ Mine(p, n, x.req)
      BY <1>2, <1>3, <2>2, <3>3 DEF Carried, Mine, Name
    <3>4. CASE \E g \in Range(toTab[c]) : g.t = "res" /\ g.id = n
      <4>1. PICK g \in Range(toTab[c]) : g.t = "res" /\ g.id = n
        BY <3>4
      <4>2. g # f
        BY <1>6, <1>8, <2>2, <4>1
      <4>3. g \in Range(toTab'[c])
        BY <1>7, <4>1, <4>2
      <4>4. QED  BY <1>2, <1>3, <2>2, <4>1, <4>3 DEF Carried
    <3>5. CASE link[c] \in Gone
      BY <1>2, <1>3, <2>2, <3>5 DEF Carried
    <3>6. QED  BY <1>2, <1>8, <2>2, <3>1, <3>2, <3>3, <3>4, <3>5 DEF Carried
  <2>3. QED  BY <2>1, <2>2
<1>9. QED  BY <1>3, <1>6, <1>8, AwaitKept

\* The server sends a frame on one link or none: every tab still gets what was sent to it.
LEMMA SentKept ==
  ASSUME TypeOK, NEW c \in Link, NEW f \in DownFrame, Reply(c, f)
  PROVE  /\ \A d \in Link : Range(toTab[d]) \subseteq Range(toTab'[d])
         /\ session[c] /\ link[c] \in Usable => f \in Range(toTab'[c])
<1>1. toTab \in [Link -> Seq(DownFrame)]
  BY DEF TypeOK, LinksTypeOK
<1>2. \A d \in Link : toTab'[d] = toTab[d] \/ (d = c /\ toTab'[d] = Append(toTab[d], f))
  BY <1>1 DEF Reply
<1>3. Range(Append(toTab[c], f)) = Range(toTab[c]) \cup {f}
  <2>1. toTab[c] \in Seq(DownFrame)
    BY <1>1
  <2>2. QED  BY <2>1, RangeAdd
<1>4. session[c] /\ link[c] \in Usable => toTab'[c] = Append(toTab[c], f)
  BY <1>1 DEF Reply
<1>5. QED  BY <1>2, <1>3, <1>4

\* An answer for the page's own socket is on it, or the socket is gone.
LEMMA AnswerCarried ==
  ASSUME Ends, TypeOK, NEW p \in Tab, NEW n, NEW f \in DownFrame, f.t = "res", f.id = n,
         socket[p] \in Link, Reply(socket[p], f), UNCHANGED <<socket, link>>
  PROVE  Carried(p, n)'
<1>1. CASE link[socket[p]] \in Usable
  <2>1. f \in Range(toTab'[socket[p]])
    BY <1>1, SentKept DEF Ends
  <2>2. QED  BY <2>1 DEF Carried
<1>2. CASE link[socket[p]] \notin Usable
  <2>1. link[socket[p]] \in {"free", "opening", "up", "refused", "broken"} /\ link[socket[p]] # "free"
    BY OwnSocket DEF TypeOK, LinksTypeOK
  <2>2. link[socket[p]] \in Gone
    BY <1>2, <2>1 DEF Gone, Usable
  <2>3. QED  BY <2>2 DEF Carried
<1>3. QED  BY <1>1, <1>2

\* Settling callbacks keeps every task.
LEMMA TasksKept ==
  ASSUME TypeOK, NEW W, Settle(W)
  PROVE  \A x \in tasks : \E y \in tasks' : y.link = x.link /\ y.req = x.req
<1>1. ASSUME NEW x \in tasks
      PROVE  \E y \in tasks' : y.link = x.link /\ y.req = x.req
  <2>1. x \in [link : Link, req : RequestType, waits : BOOLEAN]
    BY DEF TypeOK, ServerTypeOK
  <2>2. [x EXCEPT !.waits = @ /\ \A w \in W : w.req # x.req] \in tasks'
    BY DEF Settle
  <2>3. QED  BY <2>1, <2>2
<1>2. QED  BY <1>1

\* The server reads a frame: a request becomes a task, or is answered at once.
LEMMA AwaitRead ==
  ASSUME AwaitInv, Ends, TypeOK, NEW c \in Link, OnMessage(c)
  PROVE  AwaitInv'
<1>1. /\ toServer \in [Link -> Seq(UpFrame)] /\ c \in Source /\ c \notin Tab
      /\ socket \in [Tab -> Link \cup {NoLink}]
  BY BridgeBounds DEF TypeOK, TabsTypeOK, LinksTypeOK, Source
<1>2. /\ toServer[c] # <<>> /\ toServer' = [toServer EXCEPT ![c] = Tail(toServer[c])]
      /\ UNCHANGED <<queue, gen, socket, nextId, pending, link>>
  BY DEF OnMessage, tabVars
<1>3. PICK f \in UpFrame : f = Head(toServer[c])
  BY <1>1, <1>2, DropFrame
<1>4. OnRequest(c, f) \/ OnRelease(c, f) \/ OnCallbackAnswer(c, f)
  BY <1>3 DEF OnMessage
<1>5. /\ \A d \in Link : d # c => toServer'[d] = toServer[d]
      /\ Range(toServer[c]) = Range(toServer'[c]) \cup {f}
  <2>1. toServer[c] \in Seq(UpFrame) /\ toServer'[c] = Tail(toServer[c])
    BY <1>1, <1>2
  <2>2. \A d \in Link : d # c => toServer'[d] = toServer[d]
    BY <1>1, <1>2
  <2>3. QED  BY <1>2, <1>3, <2>1, <2>2, RangeRest
<1>6. f \in RequestType \/ f.t # "req"
  BY UpFrameKinds
<1>7. \A d \in Link : Range(toTab[d]) \subseteq Range(toTab'[d])
  <2>1. CASE OnRequest(c, f)
    <3>1. Res(f, NoHandle) \in DownFrame
      BY <1>6, <2>1, ServerFrames DEF OnRequest
    <3>2. toTab' = toTab \/ Reply(c, Res(f, NoHandle))
      BY <2>1 DEF OnRequest
    <3>3. PICK g \in DownFrame : g = Res(f, NoHandle)
      BY <3>1
    <3>4. QED  BY <3>2, <3>3, SentKept
  <2>2. CASE OnRelease(c, f) \/ OnCallbackAnswer(c, f)
    BY <2>2 DEF OnRelease, OnCallbackAnswer
  <2>3. QED  BY <1>4, <2>1, <2>2
<1>8. \A x \in tasks : \E y \in tasks' : y.link = x.link /\ y.req = x.req
  <2>1. CASE OnRequest(c, f) \/ OnRelease(c, f)
    BY <2>1 DEF OnRequest, OnRelease
  <2>2. CASE OnCallbackAnswer(c, f)
    <3>1. PICK W : Settle(W)
      BY <2>2 DEF OnCallbackAnswer
    <3>2. QED  BY <3>1, TasksKept
  <2>3. QED  BY <1>4, <2>1, <2>2
<1>9. ASSUME NEW q \in Tab, NEW n \in pending[q], Mine(q, n, f), socket[q] = c PROVE Carried(q, n)'
  <2>1. f.t = "req" /\ f.tab = q /\ f.gen = gen[q] /\ f.id = n /\ Name(f) = [tab |-> q, gen |-> gen[q], id |-> n]
    BY <1>9 DEF Mine, Name
  <2>2. OnRequest(c, f) /\ f \in RequestType
    BY <1>4, <1>6, <2>1 DEF OnRelease, OnCallbackAnswer
  <2>3. f \in Range(Box(c))
    BY <1>1, <1>5 DEF Box
  <2>4. Answered(f.op)
    BY <1>1, <1>9, <2>1, <2>3 DEF AwaitInv, AwaitedAnswered
  <2>5. CASE [link |-> c, req |-> f, waits |-> FALSE] \in tasks'
    <3>1. PICK x \in tasks' : x.link = socket'[q] /\ x.req = f
      BY <1>2, <1>9, <2>5
    <3>2. QED  BY <1>2, <1>9, <2>1, <3>1 DEF Carried, Mine, Name
  <2>6. CASE Reply(c, Res(f, NoHandle))
    <3>1. PICK g \in DownFrame : g = Res(f, NoHandle)
      BY <2>2, ServerFrames
    <3>2. g.t = "res" /\ g.id = n
      BY <2>1, <3>1 DEF Res
    <3>3. QED  BY <1>2, <1>9, <2>6, <3>1, <3>2, AnswerCarried
  <2>7. QED  BY <2>2, <2>4, <2>5, <2>6 DEF OnRequest
<1>10. ASSUME NEW q \in Tab, NEW n \in pending[q], Carried(q, n) PROVE Carried(q, n)'
  <2>1. CASE socket[q] = c /\ Mine(q, n, f)
    BY <1>9, <2>1
  <2>2. CASE socket[q] # c
    BY <1>2, <1>5, <1>7, <1>8, <1>10, <2>2, CarriedKept
  <2>3. CASE socket[q] = c /\ ~Mine(q, n, f)
    <3>1. CASE \E g \in Range(toServer[c]) : Mine(q, n, g)
      <4>1. PICK g \in Range(toServer[c]) : Mine(q, n, g)
        BY <3>1
      <4>2. g # f
        BY <2>3, <4>1 DEF Mine, Name
      <4>3. g \in Range(toServer'[c])
        BY <1>5, <4>1, <4>2
      <4>4. QED  BY <1>2, <2>3, <4>1, <4>3 DEF Carried, Mine, Name
    <3>2. CASE \E g \in Range(queue[q]) : Mine(q, n, g)
      BY <1>2, <3>2 DEF Carried, Mine, Name
    <3>3. CASE \E x \in tasks : x.link = c /\ Mine(q, n, x.req)
      <4>1. PICK x \in tasks : x.link = c /\ Mine(q, n, x.req)
        BY <3>3
      <4>2. PICK y \in tasks' : y.link = x.link /\ y.req = x.req
        BY <1>8
      <4>3. QED  BY <1>2, <2>3, <4>1, <4>2 DEF Carried, Mine, Name
    <3>4. CASE \E g \in Range(toTab[c]) : g.t = "res" /\ g.id = n
      BY <1>2, <1>7, <2>3, <3>4 DEF Carried
    <3>5. CASE link[c] \in Gone
      BY <1>2, <2>3, <3>5 DEF Carried
    <3>6. QED  BY <1>10, <2>3, <3>1, <3>2, <3>3, <3>4, <3>5 DEF Carried
  <2>4. QED  BY <2>1, <2>2, <2>3
<1>11. AllCarried'
  BY <1>2, <1>10 DEF AwaitInv, AllCarried
<1>12. AwaitedAnswered'
  <2>1. ASSUME NEW s \in Source PROVE Range(Box(s)') \subseteq Range(Box(s))
    <3>1. CASE s \in Tab
      BY <1>2, <3>1 DEF Box
    <3>2. CASE s \in Link
      BY <1>5, <3>2, BridgeBounds DEF Box
    <3>3. QED  BY <2>1, <3>1, <3>2 DEF Source
  <2>2. \A g : (\E s \in Source : g \in Range(Box(s)')) /\ g.t = "req" => g.tab \in Tab
    BY <2>1, BoxFrames
  <2>3. QED  BY <1>2, <2>1, <2>2, AnsweredKept DEF AwaitInv
<1>13. QED  BY <1>11, <1>12 DEF AwaitInv

\* A request ends, and its answer is sent.
LEMMA AwaitFinish ==
  ASSUME AwaitInv, Ends, TypeOK, NEW x \in tasks, Finish(x)
  PROVE  AwaitInv'
<1>1. UNCHANGED <<queue, gen, socket, nextId, pending, link, toServer>> /\ tasks' = tasks \ {x}
  BY DEF Finish, tabVars
<1>2. PICK f \in DownFrame : f.t = "res" /\ f.id = x.req.id /\ Reply(x.link, f)
  <2>1. Res(x.req, NewHandle) \in DownFrame /\ Res(x.req, NoHandle) \in DownFrame
    BY ReadTypes, ServerFrames
  <2>2. \A h : Res(x.req, h).t = "res" /\ Res(x.req, h).id = x.req.id
    BY DEF Res
  <2>3. QED  BY <2>1, <2>2 DEF Finish
<1>3. x.link \in Link /\ \A d \in Link : Range(toTab[d]) \subseteq Range(toTab'[d])
  BY <1>2, ReadTypes, SentKept
<1>4. ASSUME NEW q \in Tab, NEW n \in pending[q], Carried(q, n) PROVE Carried(q, n)'
  <2>1. CASE socket[q] = x.link /\ Mine(q, n, x.req)
    <3>1. f.t = "res" /\ f.id = n /\ socket[q] \in Link /\ Reply(socket[q], f)
      BY <1>2, <1>3, <2>1 DEF Mine, Name
    <3>2. QED  BY <1>1, <3>1, AnswerCarried
  <2>2. CASE ~(socket[q] = x.link /\ Mine(q, n, x.req))
    <3>1. CASE \E g \in Range(queue[q]) : Mine(q, n, g)
      BY <1>1, <3>1 DEF Carried, Mine, Name
    <3>2. CASE socket[q] \in Link /\ \E g \in Range(toServer[socket[q]]) : Mine(q, n, g)
      BY <1>1, <3>2 DEF Carried, Mine, Name
    <3>3. CASE socket[q] \in Link /\ \E y \in tasks : y.link = socket[q] /\ Mine(q, n, y.req)
      <4>1. PICK y \in tasks : y.link = socket[q] /\ Mine(q, n, y.req)
        BY <3>3
      <4>2. y \in tasks'
        BY <1>1, <2>2, <4>1 DEF Mine, Name
      <4>3. QED  BY <1>1, <3>3, <4>1, <4>2 DEF Carried, Mine, Name
    <3>4. CASE socket[q] \in Link /\ \E g \in Range(toTab[socket[q]]) : g.t = "res" /\ g.id = n
      BY <1>1, <1>3, <3>4 DEF Carried
    <3>5. CASE socket[q] \in Link /\ link[socket[q]] \in Gone
      BY <1>1, <3>5 DEF Carried
    <3>6. QED  BY <1>4, <3>1, <3>2, <3>3, <3>4, <3>5 DEF Carried
  <2>3. QED  BY <2>1, <2>2
<1>5. QED  BY <1>1, <1>4, AwaitKept

\* Callbacks, closing sessions and breaking links: what carries a request stays, or its
\* socket is gone.
LEMMA AwaitLinks ==
  ASSUME AwaitInv, Ends, TypeOK, UNCHANGED <<gen, socket, nextId, pending, queue>>,
         \A c \in Link :
           \/ link[c] # "free" /\ link'[c] \in Gone
           \/ link[c] = "free"
           \/ /\ toServer'[c] = toServer[c]
              /\ \A x \in tasks : \E y \in tasks' : y.link = x.link /\ y.req = x.req
              /\ Range(toTab[c]) \subseteq Range(toTab'[c])
              /\ link[c] \in Gone => link'[c] \in Gone,
         \A c \in Link : Range(toServer'[c]) \subseteq Range(toServer[c])
  PROVE  AwaitInv'
<1>1. ASSUME NEW q \in Tab, NEW n \in pending[q], Carried(q, n) PROVE Carried(q, n)'
  <2>1. CASE socket[q] \in Link
    <3>1. link[socket[q]] # "free"
      BY <2>1, OwnSocket
    <3>2. CASE link'[socket[q]] \in Gone
      BY <2>1, <3>2 DEF Carried
    <3>3. CASE link'[socket[q]] \notin Gone
      BY <1>1, <2>1, <3>1, <3>3, CarriedKept
    <3>4. QED  BY <3>2, <3>3
  <2>2. CASE socket[q] \notin Link
    BY <1>1, <2>2, CarriedKept
  <2>3. QED  BY <2>1, <2>2
<1>2. AllCarried'
  BY <1>1 DEF AwaitInv, AllCarried
<1>3. AwaitedAnswered'
  <2>1. \A s \in Source : Range(Box(s)') \subseteq Range(Box(s))
    BY BridgeBounds DEF Box, Source
  <2>2. \A g : (\E s \in Source : g \in Range(Box(s)')) /\ g.t = "req" => g.tab \in Tab
    BY <2>1, BoxFrames
  <2>3. QED  BY <2>1, <2>2, AnsweredKept DEF AwaitInv
<1>4. QED  BY <1>2, <1>3 DEF AwaitInv

\* A native callback answers nothing, so every promise keeps its carrier.
LEMMA AwaitCallBack ==
  ASSUME AwaitInv, Ends, TypeOK, NEW x \in tasks, NEW withHandle \in BOOLEAN, CallBack(x, withHandle)
  PROVE  AwaitInv'
<1>1. /\ UNCHANGED <<gen, socket, nextId, pending, queue, link, toServer>>
      /\ tasks' = (tasks \ {x}) \cup {[x EXCEPT !.waits = TRUE]}
  BY DEF CallBack, tabVars
<1>2. [x EXCEPT !.waits = TRUE].link = x.link /\ [x EXCEPT !.waits = TRUE].req = x.req
  BY DEF TypeOK, ServerTypeOK
<1>3. \A y \in tasks : \E z \in tasks' : z.link = y.link /\ z.req = y.req
  BY <1>1, <1>2
<1>4. x.link \in Link /\ x.req \in RequestType /\ nextCb \in 1 .. MaxCallbacks
  BY ReadTypes, BridgeBounds DEF CallBack, TypeOK, ServerTypeOK
<1>5. PICK f \in DownFrame : Reply(x.link, f)
  <2>1. CbReq(nextCb, NewHandle, x.req) \in DownFrame /\ CbReq(nextCb, NoHandle, x.req) \in DownFrame
    BY <1>4, ServerFrames
  <2>2. QED  BY <2>1 DEF CallBack, CallbackId
<1>6. \A d \in Link : Range(toTab[d]) \subseteq Range(toTab'[d])
  BY <1>4, <1>5, SentKept
<1>7. QED  BY <1>1, <1>3, <1>6, AwaitLinks

\* Links that close, break or are recycled keep the account of promises.
LEMMA AwaitNetwork ==
  ASSUME AwaitInv, Ends, TypeOK,
         \/ \E c \in Link : SessionClosed(c) \/ Recycle(c) \/ Drop(c)
         \/ Stop \/ Start \/ UNCHANGED vars
  PROVE  AwaitInv'
<1> LinksTypeOK
  BY DEF TypeOK
<1>1. UNCHANGED <<gen, socket, nextId, pending, queue>>
  BY DEF SessionClosed, Recycle, Drop, Stop, Start, vars, tabVars
<1>2. ASSUME NEW c \in Link, SessionClosed(c) PROVE AwaitInv'
  <2>1. PICK W : Settle(W)
    BY <1>2 DEF SessionClosed, RejectCallbacks
  <2>2. UNCHANGED <<toServer, toTab, link>>
    BY <1>2 DEF SessionClosed
  <2>3. QED  BY <1>1, <2>1, <2>2, TasksKept, AwaitLinks
<1>3. ASSUME NEW c \in Link, Recycle(c) PROVE AwaitInv'
  <2>1. UNCHANGED <<toServer, toTab, tasks>> /\ owner[c] = <<>> /\ link' = [link EXCEPT ![c] = "free"]
    BY <1>3 DEF Recycle, serverVars
  <2>2. \A d \in Link : d # c => link'[d] = link[d]
    BY <2>1 DEF LinksTypeOK
  <2>3. \A q \in Tab : socket[q] \in Link => socket[q] # c
    BY <2>1, OwnSocket
  <2>4. \A q \in Tab : \A n : Carried(q, n) => Carried(q, n)'
    BY <1>1, <2>1, <2>2, <2>3, CarriedKept
  <2>5. QED  BY <1>1, <2>1, <2>4, AwaitKept
<1>4. ASSUME NEW C, NEW n \in 0 .. Longest, toServer' = Cut(toServer, C, n)
      PROVE  \A c \in Link : /\ Range(toServer'[c]) \subseteq Range(toServer[c])
                             /\ c \notin C => toServer'[c] = toServer[c]
  <2>1. toServer \in [Link -> Seq(UpFrame)]
    BY DEF LinksTypeOK
  <2>2. ASSUME NEW c \in Link PROVE Range(toServer'[c]) \subseteq Range(toServer[c])
    <3>1. PICK k \in 0 .. Len(toServer[c]) : toServer'[c] = SubSeq(toServer[c], 1, k)
      BY <1>4, <2>1, CutKeepsFirst
    <3>2. toServer[c] \in Seq(UpFrame)
      BY <2>1
    <3>3. QED  BY <3>1, <3>2, RangePart
  <2>3. \A c \in Link : c \notin C => Cut(toServer, C, n)[c] = toServer[c]
    BY <1>4, <2>1, CutFacts
  <2>4. QED  BY <1>4, <2>2, <2>3
<1>5. ASSUME NEW C, NEW n \in 0 .. Longest, toTab' = Cut(toTab, C, n)
      PROVE  \A c \in Link : c \notin C => toTab'[c] = toTab[c]
  <2>1. toTab \in [Link -> Seq(DownFrame)]
    BY DEF LinksTypeOK
  <2>2. \A c \in Link : c \notin C => Cut(toTab, C, n)[c] = toTab[c]
    BY <1>5, <2>1, CutFacts
  <2>3. QED  BY <1>5, <2>2
<1>6. ASSUME NEW c \in Link, Drop(c) PROVE AwaitInv'
  <2>1. PICK C : C = {c}
    OBVIOUS
  <2>2. PICK n \in 0 .. Longest : toServer' = Cut(toServer, C, n) /\ toTab' = Cut(toTab, C, n)
    BY <1>6, <2>1 DEF Drop
  <2>3. link' = Down(C) /\ tasks' = tasks
    BY <1>6, <2>1 DEF Drop, serverVars
  <2>4. \A d \in Link : d \notin C => toServer'[d] = toServer[d] /\ toTab'[d] = toTab[d]
    BY <1>4, <1>5, <2>2
  <2>5. \A d \in Link : Range(toServer'[d]) \subseteq Range(toServer[d])
    BY <1>4, <2>2
  <2>6. \A d \in Link : /\ d \in C /\ link[d] # "free" => link'[d] \in Gone
                        /\ d \notin C => link'[d] = link[d]
    BY <2>3, DownFacts
  <2>7. QED  BY <1>1, <2>3, <2>4, <2>5, <2>6, AwaitLinks
<1>7. ASSUME Stop PROVE AwaitInv'
  <2>1. toServer' = Cut(toServer, Link, 0) /\ toServer \in [Link -> Seq(UpFrame)] /\ link' = Down(Link)
    BY <1>7 DEF Stop, LinksTypeOK
  <2>2. \A d \in Link : toServer'[d] = <<>>
    BY <2>1, CutAll
  <2>3. \A d \in Link : Range(toServer'[d]) \subseteq Range(toServer[d])
    BY <2>2, RangeOfNone
  <2>4. \A d \in Link : link[d] # "free" => link'[d] \in Gone
    BY <2>1, DownFacts
  <2>5. QED  BY <1>1, <2>3, <2>4, AwaitLinks
<1>8. Start \/ UNCHANGED vars => AwaitInv'
  <2>1. Start \/ UNCHANGED vars => UNCHANGED <<toServer, toTab, tasks, link>>
    BY DEF Start, vars, linkVars, serverVars
  <2>2. QED  BY <1>1, <2>1, AwaitLinks
<1>9. QED  BY <1>2, <1>3, <1>6, <1>7, <1>8

\* Every step keeps a carrier for each promise that has lost none.
LEMMA AwaitStep ==
  ASSUME AwaitInv, OnceInv, Ends, TypeOK, [Next]_vars
  PROVE  AwaitInv'
<1>1. ASSUME NEW p \in Tab, Page(p) PROVE AwaitInv'
  <2>1. ASSUME NEW h \in held[p], ReleaseHandle(p, h) PROVE AwaitInv'
    <3>1. Release(h) \in UpFrame /\ Release(h).t # "req"
      BY PageFrames DEF Release
    <3>2. SendFrame(p, Release(h)) /\ UNCHANGED <<gen, socket, link, toTab, tasks, pending, nextId>>
      BY <2>1 DEF ReleaseHandle, serverVars
    <3>3. QED  BY <3>1, <3>2, AwaitOther
  <2>2. ASSUME SyncMint(p) PROVE AwaitInv'
    <3>1. UNCHANGED <<gen, socket, nextId, pending, queue, link, toServer, toTab, tasks>>
      BY <2>2 DEF SyncMint, linkVars
    <3>2. QED  BY <3>1, AwaitLinks
  <2>3. QED  BY <1>1, <2>1, <2>2, AwaitInvoke DEF Page
<1>2. ASSUME NEW p \in Tab, PageEvent(p) PROVE AwaitInv'
  <2>1. ASSUME NEW x \in called[p], AnswerCallback(p, x) PROVE AwaitInv'
    <3>1. CbRes(x) \in UpFrame /\ CbRes(x).t # "req"
      BY PageFrames DEF CbRes
    <3>2. SendFrame(p, CbRes(x)) /\ UNCHANGED <<gen, socket, link, toTab, tasks, pending, nextId>>
      BY <2>1 DEF AnswerCallback, serverVars
    <3>3. QED  BY <3>1, <3>2, AwaitOther
  <2>2. ASSUME Boot(p) PROVE AwaitInv'
    <3>1. UNCHANGED <<gen, socket, nextId, pending, queue, link, toServer, toTab, tasks>>
      BY <2>2 DEF Boot, linkVars, serverVars
    <3>2. QED  BY <3>1, AwaitLinks
  <2>3. QED  BY <1>2, <2>1, <2>2, AwaitOpened, AwaitConnect, AwaitLetGo, AwaitFrame DEF PageEvent
<1>3. QED
  BY <1>1, <1>2, AwaitRead, AwaitFinish, AwaitCallBack, AwaitNetwork DEF Next, ServerEvent, NativeStep

\* At the start nothing is awaited.
LEMMA AwaitInit == Init => AwaitInv
<1> SUFFICES ASSUME Init PROVE AwaitInv
  OBVIOUS
<1>1. /\ \A p \in Tab : pending[p] = {}
      /\ \A s \in Source : Box(s) = <<>>
  BY DEF Init, Box, Source
<1>2. \A s \in Source : Range(Box(s)) = {}
  BY <1>1, RangeOfNone
<1>3. QED  BY <1>1, <1>2 DEF AwaitInv, AllCarried, AwaitedAnswered

\* With a carrier for each promise the property of the runs holds.
LEMMA CarriedHasCarrier ==
  ASSUME TypeOK, AllCarried
  PROVE  PendingHasCarrier
<1> SUFFICES ASSUME NEW p \in Tab, NEW n \in pending[p]
             PROVE  LET c == socket[p]
                        mine(r) == Name(r) = [tab |-> p, gen |-> gen[p], id |-> n]
                    IN \/ \E x \in Slots : x[1] \in {p, c} /\ mine(Outbox[x[1]][x[2]])
                       \/ \E x \in tasks : x.link = c /\ mine(x.req)
                       \/ c # NoLink /\ \E f \in Range(toTab[c]) : f.t = "res" /\ f.id = n
                       \/ c # NoLink /\ link[c] \in Gone
  BY DEF PendingHasCarrier
<1>1. Carried(p, n) /\ NoLink \notin Link
  BY BridgeBounds DEF AllCarried
<1>2. ASSUME NEW s \in Source, NEW f \in Range(Box(s)), Mine(p, n, f)
      PROVE  \E x \in Slots : x[1] = s /\ Name(Outbox[x[1]][x[2]]) = [tab |-> p, gen |-> gen[p], id |-> n]
  <2>1. Box(s) \in Seq(UpFrame) /\ Outbox[s] = Box(s)
    BY BoxTyped DEF Outbox, Box, Source
  <2>2. PICK i \in 1 .. Len(Outbox[s]) : Outbox[s][i] = f
    BY <1>2, <2>1 DEF Range
  <2>3. <<s, i>> \in {s} \X {j \in 1 .. Len(Outbox[s]) : Outbox[s][j].t = "req"}
    BY <1>2, <2>2 DEF Mine
  <2>4. <<s, i>> \in Slots
    BY <2>3 DEF Slots, Source
  <2>5. QED  BY <1>2, <2>2, <2>4 DEF Mine
<1>3. CASE \E f \in Range(queue[p]) : Mine(p, n, f)
  <2>1. Box(p) = queue[p] /\ p \in Source
    BY DEF Box, Source
  <2>2. QED  BY <1>2, <1>3, <2>1
<1>4. CASE socket[p] \in Link /\ \E f \in Range(toServer[socket[p]]) : Mine(p, n, f)
  <2>1. Box(socket[p]) = toServer[socket[p]] /\ socket[p] \in Source
    BY <1>4, BridgeBounds DEF Box, Source
  <2>2. QED  BY <1>2, <1>4, <2>1
<1>5. CASE socket[p] \in Link /\ \E x \in tasks : x.link = socket[p] /\ Mine(p, n, x.req)
  BY <1>5 DEF Mine
<1>6. CASE socket[p] \in Link /\ \E f \in Range(toTab[socket[p]]) : f.t = "res" /\ f.id = n
  BY <1>1, <1>6
<1>7. CASE socket[p] \in Link /\ link[socket[p]] \in Gone
  BY <1>1, <1>7
<1>8. QED  BY <1>1, <1>3, <1>4, <1>5, <1>6, <1>7 DEF Carried

\* Every request a page waits for is queued, under way, being handled for the page's own
\* socket, or answered on it, or that socket is about to close (client.web.ts invoke, #pending).
THEOREM NoRequestIsForgotten == Spec => []PendingHasCarrier
<1>1. TypeOK /\ Ends /\ [Next]_vars => Ends'
  BY EndsStep
<1>2. TypeOK /\ OnceInv /\ [Next]_vars => OnceInv'
  BY OnceStep
<1>3. TypeOK /\ Ends /\ OnceInv /\ AwaitInv /\ [Next]_vars => AwaitInv'
  BY AwaitStep
<1>4. TypeOK /\ AwaitInv => PendingHasCarrier
  BY CarriedHasCarrier DEF AwaitInv
<1>5. QED
  BY <1>1, <1>2, <1>3, <1>4, EndsInit, OnceInit, AwaitInit, BridgeTypeCorrect, PTL DEF Spec

-----------------------------------------------------------------------------
(* Until the server restarts, the answer of a callback is that of the call which waits. *)

\* Frames on a page's side are those that were there, and what the page sends.
LEMMA SendRanges ==
  ASSUME TypeOK, NEW p \in Tab, NEW f \in UpFrame, SendFrame(p, f)
  PROVE  \A s \in Source : Range(Box(s)') \subseteq Range(Box(s)) \cup {f}
<1>1. PICK t \in Source : /\ Box(t)' \in {Box(t), Append(Box(t), f)}
                         /\ \A s \in Source : s # t => Box(s)' = Box(s)
  BY SentToOneBox
<1>2. Range(Append(Box(t), f)) = Range(Box(t)) \cup {f}
  <2>1. Box(t) \in Seq(UpFrame)
    BY BoxTyped
  <2>2. QED  BY <2>1, RangeAdd
<1>3. QED  BY <1>1, <1>2

\* What breaks a link, or a reload, only loses frames.
LEMMA LostRanges ==
  ASSUME TypeOK, NEW C, NEW n \in 0 .. Longest, NEW c \in Link
  PROVE  /\ Range(Cut(toServer, C, n)[c]) \subseteq Range(toServer[c])
         /\ Range(Cut(toTab, C, n)[c]) \subseteq Range(toTab[c])
         /\ Cut(toServer, C, 0)[c] \in {<<>>, toServer[c]}
         /\ Cut(toTab, C, 0)[c] \in {<<>>, toTab[c]}
<1>1. toServer \in [Link -> Seq(UpFrame)] /\ toTab \in [Link -> Seq(DownFrame)]
  BY DEF TypeOK, LinksTypeOK
<1>2. Range(Cut(toServer, C, n)[c]) \subseteq Range(toServer[c])
  <2>1. PICK k \in 0 .. Len(toServer[c]) : Cut(toServer, C, n)[c] = SubSeq(toServer[c], 1, k)
    <3>1. toServer \in [Link -> Seq(UpFrame)]
      BY <1>1
    <3>2. QED  BY <3>1, CutKeepsFirst
  <2>2. toServer[c] \in Seq(UpFrame)
    BY <1>1
  <2>3. QED  BY <2>1, <2>2, RangePart
<1>3. Range(Cut(toTab, C, n)[c]) \subseteq Range(toTab[c])
  <2>1. PICK k \in 0 .. Len(toTab[c]) : Cut(toTab, C, n)[c] = SubSeq(toTab[c], 1, k)
    <3>1. toTab \in [Link -> Seq(DownFrame)]
      BY <1>1
    <3>2. QED  BY <3>1, CutKeepsFirst
  <2>2. toTab[c] \in Seq(DownFrame)
    BY <1>1
  <2>3. QED  BY <2>1, <2>2, RangePart
<1>4. Cut(toServer, C, 0)[c] \in {<<>>, toServer[c]}
  <2>1. toServer \in [Link -> Seq(UpFrame)]
    BY <1>1
  <2>2. QED  BY <2>1, CutAll
<1>5. Cut(toTab, C, 0)[c] \in {<<>>, toTab[c]}
  <2>1. toTab \in [Link -> Seq(DownFrame)]
    BY <1>1
  <2>2. QED  BY <2>1, CutAll
<1>6. QED  BY <1>2, <1>3, <1>4, <1>5

\* Where the frames of a page come from in a step.
LEMMA UpMoves ==
  ASSUME TypeOK, [Next]_vars, NEW s \in Source, NEW f \in Range(Box(s)')
  PROVE  \/ \E u \in Source : f \in Range(Box(u))
         \/ f.t \in {"req", "release"}
         \/ \E p \in Tab : \E x \in called[p] : f = CbRes(x)
<1> DEFINE Goal == \/ \E u \in Source : f \in Range(Box(u))
                   \/ f.t \in {"req", "release"}
                   \/ \E p \in Tab : \E x \in called[p] : f = CbRes(x)
<1>1. /\ queue \in [Tab -> Seq(UpFrame)] /\ toServer \in [Link -> Seq(UpFrame)]
      /\ (s \in Tab => Box(s)' = queue'[s]) /\ (s \in Link => Box(s)' = toServer'[s])
      /\ s \in Tab \/ s \in Link
      /\ \A p \in Tab : p \in Source /\ Box(p) = queue[p]
      /\ \A c \in Link : c \in Source /\ Box(c) = toServer[c]
  BY BridgeBounds DEF Box, Source, TypeOK, TabsTypeOK, LinksTypeOK
<1>2. UNCHANGED <<queue, toServer>> => Goal
  BY <1>1
<1>3. ASSUME NEW p \in Tab, NEW g \in UpFrame, SendFrame(p, g),
             g.t \in {"req", "release"} \/ \E x \in called[p] : g = CbRes(x)
      PROVE  Goal
  BY <1>3, SendRanges
<1>4. ASSUME NEW p \in Tab, Page(p) PROVE Goal
  <2>1. ASSUME NEW op \in Ops \ {"sync"}, NEW h \in held[p] \cup {NoHandle}, Invoke(p, op, h) PROVE Goal
    <3>1. PICK g : g = Req(p, op, h)
      OBVIOUS
    <3>2. g \in UpFrame /\ SendFrame(p, g) /\ g.t = "req"
      BY <2>1, <3>1, PageFrames DEF Invoke, Req
    <3>3. QED  BY <1>3, <3>2
  <2>2. ASSUME NEW h \in held[p], ReleaseHandle(p, h) PROVE Goal
    <3>1. Release(h) \in UpFrame /\ SendFrame(p, Release(h)) /\ Release(h).t = "release"
      BY <2>2, PageFrames DEF ReleaseHandle, Release
    <3>2. QED  BY <1>3, <3>1
  <2>3. SyncMint(p) => Goal
    BY <1>2 DEF SyncMint, linkVars
  <2>4. QED  BY <1>4, <2>1, <2>2, <2>3 DEF Page
<1>5. ASSUME NEW p \in Tab, PageEvent(p) PROVE Goal
  <2>1. ASSUME NEW x \in called[p], AnswerCallback(p, x) PROVE Goal
    <3>1. CbRes(x) \in UpFrame /\ SendFrame(p, CbRes(x))
      BY <2>1, PageFrames DEF AnswerCallback
    <3>2. QED  BY <1>3, <3>1
  <2>2. ASSUME Opened(p) PROVE Goal
    <3>1. PICK c \in Link : c = socket[p]
      BY <2>2 DEF Opened, TypeOK, TabsTypeOK
    <3>2. toServer' = [toServer EXCEPT ![c] = toServer[c] \o queue[p]] /\ queue' = [queue EXCEPT ![p] = <<>>]
      BY <2>2, <3>1 DEF Opened, Flush
    <3>3. CASE s = c
      <4>1. toServer'[c] = toServer[c] \o queue[p] /\ toServer[c] \in Seq(UpFrame) /\ queue[p] \in Seq(UpFrame)
        BY <1>1, <3>2
      <4>2. Range(toServer'[c]) = Range(toServer[c]) \cup Range(queue[p])
        BY <4>1, RangeJoin
      <4>3. QED  BY <1>1, <3>3, <4>2
    <3>4. CASE s = p
      <4>1. Box(s)' = <<>>
        BY <1>1, <3>2, <3>4
      <4>2. QED  BY <4>1, RangeOfNone
    <3>5. CASE s # c /\ s # p
      <4>1. Box(s)' = Box(s)
        BY <1>1, <3>2, <3>5
      <4>2. QED  BY <4>1
    <3>6. QED  BY <3>3, <3>4, <3>5
  <2>3. ASSUME Reload(p) PROVE Goal
    <3>1. PICK C : C = {socket[p]}
      OBVIOUS
    <3>2. PICK n \in 0 .. Longest : toServer' = Cut(toServer, C, n)
      BY <2>3, <3>1 DEF Reload
    <3>3. CASE s \in Link
      <4>1. Range(toServer'[s]) \subseteq Range(toServer[s])
        BY <3>2, <3>3, LostRanges
      <4>2. QED  BY <1>1, <3>3, <4>1
    <3>4. CASE s \in Tab
      <4>1. Box(s)' = Box(s) \/ Box(s)' = <<>>
        BY <1>1, <2>3, <3>4 DEF Reload
      <4>2. QED  BY <4>1, RangeOfNone
    <3>5. QED  BY <1>1, <3>3, <3>4
  <2>4. Closed(p) \/ OnFrame(p) \/ Boot(p) \/ (\E c \in Link : Connect(p, c)) => Goal
    BY <1>2 DEF Closed, OnFrame, Boot, Connect, linkVars
  <2>5. QED  BY <1>5, <2>1, <2>2, <2>3, <2>4 DEF PageEvent
<1>6. ASSUME NEW c \in Link, OnMessage(c) PROVE Goal
  <2>1. toServer[c] \in Seq(UpFrame) /\ toServer[c] # <<>> /\ queue' = queue
    BY <1>1, <1>6 DEF OnMessage, tabVars
  <2>2. toServer' = [toServer EXCEPT ![c] = Tail(toServer[c])]
    BY <1>6 DEF OnMessage
  <2>3. Range(Tail(toServer[c])) \subseteq Range(toServer[c])
    BY <2>1, RangeRest
  <2>4. CASE s = c
    <3>1. Box(s)' = Tail(toServer[c])
      BY <1>1, <2>2, <2>4
    <3>2. QED  BY <1>1, <2>3, <2>4, <3>1
  <2>5. CASE s # c
    <3>1. Box(s)' = Box(s)
      BY <1>1, <2>1, <2>2, <2>5
    <3>2. QED  BY <3>1
  <2>6. QED  BY <2>4, <2>5
<1>7. ASSUME NEW C, NEW n \in 0 .. Longest, toServer' = Cut(toServer, C, n), queue' = queue PROVE Goal
  <2>1. CASE s \in Link
    <3>1. Range(toServer'[s]) \subseteq Range(toServer[s])
      BY <1>7, <2>1, LostRanges
    <3>2. QED  BY <1>1, <2>1, <3>1
  <2>2. CASE s \in Tab
    BY <1>1, <1>7, <2>2
  <2>3. QED  BY <1>1, <2>1, <2>2
<1>8. ASSUME NEW c \in Link, Drop(c) PROVE Goal
  <2>1. PICK C : C = {c}
    OBVIOUS
  <2>2. PICK n \in 0 .. Longest : toServer' = Cut(toServer, C, n)
    BY <1>8, <2>1 DEF Drop
  <2>3. QED  BY <1>7, <1>8, <2>2 DEF Drop, tabVars
<1>9. ASSUME Stop PROVE Goal
  <2>1. toServer' = Cut(toServer, Link, 0) /\ queue' = queue
    BY <1>9 DEF Stop, tabVars
  <2>2. CASE s \in Link
    <3>1. Box(s)' = <<>> \/ Box(s)' = Box(s)
      <4>1. PICK n \in 0 .. Longest : toTab' = Cut(toTab, Link, n)
        BY <1>9 DEF Stop
      <4>2. toServer'[s] \in {<<>>, toServer[s]}
        BY <2>1, <2>2, <4>1, LostRanges
      <4>3. QED  BY <1>1, <2>2, <4>2
    <3>2. QED  BY <3>1, RangeOfNone
  <2>3. CASE s \in Tab
    BY <1>1, <2>1, <2>3
  <2>4. QED  BY <1>1, <2>2, <2>3
<1>10. ASSUME NEW c \in Link, SessionClosed(c) \/ Recycle(c) PROVE Goal
  BY <1>2, <1>10 DEF SessionClosed, Recycle, tabVars
<1>11. NativeStep => Goal
  BY <1>2 DEF NativeStep, Finish, CallBack, tabVars
<1>12. Start \/ UNCHANGED vars => Goal
  BY <1>2 DEF Start, vars, tabVars, linkVars
<1>13. QED
  BY <1>4, <1>5, <1>6, <1>8, <1>9, <1>10, <1>11, <1>12 DEF Next, ServerEvent

\* Where the frames for a tab come from in a step.
LEMMA DownMoves ==
  ASSUME TypeOK, [Next]_vars, NEW c \in Link, NEW f \in Range(toTab'[c])
  PROVE  \/ f \in Range(toTab[c])
         \/ f.t \in {"hello", "res"}
         \/ \E x \in tasks, withHandle \in BOOLEAN :
              CallBack(x, withHandle) /\ f = CbReq(nextCb, f.h, x.req)
<1> DEFINE Goal == \/ f \in Range(toTab[c])
                   \/ f.t \in {"hello", "res"}
                   \/ \E x \in tasks, withHandle \in BOOLEAN :
                        CallBack(x, withHandle) /\ f = CbReq(nextCb, f.h, x.req)
<1>1. toTab \in [Link -> Seq(DownFrame)] /\ toTab[c] \in Seq(DownFrame)
  BY DEF TypeOK, LinksTypeOK
<1>2. toTab' = toTab => Goal
  OBVIOUS
<1>3. toTab'[c] = <<>> => Goal
  BY RangeOfNone
<1>4. ASSUME NEW d \in Link, NEW g \in DownFrame, Reply(d, g) PROVE f \in Range(toTab[c]) \/ f = g
  <2>1. toTab'[c] = toTab[c] \/ toTab'[c] = Append(toTab[c], g)
    BY <1>1, <1>4 DEF Reply
  <2>2. Range(Append(toTab[c], g)) = Range(toTab[c]) \cup {g}
    BY <1>1, RangeAdd
  <2>3. QED  BY <2>1, <2>2
<1>5. ASSUME NEW C, NEW n \in 0 .. Longest, toTab' = Cut(toTab, C, n) PROVE Goal
  BY <1>5, LostRanges
<1>6. ASSUME NEW p \in Tab, PageEvent(p) PROVE Goal
  <2>1. ASSUME Reload(p) PROVE Goal
    <3>1. PICK C : C = {socket[p]}
      OBVIOUS
    <3>2. PICK n \in 0 .. Longest : toServer' = Cut(toServer, C, n)
      BY <2>1, <3>1 DEF Reload
    <3>3. toTab' = Cut(toTab, C, 0)
      BY <2>1, <3>1 DEF Reload
    <3>4. toTab'[c] \in {<<>>, toTab[c]}
      BY <3>2, <3>3, LostRanges
    <3>5. QED  BY <1>3, <3>4
  <2>2. ASSUME Closed(p) PROVE Goal
    <3>1. toTab'[c] \in {<<>>, toTab[c]}
      BY <1>1, <2>2 DEF Closed
    <3>2. QED  BY <1>3, <3>1
  <2>3. ASSUME OnFrame(p) PROVE Goal
    <3>1. toTab'[c] = toTab[c] \/ (toTab[c] # <<>> /\ toTab'[c] = Tail(toTab[c]))
      BY <1>1, <2>3 DEF OnFrame
    <3>2. toTab[c] # <<>> => Range(Tail(toTab[c])) \subseteq Range(toTab[c])
      BY <1>1, RangeRest
    <3>3. QED  BY <3>1, <3>2
  <2>4. ASSUME NEW d \in Link, Connect(p, d) PROVE Goal
    <3>1. toTab'[c] \in {toTab[c], <<Hello>>}
      BY <1>1, <2>4 DEF Connect
    <3>2. Range(<<Hello>>) = {Hello}
      BY DEF Range
    <3>3. Hello.t = "hello"
      BY DEF Hello
    <3>4. QED  BY <3>1, <3>2, <3>3
  <2>5. (\E x \in called[p] : AnswerCallback(p, x)) \/ Opened(p) \/ Boot(p) => Goal
    BY <1>2 DEF AnswerCallback, Opened, Boot, linkVars
  <2>6. QED  BY <1>6, <2>1, <2>2, <2>3, <2>4, <2>5 DEF PageEvent
<1>7. ASSUME NEW p \in Tab, Page(p) PROVE Goal
  BY <1>2, <1>7 DEF Page, Invoke, ReleaseHandle, SyncMint, linkVars
<1>8. ASSUME NEW d \in Link, OnMessage(d) PROVE Goal
  <2>1. PICK g \in UpFrame : g = Head(toServer[d])
    BY <1>8, ReadTypes DEF OnMessage
  <2>2. CASE OnRequest(d, g)
    <3>1. Res(g, NoHandle) \in DownFrame /\ Res(g, NoHandle).t = "res"
      BY <2>2, UpFrameKinds, ServerFrames DEF OnRequest, Res
    <3>2. PICK r \in DownFrame : r = Res(g, NoHandle)
      BY <3>1
    <3>3. toTab' = toTab \/ Reply(d, r)
      BY <2>2, <3>2 DEF OnRequest
    <3>4. QED  BY <1>2, <1>4, <3>1, <3>2, <3>3
  <2>3. CASE OnRelease(d, g) \/ OnCallbackAnswer(d, g)
    BY <1>2, <2>3 DEF OnRelease, OnCallbackAnswer
  <2>4. QED  BY <1>8, <2>1, <2>2, <2>3 DEF OnMessage
<1>9. ASSUME NEW x \in tasks, Finish(x) PROVE Goal
  <2>1. PICK r \in DownFrame : r.t = "res" /\ Reply(x.link, r)
    <3>1. Res(x.req, NewHandle) \in DownFrame /\ Res(x.req, NoHandle) \in DownFrame
      BY ReadTypes, ServerFrames
    <3>2. \A h : Res(x.req, h).t = "res"
      BY DEF Res
    <3>3. QED  BY <1>9, <3>1, <3>2 DEF Finish
  <2>2. QED  BY <1>4, <2>1, ReadTypes
<1>10. ASSUME NEW x \in tasks, NEW withHandle \in BOOLEAN, CallBack(x, withHandle) PROVE Goal
  <2>1. x.link \in Link /\ x.req \in RequestType /\ nextCb \in 1 .. MaxCallbacks
    BY <1>10, ReadTypes, BridgeBounds DEF CallBack, TypeOK, ServerTypeOK
  <2>2. PICK h \in HandleType \cup {NoHandle} : Reply(x.link, CbReq(nextCb, h, x.req))
    BY <1>10, ServerFrames DEF CallBack, CallbackId
  <2>3. PICK r \in DownFrame : r = CbReq(nextCb, h, x.req)
    BY <2>1, <2>2, ServerFrames
  <2>4. r = CbReq(nextCb, r.h, x.req)
    BY <2>3 DEF CbReq
  <2>5. QED  BY <1>4, <1>10, <2>1, <2>2, <2>3, <2>4
<1>11. ASSUME NEW d \in Link, Drop(d) PROVE Goal
  <2>1. PICK C : C = {d}
    OBVIOUS
  <2>2. PICK n \in 0 .. Longest : toTab' = Cut(toTab, C, n)
    BY <1>11, <2>1 DEF Drop
  <2>3. QED  BY <1>5, <2>2
<1>12. Stop => Goal
  BY <1>5 DEF Stop
<1>13. ASSUME NEW d \in Link, SessionClosed(d) \/ Recycle(d) PROVE Goal
  BY <1>2, <1>13 DEF SessionClosed, Recycle
<1>14. Start \/ UNCHANGED vars => Goal
  BY <1>2 DEF Start, vars, linkVars
<1>15. QED
  BY <1>6, <1>7, <1>8, <1>9, <1>10, <1>11, <1>12, <1>13, <1>14 DEF Next, ServerEvent, NativeStep

\* Callback number n belongs to request r, in one of the places where they are named.
Numbered(n, r) ==
  \/ \E w \in waitingCb : w.id = n /\ w.req = r
  \/ \E p \in Tab : \E f \in called[p] : f.id = n /\ f.for = r
  \/ \E c \in Link : \E f \in Range(toTab[c]) : f.t = "cbreq" /\ f.id = n /\ f.for = r
  \/ \E s \in Source : \E f \in Range(Box(s)) : f.t = "cbres" /\ f.id = n /\ f.for = r

\* A number was counted, and belongs to one request.
CallbacksNumbered ==
  \A n, r : Numbered(n, r) => n \in Nat /\ n < nextCb /\ \A q : Numbered(n, q) => q = r

CallbackInv == epoch = 1 => CallbacksNumbered /\ CallbackAnswerMatches

\* A callback runs in the page that has just read its frame.
LEMMA CalledMoves ==
  ASSUME TypeOK, [Next]_vars, NEW p \in Tab, NEW f \in called'[p], f \notin called[p]
  PROVE  \E c \in Link : f \in Range(toTab[c]) /\ f.t = "cbreq"
<1>1. /\ called \in [Tab -> SUBSET CbReqType] /\ socket \in [Tab -> Link \cup {NoLink}]
      /\ toTab \in [Link -> Seq(DownFrame)]
  BY DEF TypeOK, TabsTypeOK, LinksTypeOK
<1>2. ASSUME NEW q \in Tab, OnFrame(q) PROVE \E c \in Link : f \in Range(toTab[c]) /\ f.t = "cbreq"
  <2>1. PICK c \in Link : c = socket[q]
    BY <1>1, <1>2 DEF OnFrame
  <2>2. toTab[c] # <<>> /\ toTab[c] \in Seq(DownFrame)
    BY <1>1, <1>2, <2>1 DEF OnFrame
  <2>3. PICK g : g = Head(toTab[c])
    OBVIOUS
  <2>4. OnResponse(q, g) \/ OnHello(q, g) \/ OnCallbackRequest(q, g)
    BY <1>2, <2>1, <2>3 DEF OnFrame
  <2>5. g.t = "cbreq" /\ called' = [called EXCEPT ![q] = called[q] \cup {g}]
    BY <2>4 DEF OnResponse, OnHello, OnCallbackRequest
  <2>6. f = g
    BY <1>1, <2>5
  <2>7. g \in Range(toTab[c])
    BY <2>2, <2>3, RangeRest
  <2>8. QED  BY <2>5, <2>6, <2>7
<1>3. ASSUME NEW q \in Tab, Page(q) PROVE FALSE
  BY <1>3 DEF Page, Invoke, ReleaseHandle, SyncMint
<1>4. ASSUME NEW q \in Tab, Opened(q) \/ Closed(q) \/ Boot(q) \/ \E c \in Link : Connect(q, c) PROVE FALSE
  BY <1>4 DEF Opened, Closed, Boot, Connect
<1>5. ASSUME NEW q \in Tab, Reload(q) \/ \E x \in called[q] : AnswerCallback(q, x) PROVE FALSE
  BY <1>1, <1>5 DEF Reload, AnswerCallback
<1>6. ASSUME NEW c \in Link, ServerEvent(c) \/ Drop(c) \/ Recycle(c) PROVE FALSE
  BY <1>6 DEF ServerEvent, OnMessage, SessionClosed, Drop, Recycle, tabVars
<1>7. ~NativeStep /\ ~Stop /\ ~Start /\ ~UNCHANGED vars
  BY DEF NativeStep, Finish, CallBack, Stop, Start, vars, tabVars
<1>8. QED  BY <1>2, <1>3, <1>4, <1>5, <1>6, <1>7 DEF Next, PageEvent

\* A step names no callback for a request, except the next one.
LEMMA NumberedStep ==
  ASSUME TypeOK, [Next]_vars, NEW n, NEW r, Numbered(n, r)'
  PROVE  \/ Numbered(n, r)
         \/ \E x \in tasks, withHandle \in BOOLEAN : CallBack(x, withHandle) /\ n = nextCb /\ r = x.req
<1> DEFINE New == \E x \in tasks, withHandle \in BOOLEAN : CallBack(x, withHandle) /\ n = nextCb /\ r = x.req
<1>1. ASSUME NEW w \in waitingCb', w.id = n, w.req = r PROVE Numbered(n, r) \/ New
  <2>1. CASE w \in waitingCb
    BY <1>1, <2>1 DEF Numbered
  <2>2. CASE w \notin waitingCb
    <3>1. PICK x \in tasks, withHandle \in BOOLEAN : CallBack(x, withHandle)
      BY ZenonT(60), <1>1, <2>2
         DEF Next, Page, PageEvent, ServerEvent, NativeStep, Invoke, ReleaseHandle, SyncMint,
             AnswerCallback, Opened, Closed, OnFrame, Reload, Boot, Connect, OnMessage, OnRequest,
             OnRelease, OnCallbackAnswer, Settle, Finish, SessionClosed, RejectCallbacks, Drop,
             Recycle, Stop, Start, serverVars, vars
    <3>2. n = nextCb /\ r = x.req
      BY <1>1, <2>2, <3>1 DEF CallBack, CallbackId
    <3>3. QED  BY <3>1, <3>2
  <2>3. QED  BY <2>1, <2>2
<1>2. ASSUME NEW p \in Tab, NEW f \in called'[p], f.id = n, f.for = r PROVE Numbered(n, r)
  BY <1>2, CalledMoves DEF Numbered
<1>3. ASSUME NEW c \in Link, NEW f \in Range(toTab'[c]), f.t = "cbreq", f.id = n, f.for = r
      PROVE  Numbered(n, r) \/ New
  <2>1. CASE f \in Range(toTab[c])
    BY <1>3, <2>1 DEF Numbered
  <2>2. ASSUME NEW x \in tasks, NEW withHandle \in BOOLEAN, CallBack(x, withHandle), f = CbReq(nextCb, f.h, x.req)
        PROVE  New
    <3>1. f.id = nextCb /\ f.for = x.req
      BY <2>2 DEF CbReq
    <3>2. QED  BY <1>3, <2>2, <3>1
  <2>3. QED  BY <1>3, <2>1, <2>2, DownMoves
<1>4. ASSUME NEW s \in Source, NEW f \in Range(Box(s)'), f.t = "cbres", f.id = n, f.for = r
      PROVE  Numbered(n, r)
  <2>1. CASE \E u \in Source : f \in Range(Box(u))
    BY <1>4, <2>1 DEF Numbered
  <2>2. CASE \E p \in Tab : \E x \in called[p] : f = CbRes(x)
    <3>0. PICK p \in Tab : \E x \in called[p] : f = CbRes(x)
      BY <2>2
    <3>1. PICK x \in called[p] : f = CbRes(x)
      BY <3>0
    <3>2. x.id = n /\ x.for = r
      BY <1>4, <3>1 DEF CbRes
    <3>3. QED  BY <3>1, <3>2 DEF Numbered
  <2>3. QED  BY <1>4, <2>1, <2>2, UpMoves
<1>5. QED  BY <1>1, <1>2, <1>3, <1>4 DEF Numbered

\* One native call at a time goes on to its callback.
LEMMA OneCallBack ==
  ASSUME TypeOK, NEW x \in tasks, NEW y \in tasks, NEW u \in BOOLEAN, NEW v \in BOOLEAN,
         CallBack(x, u), CallBack(y, v)
  PROVE  x = y
BY DEF CallBack, TypeOK, ServerTypeOK

\* The calls that an answer resumes are those that wait for it.
LEMMA ResumedStep ==
  ASSUME TypeOK, [Next]_vars, CallbacksNumbered, NEW a \in resumed', a \notin resumed
  PROVE  a[1] = a[2]
<1>1. ASSUME NEW c \in Link, OnMessage(c) PROVE a[1] = a[2]
  <2>1. toServer[c] \in Seq(UpFrame) /\ toServer[c] # <<>> /\ c \in Source /\ Box(c) = toServer[c]
    BY <1>1, BoxTyped DEF OnMessage, TypeOK, LinksTypeOK, Source
  <2>2. PICK f : f = Head(toServer[c])
    OBVIOUS
  <2>3. OnCallbackAnswer(c, f)
    <3>1. ~OnRequest(c, f) /\ ~OnRelease(c, f)
      BY DEF OnRequest, OnRelease, history
    <3>2. QED  BY <1>1, <2>2, <3>1 DEF OnMessage
  <2>4. PICK w \in waitingCb : w.id = f.id /\ a = <<w.req, f.for>>
    BY <2>3 DEF OnCallbackAnswer
  <2>5. Numbered(w.id, w.req)
    BY <2>4 DEF Numbered
  <2>6. f \in Range(Box(c)) /\ f.t = "cbres"
    BY <2>1, <2>2, <2>3, RangeRest DEF OnCallbackAnswer
  <2>7. Numbered(w.id, f.for)
    BY <2>1, <2>4, <2>6 DEF Numbered
  <2>8. w.req = f.for
    BY <2>5, <2>7 DEF CallbacksNumbered
  <2>9. QED  BY <2>4, <2>8
<1>2. ASSUME NEW p \in Tab, Page(p) PROVE FALSE
  BY <1>2 DEF Page, Invoke, ReleaseHandle, SyncMint, history
<1>3. ASSUME NEW p \in Tab, PageEvent(p) PROVE FALSE
  BY <1>3 DEF PageEvent, AnswerCallback, Opened, Closed, OnFrame, Reload, Boot, Connect, history
<1>4. ASSUME NEW c \in Link, SessionClosed(c) \/ Drop(c) \/ Recycle(c) PROVE FALSE
  BY <1>4 DEF SessionClosed, Drop, Recycle, history
<1>5. ~NativeStep /\ ~Stop /\ ~Start /\ ~UNCHANGED vars
  BY DEF NativeStep, Finish, CallBack, Stop, Start, vars, history
<1>6. QED  BY <1>1, <1>2, <1>3, <1>4, <1>5 DEF Next, ServerEvent

\* The process changes when another one starts; the counters of callbacks only grow.
LEMMA EpochStep ==
  ASSUME TypeOK, [Next]_vars
  PROVE  \/ Start /\ epoch' = epoch + 1
         \/ epoch' = epoch /\ nextCb' = nextCb
         \/ epoch' = epoch /\ nextCb' = nextCb + 1 /\ \E x \in tasks, withHandle \in BOOLEAN : CallBack(x, withHandle)
<1>1. ASSUME NEW p \in Tab, Page(p) \/ PageEvent(p) PROVE epoch' = epoch /\ nextCb' = nextCb
  BY <1>1 DEF Page, PageEvent, Invoke, ReleaseHandle, SyncMint, AnswerCallback, Opened, Closed, OnFrame,
              Reload, Boot, Connect, serverVars
<1>2. ASSUME NEW c \in Link, ServerEvent(c) \/ Drop(c) \/ Recycle(c) PROVE epoch' = epoch /\ nextCb' = nextCb
  BY <1>2 DEF ServerEvent, OnMessage, SessionClosed, Drop, Recycle, serverVars
<1>3. ASSUME NEW x \in tasks, Finish(x) PROVE epoch' = epoch /\ nextCb' = nextCb
  BY <1>3 DEF Finish
<1>4. ASSUME NEW x \in tasks, NEW withHandle \in BOOLEAN, CallBack(x, withHandle)
      PROVE  epoch' = epoch /\ nextCb' = nextCb + 1
  BY <1>4 DEF CallBack
<1>5. Stop \/ UNCHANGED vars => epoch' = epoch /\ nextCb' = nextCb
  BY DEF Stop, vars, serverVars
<1>6. Start => epoch' = epoch + 1
  BY DEF Start
<1>7. QED  BY <1>1, <1>2, <1>3, <1>4, <1>5, <1>6 DEF Next, NativeStep

\* Every step keeps callback answers matched to their requests.
LEMMA CallbackStep ==
  ASSUME CallbackInv, TypeOK, [Next]_vars
  PROVE  CallbackInv'
<1> SUFFICES ASSUME epoch' = 1 PROVE (CallbacksNumbered /\ CallbackAnswerMatches)'
  BY DEF CallbackInv
<1>1. epoch \in Nat \ {0} /\ nextCb \in Nat
  BY BridgeBounds DEF TypeOK, ServerTypeOK
<1>2. /\ epoch = 1
      /\ \/ nextCb' = nextCb
         \/ nextCb' = nextCb + 1 /\ \E x \in tasks, withHandle \in BOOLEAN : CallBack(x, withHandle)
  BY <1>1, EpochStep
<1>3. CallbacksNumbered /\ CallbackAnswerMatches
  BY <1>2 DEF CallbackInv
<1>4. \A n, r : Numbered(n, r) => n \in Nat /\ n < nextCb
  BY <1>3 DEF CallbacksNumbered
<1>5. \A x \in tasks, withHandle \in BOOLEAN : CallBack(x, withHandle) => nextCb' = nextCb + 1
  BY DEF CallBack
<1>6. CallbacksNumbered'
  <2> SUFFICES ASSUME NEW n, NEW r, Numbered(n, r)'
               PROVE  n \in Nat /\ n < nextCb' /\ \A q : Numbered(n, q)' => q = r
    BY DEF CallbacksNumbered
  <2>1. CASE Numbered(n, r)
    <3>1. n \in Nat /\ n < nextCb /\ n # nextCb
      BY <1>1, <1>4, <2>1
    <3>2. n < nextCb'
      <4>1. CASE nextCb' = nextCb
        BY <3>1, <4>1
      <4>2. CASE nextCb' = nextCb + 1
        BY <1>1, <3>1, <4>2
      <4>3. QED  BY <1>2, <4>1, <4>2
    <3>3. ASSUME NEW q, Numbered(n, q)' PROVE q = r
      <4>1. Numbered(n, q)
        BY <3>1, <3>3, NumberedStep
      <4>2. QED  BY <1>3, <2>1, <4>1 DEF CallbacksNumbered
    <3>4. QED  BY <3>1, <3>2, <3>3
  <2>2. ASSUME NEW x \in tasks, NEW withHandle \in BOOLEAN, CallBack(x, withHandle), n = nextCb, r = x.req
        PROVE  n \in Nat /\ n < nextCb' /\ \A q : Numbered(n, q)' => q = r
    <3>1. n \in Nat /\ n < nextCb'
      BY <1>1, <1>5, <2>2
    <3>2. \A q : ~Numbered(n, q)
      BY <1>1, <1>4, <2>2
    <3>3. ASSUME NEW q, Numbered(n, q)' PROVE q = r
      <4>1. PICK y \in tasks, other \in BOOLEAN : CallBack(y, other) /\ q = y.req
        BY <3>2, <3>3, NumberedStep
      <4>2. y = x
        BY <2>2, <4>1, OneCallBack
      <4>3. QED  BY <2>2, <4>1, <4>2
    <3>4. QED  BY <3>1, <3>3
  <2>3. QED  BY <2>1, <2>2, NumberedStep
<1>7. CallbackAnswerMatches'
  BY <1>3, ResumedStep DEF CallbackAnswerMatches
<1>8. QED  BY <1>6, <1>7

\* At the start no callback is under way.
LEMMA CallbackInit == Init => CallbackInv
<1> SUFFICES ASSUME Init PROVE CallbacksNumbered /\ CallbackAnswerMatches
  BY DEF CallbackInv
<1>1. /\ \A s \in Source : Box(s) = <<>>
      /\ \A c \in Link : toTab[c] = <<>>
      /\ \A p \in Tab : called[p] = {}
      /\ waitingCb = {} /\ resumed = {}
  BY DEF Init, Box, Source
<1>2. \A n, r : ~Numbered(n, r)
  BY <1>1, RangeOfNone DEF Numbered
<1>3. QED  BY <1>1, <1>2 DEF CallbacksNumbered, CallbackAnswerMatches

\* As long as the process the pages were served by lives, the answer of a callback resumes
\* the call that made it, however late it comes (native.node.ts handleCallbackResponse).
THEOREM AnswersMatchUntilRestart == Spec => [](epoch = 1 => CallbackAnswerMatches)
<1>1. TypeOK /\ CallbackInv /\ [Next]_vars => CallbackInv'
  BY CallbackStep
<1>2. CallbackInv => (epoch = 1 => CallbackAnswerMatches)
  BY DEF CallbackInv
<1>3. QED  BY <1>1, <1>2, CallbackInit, BridgeTypeCorrect, PTL DEF Spec

-----------------------------------------------------------------------------
(* Until the server restarts, the handles in use are registered. *)

\* The handles in frames: what a page calls with, gives back, and is told.
Uses(s, h)     == \E f \in Range(s) : f.t = "req" /\ f.h = h
Releases(s, h) == \E f \in Range(s) : f.t = "release" /\ f.h = h
Brings(s, h)   == \E f \in Range(s) : f.t \in {"res", "cbreq"} /\ f.h = h

\* No handle is brought twice; none is used after it was given back.
IsBringing(s, i) == s[i].t \in {"res", "cbreq"} /\ s[i].h # NoHandle

BroughtOnce(s) ==
  \A i, j \in 1 .. Len(s) :
    IsBringing(s, i) /\ IsBringing(s, j) /\ s[i].h = s[j].h => i = j

UsedBefore(s) ==
  \A i, j \in 1 .. Len(s) : s[i].t = "req" /\ s[j].t = "release" /\ s[i].h = s[j].h => i < j

\* What a page has at most written, and been told, when it has lost some of it.
LessUp(u, s) ==
  /\ \A h : (Uses(u, h) => Uses(s, h)) /\ (Releases(u, h) => Releases(s, h))
  /\ UsedBefore(s) => UsedBefore(u)

LessDown(u, s) ==
  /\ \A h \in HandleType : Brings(u, h) => Brings(s, h)
  /\ BroughtOnce(s) => BroughtOnce(u)

\* A queue that is part of another uses, releases and brings no more, in the same order.
LEMMA FewerFrames ==
  ASSUME NEW S, NEW s \in Seq(S), NEW u \in Seq(S), NEW d \in Nat,
         Len(u) + d <= Len(s), \A i \in 1 .. Len(u) : u[i] = s[i + d]
  PROVE  LessUp(u, s) /\ LessDown(u, s)
<1>1. Len(s) \in Nat /\ Len(u) \in Nat /\ DOMAIN s = 1 .. Len(s) /\ DOMAIN u = 1 .. Len(u)
  OBVIOUS
<1>2. \A i \in 1 .. Len(u) : i + d \in 1 .. Len(s) /\ u[i] = s[i + d]
  BY <1>1
<1>3. Range(u) \subseteq Range(s)
  BY <1>1, <1>2 DEF Range
<1>4. UsedBefore(s) => UsedBefore(u)
  <2> SUFFICES ASSUME UsedBefore(s), NEW i \in 1 .. Len(u), NEW j \in 1 .. Len(u),
                      u[i].t = "req", u[j].t = "release", u[i].h = u[j].h
               PROVE  i < j
    BY DEF UsedBefore
  <2>1. i + d \in 1 .. Len(s) /\ j + d \in 1 .. Len(s) /\ u[i] = s[i + d] /\ u[j] = s[j + d]
    BY <1>2
  <2>2. i + d < j + d
    BY <2>1 DEF UsedBefore
  <2>3. QED  BY <1>1, <2>2
<1>5. BroughtOnce(s) => BroughtOnce(u)
  <2> SUFFICES ASSUME BroughtOnce(s), NEW i \in 1 .. Len(u), NEW j \in 1 .. Len(u),
                      IsBringing(u, i), IsBringing(u, j), u[i].h = u[j].h
               PROVE  i = j
    BY DEF BroughtOnce
  <2>1. i + d \in 1 .. Len(s) /\ j + d \in 1 .. Len(s) /\ u[i] = s[i + d] /\ u[j] = s[j + d]
    BY <1>2
  <2>2. IsBringing(s, i + d) /\ IsBringing(s, j + d)
    BY <2>1 DEF IsBringing
  <2>3. i + d = j + d
    BY <2>1, <2>2 DEF BroughtOnce
  <2>4. QED  BY <1>1, <2>3
<1>6. QED  BY <1>3, <1>4, <1>5 DEF LessUp, LessDown, Uses, Releases, Brings

\* So it is for the rest of a queue that was read.
LEMMA FewerRest ==
  ASSUME NEW S, NEW s \in Seq(S), s # <<>>
  PROVE  LessUp(Tail(s), s) /\ LessDown(Tail(s), s)
<1>1. PICK u : u = Tail(s)
  OBVIOUS
<1>2. /\ u \in Seq(S) /\ Len(s) \in Nat /\ Len(u) = Len(s) - 1
      /\ \A i \in 1 .. Len(s) - 1 : u[i] = s[i + 1]
  BY <1>1, DropFrame
<1>3. Len(u) + 1 <= Len(s) /\ 1 \in Nat /\ \A i \in 1 .. Len(u) : u[i] = s[i + 1]
  BY <1>2
<1>4. LessUp(u, s) /\ LessDown(u, s)
  BY <1>2, <1>3, FewerFrames
<1>5. QED  BY <1>1, <1>4

\* And for the frames a break leaves.
LEMMA FewerPart ==
  ASSUME NEW S, NEW s \in Seq(S), NEW k \in 0 .. Len(s)
  PROVE  LessUp(SubSeq(s, 1, k), s) /\ LessDown(SubSeq(s, 1, k), s)
<1>1. PICK u : u = SubSeq(s, 1, k)
  OBVIOUS
<1>2. u \in Seq(S) /\ Len(u) = k /\ \A i \in 1 .. k : u[i] = s[i]
  BY <1>1, KeepFirst
<1>3. Len(s) \in Nat /\ k \in Nat
  OBVIOUS
<1>4. Len(u) + 0 <= Len(s) /\ 0 \in Nat /\ \A i \in 1 .. Len(u) : u[i] = s[i + 0]
  BY <1>2, <1>3
<1>5. LessUp(u, s) /\ LessDown(u, s)
  BY <1>2, <1>4, FewerFrames
<1>6. QED  BY <1>1, <1>5

\* An empty queue uses, releases and brings nothing.
LEMMA FewerNone ==
  /\ \A h : ~Uses(<<>>, h) /\ ~Releases(<<>>, h) /\ ~Brings(<<>>, h)
  /\ UsedBefore(<<>>) /\ BroughtOnce(<<>>)
  /\ \A s : LessUp(<<>>, s) /\ LessDown(<<>>, s) /\ LessUp(s, s) /\ LessDown(s, s)
<1>1. \A h : ~Uses(<<>>, h) /\ ~Releases(<<>>, h) /\ ~Brings(<<>>, h)
  BY RangeOfNone DEF Uses, Releases, Brings
<1>2. UsedBefore(<<>>) /\ BroughtOnce(<<>>)
  BY DEF UsedBefore, BroughtOnce
<1>3. QED  BY <1>1, <1>2 DEF LessUp, LessDown

\* A frame at the end of what a page has written.
LEMMA AddUp ==
  ASSUME NEW s \in Seq(UpFrame), NEW f \in UpFrame,
         f.t = "req" => ~Releases(s, f.h)
  PROVE  /\ \A h : Uses(Append(s, f), h) <=> Uses(s, h) \/ (f.t = "req" /\ f.h = h)
         /\ \A h : Releases(Append(s, f), h) <=> Releases(s, h) \/ (f.t = "release" /\ f.h = h)
         /\ UsedBefore(s) => UsedBefore(Append(s, f))
<1>1. PICK u : u = Append(s, f)
  OBVIOUS
<1>2. /\ u \in Seq(UpFrame) /\ Len(s) \in Nat /\ Len(u) = Len(s) + 1 /\ u[Len(s) + 1] = f
      /\ \A i \in 1 .. Len(s) : u[i] = s[i]
  BY <1>1, AddFrame
<1>3. Range(u) = Range(s) \cup {f}
  BY <1>1, RangeAdd
<1>4. UsedBefore(s) => UsedBefore(u)
  <2> SUFFICES ASSUME UsedBefore(s), NEW i \in 1 .. Len(u), NEW j \in 1 .. Len(u),
                      u[i].t = "req", u[j].t = "release", u[i].h = u[j].h
               PROVE  i < j
    BY DEF UsedBefore
  <2>1. CASE i \in 1 .. Len(s) /\ j \in 1 .. Len(s)
    <3>1. u[i] = s[i] /\ u[j] = s[j]
      BY <1>2, <2>1
    <3>2. QED  BY <2>1, <3>1 DEF UsedBefore
  <2>2. CASE i = Len(s) + 1
    <3>1. u[i] = f /\ i # j
      BY <1>2, <2>2
    <3>2. j \in 1 .. Len(s) /\ u[j] = s[j]
      BY <1>2, <2>2, <3>1
    <3>3. Releases(s, f.h)
      <4>1. s[j] \in Range(s)
        BY <3>2 DEF Range
      <4>2. QED  BY <3>1, <3>2, <4>1 DEF Releases
    <3>4. QED  BY <3>1, <3>3
  <2>3. CASE j = Len(s) + 1 /\ i \in 1 .. Len(s)
    BY <1>2, <2>3
  <2>4. QED  BY <1>2, <2>1, <2>2, <2>3
<1>5. QED  BY <1>1, <1>3, <1>4 DEF Uses, Releases

\* A queue behind what is on the link.
LEMMA JoinUp ==
  ASSUME NEW s \in Seq(UpFrame), NEW u \in Seq(UpFrame),
         \A h \in HandleType : ~(Releases(s, h) /\ Uses(u, h))
  PROVE  /\ \A h : Uses(s \o u, h) <=> Uses(s, h) \/ Uses(u, h)
         /\ \A h : Releases(s \o u, h) <=> Releases(s, h) \/ Releases(u, h)
         /\ UsedBefore(s) /\ UsedBefore(u) => UsedBefore(s \o u)
<1>1. PICK v : v = s \o u
  OBVIOUS
<1>2. /\ v \in Seq(UpFrame) /\ Len(s) \in Nat /\ Len(u) \in Nat /\ Len(v) = Len(s) + Len(u)
      /\ \A i \in 1 .. Len(s) : v[i] = s[i]
      /\ \A i \in 1 .. Len(u) : v[Len(s) + i] = u[i]
  BY <1>1, JoinFrames
<1>3. Range(v) = Range(s) \cup Range(u)
  BY <1>1, RangeJoin
<1>4. \A i \in 1 .. Len(v) : i \notin 1 .. Len(s) =>
        i - Len(s) \in 1 .. Len(u) /\ v[i] = u[i - Len(s)] /\ i > Len(s)
  <2> SUFFICES ASSUME NEW i \in 1 .. Len(v), i \notin 1 .. Len(s)
               PROVE  i - Len(s) \in 1 .. Len(u) /\ v[i] = u[i - Len(s)] /\ i > Len(s)
    OBVIOUS
  <2>1. i - Len(s) \in 1 .. Len(u) /\ i = Len(s) + (i - Len(s)) /\ i > Len(s)
    BY <1>2
  <2>2. v[Len(s) + (i - Len(s))] = u[i - Len(s)]
    BY <1>2, <2>1
  <2>3. QED  BY <2>1, <2>2
<1>5. UsedBefore(s) /\ UsedBefore(u) => UsedBefore(v)
  <2> SUFFICES ASSUME UsedBefore(s), UsedBefore(u), NEW i \in 1 .. Len(v), NEW j \in 1 .. Len(v),
                      v[i].t = "req", v[j].t = "release", v[i].h = v[j].h
               PROVE  i < j
    BY DEF UsedBefore
  <2>1. CASE i \in 1 .. Len(s) /\ j \in 1 .. Len(s)
    <3>1. v[i] = s[i] /\ v[j] = s[j]
      BY <1>2, <2>1
    <3>2. QED  BY <2>1, <3>1 DEF UsedBefore
  <2>2. CASE i \in 1 .. Len(s) /\ j \notin 1 .. Len(s)
    <3>1. j > Len(s) /\ i <= Len(s)
      BY <1>2, <1>4, <2>2
    <3>2. QED  BY <1>2, <3>1
  <2>3. CASE i \notin 1 .. Len(s) /\ j \notin 1 .. Len(s)
    <3>1. PICK k \in 1 .. Len(u) : k = i - Len(s) /\ v[i] = u[k]
      BY <1>4, <2>3
    <3>2. PICK l \in 1 .. Len(u) : l = j - Len(s) /\ v[j] = u[l]
      BY <1>4, <2>3
    <3>3. k < l
      BY <3>1, <3>2 DEF UsedBefore
    <3>4. QED  BY <1>2, <3>1, <3>2, <3>3
  <2>4. CASE i \notin 1 .. Len(s) /\ j \in 1 .. Len(s)
    <3>1. PICK k \in 1 .. Len(u) : v[i] = u[k]
      BY <1>4, <2>4
    <3>2. v[j] = s[j] /\ s[j] \in Range(s) /\ s[j] \in UpFrame
      BY <1>2, <2>4 DEF Range
    <3>3. u[k] \in Range(u)
      BY DEF Range
    <3>4. PICK h : h = s[j].h
      OBVIOUS
    <3>5. h \in HandleType
      BY <3>2, <3>4, UpFrameKinds
    <3>6. Releases(s, h) /\ Uses(u, h)
      BY <3>1, <3>2, <3>3, <3>4 DEF Releases, Uses
    <3>7. QED  BY <3>5, <3>6
  <2>5. QED  BY <2>1, <2>2, <2>3, <2>4
<1>6. QED  BY <1>1, <1>3, <1>5 DEF Uses, Releases

\* A frame for a page that tells it a handle, or none.
LEMMA AddDown ==
  ASSUME NEW s \in Seq(DownFrame), NEW f \in DownFrame, f.t \in {"res", "cbreq"},
         f.h = NoHandle \/ ~Brings(s, f.h)
  PROVE  /\ \A h : Brings(Append(s, f), h) <=> Brings(s, h) \/ f.h = h
         /\ BroughtOnce(s) => BroughtOnce(Append(s, f))
<1>1. PICK u : u = Append(s, f)
  OBVIOUS
<1>2. /\ u \in Seq(DownFrame) /\ Len(s) \in Nat /\ Len(u) = Len(s) + 1 /\ u[Len(s) + 1] = f
      /\ \A i \in 1 .. Len(s) : u[i] = s[i]
  BY <1>1, AddFrame
<1>3. Range(u) = Range(s) \cup {f}
  BY <1>1, RangeAdd
<1>4. BroughtOnce(s) => BroughtOnce(u)
  <2> SUFFICES ASSUME BroughtOnce(s), NEW i \in 1 .. Len(u), NEW j \in 1 .. Len(u),
                      IsBringing(u, i), IsBringing(u, j), u[i].h = u[j].h
               PROVE  i = j
    BY DEF BroughtOnce
  <2>1. ASSUME NEW k \in 1 .. Len(s), IsBringing(u, k), u[k].h = f.h, f.h # NoHandle PROVE FALSE
    <3>1. u[k] = s[k] /\ s[k] \in Range(s)
      BY <1>2 DEF Range
    <3>2. QED  BY <2>1, <3>1 DEF IsBringing, Brings
  <2>2. CASE i \in 1 .. Len(s) /\ j \in 1 .. Len(s)
    <3>1. u[i] = s[i] /\ u[j] = s[j]
      BY <1>2, <2>2
    <3>2. QED  BY <2>2, <3>1 DEF BroughtOnce, IsBringing
  <2>3. CASE i = Len(s) + 1
    <3>1. u[i] = f /\ f.h # NoHandle
      BY <1>2, <2>3 DEF IsBringing
    <3>2. j \notin 1 .. Len(s)
      BY <2>1, <3>1
    <3>3. QED  BY <1>2, <2>3, <3>2
  <2>4. CASE j = Len(s) + 1
    <3>1. u[j] = f /\ f.h # NoHandle
      BY <1>2, <2>4 DEF IsBringing
    <3>2. i \notin 1 .. Len(s)
      BY <2>1, <3>1
    <3>3. QED  BY <1>2, <2>4, <3>2
  <2>5. QED  BY <1>2, <2>2, <2>3, <2>4
<1>5. QED  BY <1>1, <1>3, <1>4 DEF Brings

\* The first frame for a page, or of it.
LEMMA HeadBrings ==
  ASSUME NEW s \in Seq(DownFrame), s # <<>>, Head(s).t \in {"res", "cbreq"},
         Head(s).h \in HandleType, BroughtOnce(s)
  PROVE  Brings(s, Head(s).h) /\ ~Brings(Tail(s), Head(s).h)
<1>1. PICK u : u = Tail(s)
  OBVIOUS
<1>2. /\ u \in Seq(DownFrame) /\ Len(s) \in Nat /\ Len(s) >= 1 /\ Len(u) = Len(s) - 1 /\ Head(s) = s[1]
      /\ \A i \in 1 .. Len(s) - 1 : u[i] = s[i + 1]
  BY <1>1, DropFrame
<1>3. Head(s) \in Range(s)
  BY RangeRest
<1>4. ASSUME Brings(u, Head(s).h) PROVE FALSE
  <2>1. PICK i \in 1 .. Len(u) : u[i].t \in {"res", "cbreq"} /\ u[i].h = Head(s).h
    BY <1>2, <1>4 DEF Brings, Range
  <2>2. i + 1 \in 1 .. Len(s) /\ u[i] = s[i + 1] /\ 1 \in 1 .. Len(s) /\ i + 1 # 1
    BY <1>2
  <2>3. IsBringing(s, i + 1) /\ IsBringing(s, 1) /\ s[i + 1].h = s[1].h
    BY <1>2, <2>1, <2>2, NoHandleIsNone DEF IsBringing
  <2>4. QED  BY <2>2, <2>3 DEF BroughtOnce
<1>5. QED  BY <1>1, <1>3, <1>4 DEF Brings

\* A release that is read frees a handle no later frame uses.
LEMMA HeadReleases ==
  ASSUME NEW s \in Seq(UpFrame), s # <<>>, Head(s).t = "release", UsedBefore(s)
  PROVE  Releases(s, Head(s).h) /\ ~Uses(Tail(s), Head(s).h)
<1>1. PICK u : u = Tail(s)
  OBVIOUS
<1>2. /\ u \in Seq(UpFrame) /\ Len(s) \in Nat /\ Len(s) >= 1 /\ Len(u) = Len(s) - 1 /\ Head(s) = s[1]
      /\ \A i \in 1 .. Len(s) - 1 : u[i] = s[i + 1]
  BY <1>1, DropFrame
<1>3. Head(s) \in Range(s)
  BY RangeRest
<1>4. ASSUME Uses(u, Head(s).h) PROVE FALSE
  <2>1. PICK i \in 1 .. Len(u) : u[i].t = "req" /\ u[i].h = Head(s).h
    BY <1>2, <1>4 DEF Uses, Range
  <2>2. i + 1 \in 1 .. Len(s) /\ u[i] = s[i + 1] /\ 1 \in 1 .. Len(s) /\ ~(i + 1 < 1)
    BY <1>2
  <2>3. s[i + 1].t = "req" /\ s[1].t = "release" /\ s[i + 1].h = s[1].h
    BY <1>2, <2>1, <2>2
  <2>4. QED  BY <2>2, <2>3 DEF UsedBefore
<1>5. QED  BY <1>1, <1>3, <1>4 DEF Releases

\* The other facts about links: the tab at an end is the link's, no frame is on its way to a
\* session that closed, and nothing waits in a queue while the link works.
Quiet ==
  /\ \A c \in Link : owner[c] \in Tab => socket[owner[c]] = c
  /\ \A c \in Link : ~session[c] => toServer[c] = <<>>
  /\ \A c \in Link : link[c] = "free" => ~session[c]
  /\ \A p \in Tab : socket[p] \in Link /\ link[socket[p]] = "up" => queue[p] = <<>>

\* A tab sends into its own link or its own queue only.
LEMMA QuietSend ==
  ASSUME Quiet, Ends, TypeOK, NEW p \in Tab, NEW f \in UpFrame, SendFrame(p, f),
         UNCHANGED <<socket, owner, link, session>>
  PROVE  Quiet'
<1>1. /\ toServer \in [Link -> Seq(UpFrame)] /\ queue \in [Tab -> Seq(UpFrame)]
  BY DEF TypeOK, TabsTypeOK, LinksTypeOK
<1>2. CASE /\ socket[p] \in Link /\ link[socket[p]] = "up" /\ queue' = queue
           /\ toServer' = [toServer EXCEPT ![socket[p]] = Append(toServer[socket[p]], f)]
  <2>1. PICK c \in Link : c = socket[p]
    BY <1>2
  <2>2. session[c]
    BY <1>2, <2>1 DEF Ends, Usable
  <2>3. \A d \in Link : ~session[d] => toServer'[d] = toServer[d]
    BY <1>1, <1>2, <2>1, <2>2
  <2>4. QED  BY <1>2, <2>3 DEF Quiet
<1>3. CASE /\ ~(socket[p] \in Link /\ link[socket[p]] = "up") /\ toServer' = toServer
           /\ \A q \in Tab : q # p => queue'[q] = queue[q]
  BY <1>3 DEF Quiet
<1>4. QED  BY <1>1, <1>2, <1>3, SendFrameFacts

\* The page lets go of its socket, or links break.
LEMMA QuietLetGo ==
  ASSUME Quiet, Ends, TypeOK, NEW p \in Tab, socket[p] \in Link,
         socket' = [socket EXCEPT ![p] = NoLink],
         owner' = [owner EXCEPT ![socket[p]] = <<>>],
         link' = Down({socket[p]}), session' = session,
         \A c \in Link : toServer[c] = <<>> => toServer'[c] = <<>>,
         \A q \in Tab : q # p => queue'[q] = queue[q]
  PROVE  Quiet'
<1>1. /\ socket \in [Tab -> Link \cup {NoLink}] /\ owner \in [Link -> Tab \cup {<<>>}]
      /\ NoLink \notin Link /\ LinksTypeOK /\ <<>> \notin Tab
  BY BridgeBounds DEF TypeOK, TabsTypeOK, LinksTypeOK
<1>2. PICK c \in Link : c = socket[p]
  OBVIOUS
<1>3. /\ socket'[p] = NoLink /\ \A q \in Tab : q # p => socket'[q] = socket[q] /\ socket[q] # c
  BY <1>1, <1>2, OwnSocket
<1>4. owner'[c] = <<>> /\ \A d \in Link : d # c => owner'[d] = owner[d]
  BY <1>1, <1>2
<1>5. \A d \in Link : (link'[d] = "free" <=> link[d] = "free") /\ (d # c => link'[d] = link[d])
  BY <1>1, <1>2, DownFacts
<1>6. ASSUME NEW d \in Link, owner'[d] \in Tab PROVE socket'[owner'[d]] = d
  <2>1. d # c /\ owner'[d] = owner[d] /\ socket[owner[d]] = d
    BY <1>1, <1>4, <1>6 DEF Quiet
  <2>2. owner[d] # p
    BY <1>2, <2>1
  <2>3. QED  BY <1>3, <1>6, <2>1, <2>2
<1>7. ASSUME NEW q \in Tab, socket'[q] \in Link, link'[socket'[q]] = "up" PROVE queue'[q] = <<>>
  <2>1. q # p /\ socket'[q] = socket[q] /\ socket[q] # c
    BY <1>1, <1>3, <1>7
  <2>2. link[socket[q]] = "up"
    BY <1>5, <1>7, <2>1
  <2>3. QED  BY <1>7, <2>1, <2>2 DEF Quiet
<1>8. \A d \in Link : (~session'[d] => toServer'[d] = <<>>) /\ (link'[d] = "free" => ~session'[d])
  BY <1>5 DEF Quiet
<1>9. QED  BY <1>6, <1>7, <1>8 DEF Quiet

\* Links that break go quiet.
LEMMA QuietBreak ==
  ASSUME Quiet, TypeOK, NEW C, link' = Down(C), UNCHANGED <<socket, owner, queue>>,
         \A c \in Link : session'[c] => session[c],
         \A c \in Link : toServer[c] = <<>> \/ session[c] # session'[c] => toServer'[c] = <<>>
  PROVE  Quiet'
<1>1. LinksTypeOK /\ socket \in [Tab -> Link \cup {NoLink}]
  BY DEF TypeOK, TabsTypeOK
<1>2. \A c \in Link : (link'[c] = "free" <=> link[c] = "free") /\ (link'[c] = "up" => link[c] = "up")
  <2>1. \A c \in Link : c \in C => Down(C)[c] # "up"
    BY <1>1, DownFacts DEF Usable
  <2>2. QED  BY <1>1, <2>1, DownFacts
<1>3. \A p \in Tab : socket'[p] \in Link /\ link'[socket'[p]] = "up" => queue'[p] = <<>>
  BY <1>2 DEF Quiet
<1>4. \A c \in Link : (~session'[c] => toServer'[c] = <<>>) /\ (link'[c] = "free" => ~session'[c])
  BY <1>2 DEF Quiet
<1>5. \A c \in Link : owner'[c] \in Tab => socket'[owner'[c]] = c
  BY DEF Quiet
<1>6. QED  BY <1>3, <1>4, <1>5 DEF Quiet

\* What is cut from nothing is nothing.
LEMMA CutNothing ==
  ASSUME TypeOK, NEW C, NEW n \in 0 .. Longest, NEW c \in Link, toServer[c] = <<>>
  PROVE  Cut(toServer, C, n)[c] = <<>>
<1>1. toServer \in [Link -> Seq(UpFrame)]
  BY DEF TypeOK, LinksTypeOK
<1>2. PICK k \in 0 .. Len(toServer[c]) : Cut(toServer, C, n)[c] = SubSeq(toServer[c], 1, k)
  BY <1>1, CutKeepsFirst
<1>3. k = 0 /\ SubSeq(toServer[c], 1, 0) = <<>>
  BY <1>2
<1>4. QED  BY <1>2, <1>3

\* Every step keeps closed sessions and unowned links quiet.
LEMMA QuietStep ==
  ASSUME Quiet, Ends, TypeOK, [Next]_vars
  PROVE  Quiet'
<1> /\ socket \in [Tab -> Link \cup {NoLink}] /\ owner \in [Link -> Tab \cup {<<>>}]
    /\ link \in [Link -> {"free", "opening", "up", "refused", "broken"}]
    /\ session \in [Link -> BOOLEAN] /\ queue \in [Tab -> Seq(UpFrame)]
    /\ toServer \in [Link -> Seq(UpFrame)] /\ NoLink \notin Link /\ LinksTypeOK
  BY BridgeBounds DEF TypeOK, TabsTypeOK, LinksTypeOK
<1>0. UNCHANGED <<socket, owner, link, session, queue, toServer>> => Quiet'
  BY DEF Quiet
<1>1. ASSUME NEW p \in Tab, Page(p) PROVE Quiet'
  <2>1. ASSUME NEW op \in Ops \ {"sync"}, NEW h \in held[p] \cup {NoHandle}, Invoke(p, op, h) PROVE Quiet'
    <3>1. Req(p, op, h) \in UpFrame /\ SendFrame(p, Req(p, op, h))
      BY <2>1, PageFrames DEF Invoke
    <3>2. QED  BY <2>1, <3>1, QuietSend DEF Invoke
  <2>2. ASSUME NEW h \in held[p], ReleaseHandle(p, h) PROVE Quiet'
    <3>1. Release(h) \in UpFrame /\ SendFrame(p, Release(h))
      BY <2>2, PageFrames DEF ReleaseHandle
    <3>2. QED  BY <2>2, <3>1, QuietSend DEF ReleaseHandle
  <2>3. SyncMint(p) => Quiet'
    BY <1>0 DEF SyncMint, linkVars
  <2>4. QED  BY <1>1, <2>1, <2>2, <2>3 DEF Page
<1>2. ASSUME NEW p \in Tab, PageEvent(p) PROVE Quiet'
  <2>1. ASSUME NEW x \in called[p], AnswerCallback(p, x) PROVE Quiet'
    <3>1. CbRes(x) \in UpFrame /\ SendFrame(p, CbRes(x))
      BY <2>1, PageFrames DEF AnswerCallback
    <3>2. QED  BY <2>1, <3>1, QuietSend DEF AnswerCallback
  <2>2. ASSUME Opened(p) PROVE Quiet'
    <3>1. PICK c \in Link : c = socket[p]
      BY <2>2 DEF Opened
    <3>2. /\ link' = [link EXCEPT ![c] = "up"] /\ link[c] = "opening" /\ UNCHANGED <<socket, owner, session>>
          /\ queue' = [queue EXCEPT ![p] = <<>>] /\ toServer' = [toServer EXCEPT ![c] = toServer[c] \o queue[p]]
      BY <2>2, <3>1 DEF Opened, Flush
    <3>3. session[c]
      BY <3>2 DEF Ends, Usable
    <3>4. \A d \in Link : ~session'[d] => toServer'[d] = <<>>
      BY <3>2, <3>3 DEF Quiet
    <3>5. \A d \in Link : link'[d] = "free" => ~session'[d]
      BY <3>2, <3>3 DEF Quiet
    <3>6. ASSUME NEW q \in Tab, socket'[q] \in Link, link'[socket'[q]] = "up" PROVE queue'[q] = <<>>
      <4>1. CASE q = p
        BY <3>2, <4>1
      <4>2. CASE q # p
        <5>1. socket[q] # c
          BY <3>1, <4>2, OwnSocket
        <5>2. link[socket[q]] = "up"
          BY <3>2, <3>6, <5>1
        <5>3. QED  BY <3>2, <3>6, <4>2, <5>2 DEF Quiet
      <4>3. QED  BY <4>1, <4>2
    <3>7. QED  BY <3>2, <3>4, <3>5, <3>6 DEF Quiet
  <2>3. ASSUME Closed(p) PROVE Quiet'
    <3>1. socket[p] \in Link /\ link[socket[p]] \in Gone
      BY <2>3 DEF Closed
    <3>2. Down({socket[p]}) = link
      <4>1. \A c \in Link : Down({socket[p]})[c] = link[c]
        BY <3>1, DownFacts
      <4>2. QED  BY <4>1 DEF Down
    <3>3. QED  BY <2>3, <3>1, <3>2, QuietLetGo DEF Closed
  <2>4. ASSUME Reload(p) PROVE Quiet'
    <3>1. PICK C : C = {socket[p]}
      OBVIOUS
    <3>2. PICK n \in 0 .. Longest : toServer' = Cut(toServer, C, n)
      BY <2>4, <3>1 DEF Reload
    <3>3. \A c \in Link : toServer[c] = <<>> => toServer'[c] = <<>>
      BY <3>2, CutNothing
    <3>4. \A q \in Tab : q # p => queue'[q] = queue[q]
      BY <2>4 DEF Reload
    <3>5. CASE socket[p] \in Link
      <4>1. owner' = [owner EXCEPT ![socket[p]] = <<>>]
        BY <2>4, <3>5 DEF Reload
      <4>2. QED  BY <2>4, <3>3, <3>4, <3>5, <4>1, QuietLetGo DEF Reload
    <3>6. CASE socket[p] = NoLink
      <4>1. socket' = socket /\ session' = session /\ \A c \in Link : owner'[c] = owner[c] /\ link'[c] = link[c]
        BY <2>4, <3>6, DownFacts DEF Reload
      <4>2. QED  BY <3>3, <3>4, <3>6, <4>1 DEF Quiet
    <3>7. QED  BY <3>5, <3>6
  <2>5. ASSUME NEW c \in Link, Connect(p, c) PROVE Quiet'
    <3>1. /\ socket' = [socket EXCEPT ![p] = c] /\ owner' = [owner EXCEPT ![c] = p]
          /\ link[c] = "free" /\ socket[p] = NoLink /\ owner[c] = <<>> /\ UNCHANGED <<queue, toServer>>
      BY <2>5 DEF Connect, Ends
    <3>2. \A d \in Link : d # c => link'[d] = link[d] /\ session'[d] = session[d]
      BY <2>5 DEF Connect
    <3>3. link'[c] \in {"opening", "refused"} /\ (~session'[c] => ~session[c])
      BY <2>5 DEF Connect
    <3>4. \A d \in Link : ~session'[d] => toServer'[d] = <<>>
      BY <3>1, <3>2, <3>3 DEF Quiet
    <3>5. \A d \in Link : link'[d] = "free" => ~session'[d]
      BY <3>2, <3>3 DEF Quiet
    <3>6. \A d \in Link : owner'[d] \in Tab => socket'[owner'[d]] = d
      BY <3>1 DEF Quiet
    <3>7. \A q \in Tab : socket'[q] \in Link /\ link'[socket'[q]] = "up" => queue'[q] = <<>>
      BY <3>1, <3>2, <3>3 DEF Quiet
    <3>8. QED  BY <3>4, <3>5, <3>6, <3>7 DEF Quiet
  <2>6. OnFrame(p) \/ Boot(p) => Quiet'
    BY <1>0 DEF OnFrame, Boot, linkVars
  <2>7. QED  BY <1>2, <2>1, <2>2, <2>3, <2>4, <2>5, <2>6 DEF PageEvent
<1>3. ASSUME NEW c \in Link, OnMessage(c) PROVE Quiet'
  <2>1. /\ session[c] /\ UNCHANGED <<socket, owner, link, session, queue>>
        /\ toServer' = [toServer EXCEPT ![c] = Tail(toServer[c])]
    BY <1>3 DEF OnMessage, tabVars
  <2>2. \A d \in Link : ~session[d] => toServer'[d] = toServer[d]
    BY <2>1
  <2>3. QED  BY <2>1, <2>2 DEF Quiet
<1>4. NativeStep => Quiet'
  BY <1>0 DEF NativeStep, Finish, CallBack, tabVars
<1>5. ASSUME NEW c \in Link, SessionClosed(c) \/ Recycle(c) PROVE Quiet'
  <2>1. CASE SessionClosed(c)
    BY <2>1 DEF SessionClosed, tabVars, Quiet
  <2>2. CASE Recycle(c)
    BY <2>2 DEF Recycle, tabVars, Quiet
  <2>3. QED  BY <1>5, <2>1, <2>2
<1>6. ASSUME NEW c \in Link, Drop(c) PROVE Quiet'
  <2>1. PICK C : C = {c}
    OBVIOUS
  <2>2. PICK n \in 0 .. Longest : toServer' = Cut(toServer, C, n)
    BY <1>6, <2>1 DEF Drop
  <2>3. link' = Down(C) /\ UNCHANGED <<socket, owner, session, queue>>
    BY <1>6, <2>1 DEF Drop, tabVars
  <2>4. \A d \in Link : toServer[d] = <<>> => toServer'[d] = <<>>
    BY <2>2, CutNothing
  <2>5. QED  BY <2>3, <2>4, QuietBreak
<1>7. ASSUME Stop PROVE Quiet'
  <2>1. link' = Down(Link) /\ UNCHANGED <<socket, owner, queue>> /\ session' = [c \in Link |-> FALSE]
        /\ toServer' = Cut(toServer, Link, 0)
    BY <1>7 DEF Stop, tabVars
  <2>2. \A c \in Link : toServer'[c] = <<>>
    <3>1. \A c \in Link : Cut(toServer, Link, 0)[c] = IF c \in Link THEN <<>> ELSE toServer[c]
      <4>1. toServer \in [Link -> Seq(UpFrame)]
        OBVIOUS
      <4>2. QED  BY <4>1, CutAll
    <3>2. QED  BY <2>1, <3>1
  <2>3. QED  BY <2>1, <2>2, QuietBreak
<1>8. Start \/ UNCHANGED vars => Quiet'
  BY <1>0 DEF Start, vars, tabVars, linkVars
<1>9. QED  BY <1>1, <1>2, <1>3, <1>4, <1>5, <1>6, <1>7, <1>8 DEF Next, ServerEvent

\* At the start everything is quiet.
LEMMA QuietInit == Init => Quiet
BY BridgeBounds DEF Init, Quiet

\* The page still looks at this end.
Open(s) == s \in Tab \/ owner[s] # <<>>

Known(h) == h.epoch = 1 /\ h.id \in registry

\* A handle that a page has is registered, and nobody gives it back.
HeldKnown == \A p \in Tab : \A h \in held[p] : Known(h) /\ \A s \in Source : ~Releases(Box(s), h)

\* So is one that a page will be told.
BroughtKnown ==
  \A c \in Link : \A h \in HandleType : Brings(toTab[c], h) => Known(h) /\ \A s \in Source : ~Releases(Box(s), h)

\* A handle has one holder, or is told to one page, once.
OneHolder ==
  /\ \A p, q \in Tab : p # q => held[p] \cap held[q] = {}
  /\ \A p \in Tab, c \in Link : \A h \in held[p] : ~Brings(toTab[c], h)
  /\ \A c, d \in Link : \A h \in HandleType : Brings(toTab[c], h) /\ Brings(toTab[d], h) => c = d
  /\ \A c \in Link : BroughtOnce(toTab[c])

\* A handle in a call on its way is registered, and only the caller holds it.
UsedKnown ==
  \A s \in Source : \A h \in HandleType : Open(s) /\ Uses(Box(s), h) =>
    /\ Known(h) /\ \A c \in Link : ~Brings(toTab[c], h)
    /\ \A q \in Tab : h \in held[q] => s = q \/ (s \in Link /\ owner[s] = q)

\* A call goes before the release of its handle, if only on the link before the queue.
UsedFirst ==
  /\ \A s \in Source : UsedBefore(Box(s))
  /\ \A s, u \in Source : \A h \in HandleType :
       s # u /\ Open(s) /\ Uses(Box(s), h) /\ Releases(Box(u), h) => s \in Link /\ owner[s] = u

\* Released handles were made here.
ReleasedOld == \A s \in Source : \A h \in HandleType : Releases(Box(s), h) => h.epoch = 1 /\ h.id < nextHandle

HandlesInv == HeldKnown /\ BroughtKnown /\ OneHolder /\ UsedKnown /\ UsedFirst /\ ReleasedOld

\* Steps after which there is less in flight, and no less registered.
LEMMA HandlesShrink ==
  ASSUME HandlesInv, TypeOK,
         \A p \in Tab : held'[p] \subseteq held[p],
         registry \subseteq registry', nextHandle' \in Nat, nextHandle <= nextHandle',
         \A s \in Source : LessUp(Box(s)', Box(s)),
         \A c \in Link : LessDown(toTab'[c], toTab[c]),
         \A c \in Link : owner'[c] = owner[c] \/ owner'[c] = <<>> \/ toServer'[c] = <<>>
  PROVE  HandlesInv'
<1>0. /\ held \in [Tab -> SUBSET HandleType] /\ nextHandle \in Nat
      /\ \A c \in Link : c \notin Tab /\ Box(c)' = toServer'[c]
  BY BridgeBounds DEF TypeOK, TabsTypeOK, ServerTypeOK, Box
<1>1. \A h : Known(h) => Known(h)'
  BY DEF Known
<1>2. \A s \in Source : \A h : /\ Uses(Box(s)', h) => Uses(Box(s), h)
                               /\ Releases(Box(s)', h) => Releases(Box(s), h)
  BY DEF LessUp
<1>3. \A c \in Link : \A h \in HandleType : Brings(toTab'[c], h) => Brings(toTab[c], h)
  BY DEF LessDown
<1>4. HeldKnown'
  BY <1>1, <1>2 DEF HandlesInv, HeldKnown
<1>5. BroughtKnown'
  BY <1>1, <1>2, <1>3 DEF HandlesInv, BroughtKnown
<1>6. OneHolder'
  <2>1. \A c \in Link : BroughtOnce(toTab'[c])
    BY DEF LessDown, HandlesInv, OneHolder
  <2>2. \A p \in Tab, c \in Link : \A h \in held'[p] : ~Brings(toTab'[c], h)
    BY <1>0, <1>3 DEF HandlesInv, OneHolder
  <2>3. \A p, q \in Tab : p # q => held'[p] \cap held'[q] = {}
    BY DEF HandlesInv, OneHolder
  <2>4. \A c, d \in Link : \A h \in HandleType : Brings(toTab'[c], h) /\ Brings(toTab'[d], h) => c = d
    BY <1>3 DEF HandlesInv, OneHolder
  <2>5. QED  BY <2>1, <2>2, <2>3, <2>4 DEF OneHolder
<1>7. ASSUME NEW s \in Source, NEW h \in HandleType, Open(s)', Uses(Box(s)', h)
      PROVE  Open(s) /\ Uses(Box(s), h) /\ (s \in Link => owner'[s] = owner[s])
  <2>1. Uses(Box(s), h)
    BY <1>2, <1>7
  <2>2. ASSUME s \in Link PROVE owner'[s] = owner[s] /\ owner[s] # <<>>
    <3>1. owner'[s] # <<>> /\ toServer'[s] # <<>>
      BY <1>0, <1>7, <2>2, FewerNone DEF Open
    <3>2. QED  BY <2>2, <3>1
  <2>3. QED  BY <2>1, <2>2 DEF Open, Source
<1>8. UsedKnown'
  BY <1>0, <1>1, <1>3, <1>7 DEF HandlesInv, UsedKnown
<1>9. UsedFirst'
  <2>1. \A s \in Source : UsedBefore(Box(s)')
    BY DEF LessUp, HandlesInv, UsedFirst
  <2>2. ASSUME NEW s \in Source, NEW u \in Source, NEW h \in HandleType,
               s # u, Open(s)', Uses(Box(s)', h), Releases(Box(u)', h)
        PROVE  s \in Link /\ owner'[s] = u
    <3>1. Releases(Box(u), h)
      BY <1>2, <2>2
    <3>2. QED  BY <1>7, <2>2, <3>1 DEF HandlesInv, UsedFirst
  <2>3. QED  BY <2>1, <2>2 DEF UsedFirst
<1>10. ReleasedOld'
  <2> SUFFICES ASSUME NEW s \in Source, NEW h \in HandleType, Releases(Box(s)', h)
               PROVE  h.epoch = 1 /\ h.id < nextHandle'
    BY DEF ReleasedOld
  <2>1. h.epoch = 1 /\ h.id < nextHandle /\ h.id \in Nat
    BY <1>2 DEF HandlesInv, ReleasedOld, HandleType
  <2>2. QED  BY <1>0, <2>1
<1>11. QED  BY <1>4, <1>5, <1>6, <1>8, <1>9, <1>10 DEF HandlesInv

\* A new handle is nowhere yet.
LEMMA NewHandleNowhere ==
  ASSUME HandlesInv, TypeOK, epoch = 1
  PROVE  /\ NewHandle \in HandleType
         /\ \A p \in Tab : NewHandle \notin held[p]
         /\ \A c \in Link : ~Brings(toTab[c], NewHandle)
         /\ \A s \in Source : ~Releases(Box(s), NewHandle) /\ (Open(s) => ~Uses(Box(s), NewHandle))
<1>1. /\ nextHandle \in Nat \ {0} /\ registry \subseteq 1 .. nextHandle - 1
      /\ NewHandle.id = nextHandle /\ NewHandle \in HandleType
  BY ServerFrames DEF TypeOK, ServerTypeOK, NewHandle
<1>2. ~Known(NewHandle)
  <2>1. nextHandle \notin 1 .. nextHandle - 1
    BY <1>1
  <2>2. QED  BY <1>1, <2>1 DEF Known
<1>3. ~(nextHandle < nextHandle)
  BY <1>1
<1>4. \A s \in Source : ~Releases(Box(s), NewHandle)
  BY <1>1, <1>3 DEF HandlesInv, ReleasedOld
<1>5. QED  BY <1>1, <1>2, <1>4 DEF HandlesInv, HeldKnown, BroughtKnown, UsedKnown

\* The frames at the pages' ends stay, and one page is given or told a new handle.
LEMMA HandlesFresh ==
  ASSUME HandlesInv, TypeOK, epoch = 1, StoreHandle, UNCHANGED <<queue, toServer, owner>>,
         \/ /\ toTab' = toTab
            /\ \E p \in Tab : held' = [held EXCEPT ![p] = held[p] \cup {NewHandle}]
         \/ /\ held' = held
            /\ \E c \in Link, f \in DownFrame :
                 f.t \in {"res", "cbreq"} /\ f.h = NewHandle /\ Reply(c, f)
  PROVE  HandlesInv'
<1>0. /\ held \in [Tab -> SUBSET HandleType] /\ nextHandle \in Nat \ {0}
      /\ toTab \in [Link -> Seq(DownFrame)]
      /\ nextHandle' = nextHandle + 1 /\ registry' = registry \cup {nextHandle}
  BY DEF TypeOK, TabsTypeOK, LinksTypeOK, ServerTypeOK, StoreHandle, NewHandle
<1>1. PICK n : n = NewHandle
  OBVIOUS
<1>2. /\ n \in HandleType /\ \A p \in Tab : n \notin held[p]
      /\ \A c \in Link : ~Brings(toTab[c], n)
      /\ \A s \in Source : ~Releases(Box(s), n) /\ (Open(s) => ~Uses(Box(s), n))
  BY <1>1, NewHandleNowhere
<1>3. Known(n)' /\ \A h : Known(h) => Known(h)'
  BY <1>0, <1>1 DEF Known, NewHandle
<1>4. \A s \in Source : Box(s)' = Box(s) /\ Open(s)' = Open(s)
  BY DEF Box, Open
<1> DEFINE Placed ==
          /\ \A p \in Tab : held'[p] \subseteq held[p] \cup {n}
          /\ \A c \in Link : \A h \in HandleType : Brings(toTab'[c], h) => Brings(toTab[c], h) \/ h = n
          /\ \A p, q \in Tab : n \in held'[p] /\ n \in held'[q] => p = q
          /\ \A c, d \in Link : Brings(toTab'[c], n) /\ Brings(toTab'[d], n) => c = d
          /\ \A p \in Tab, c \in Link : ~(n \in held'[p] /\ Brings(toTab'[c], n))
          /\ \A c \in Link : BroughtOnce(toTab'[c])
<1>5. Placed
  <2>1. ASSUME NEW p \in Tab, toTab' = toTab, held' = [held EXCEPT ![p] = held[p] \cup {n}]
        PROVE  Placed
    <3>1. held'[p] = held[p] \cup {n} /\ \A q \in Tab : q # p => held'[q] = held[q]
      BY <1>0, <2>1
    <3>2. QED  BY <1>2, <2>1, <3>1 DEF HandlesInv, OneHolder
  <2>2. ASSUME held' = held, NEW c \in Link, NEW f \in DownFrame, f.t \in {"res", "cbreq"}, f.h = n, Reply(c, f)
        PROVE  Placed
    <3>1. toTab[c] \in Seq(DownFrame)
      BY <1>0
    <3>2. /\ \A h : Brings(Append(toTab[c], f), h) <=> Brings(toTab[c], h) \/ h = n
          /\ BroughtOnce(toTab[c]) => BroughtOnce(Append(toTab[c], f))
      BY <1>2, <2>2, <3>1, AddDown
    <3>3. \A d \in Link : toTab'[d] = toTab[d] \/ (d = c /\ toTab'[d] = Append(toTab[d], f))
      BY <1>0, <2>2 DEF Reply
    <3>4. /\ \A d \in Link : \A h \in HandleType : Brings(toTab'[d], h) => Brings(toTab[d], h) \/ (h = n /\ d = c)
          /\ \A d \in Link : BroughtOnce(toTab'[d])
      BY <3>2, <3>3 DEF HandlesInv, OneHolder
    <3>5. QED  BY <1>2, <2>2, <3>4
  <2>3. QED  BY <1>1, <2>1, <2>2
<1>6. HeldKnown'
  <2>1. \A p \in Tab : \A h \in held'[p] : Known(h)' /\ \A s \in Source : ~Releases(Box(s), h)
    BY <1>2, <1>3, <1>5 DEF HandlesInv, HeldKnown
  <2>2. QED  BY <1>4, <2>1 DEF HeldKnown
<1>7. BroughtKnown'
  <2>1. \A c \in Link : \A h \in HandleType : Brings(toTab'[c], h) =>
          Known(h)' /\ \A s \in Source : ~Releases(Box(s), h)
    BY <1>2, <1>3, <1>5 DEF HandlesInv, BroughtKnown
  <2>2. QED  BY <1>4, <2>1 DEF BroughtKnown
<1>8. OneHolder'
  <2>1. \A p, q \in Tab : p # q => held'[p] \cap held'[q] = {}
    BY <1>5 DEF HandlesInv, OneHolder
  <2>2. \A p \in Tab, c \in Link : \A h \in held'[p] : ~Brings(toTab'[c], h)
    BY <1>0, <1>2, <1>5 DEF HandlesInv, OneHolder
  <2>3. \A c, d \in Link : \A h \in HandleType : Brings(toTab'[c], h) /\ Brings(toTab'[d], h) => c = d
    BY <1>5 DEF HandlesInv, OneHolder
  <2>4. QED  BY <1>5, <2>1, <2>2, <2>3 DEF OneHolder
<1>9. UsedKnown'
  <2> SUFFICES ASSUME NEW s \in Source, NEW h \in HandleType, Open(s), Uses(Box(s), h)
               PROVE  /\ Known(h)' /\ \A c \in Link : ~Brings(toTab'[c], h)
                      /\ \A q \in Tab : h \in held'[q] => s = q \/ (s \in Link /\ owner[s] = q)
    BY <1>4 DEF UsedKnown
  <2>1. h # n
    BY <1>2
  <2>2. QED  BY <1>3, <1>5, <2>1 DEF HandlesInv, UsedKnown
<1>10. UsedFirst'
  BY <1>4 DEF HandlesInv, UsedFirst
<1>11. ReleasedOld'
  <2> SUFFICES ASSUME NEW s \in Source, NEW h \in HandleType, Releases(Box(s), h)
               PROVE  h.epoch = 1 /\ h.id < nextHandle'
    BY <1>4 DEF ReleasedOld
  <2>1. h.epoch = 1 /\ h.id < nextHandle /\ h.id \in Nat
    BY DEF HandlesInv, ReleasedOld, HandleType
  <2>2. QED  BY <1>0, <2>1
<1>12. QED  BY <1>6, <1>7, <1>8, <1>9, <1>10, <1>11 DEF HandlesInv

\* A page has written a frame: which box has it.
LEMMA Written ==
  ASSUME TypeOK, NEW p \in Tab, NEW f \in UpFrame, SendFrame(p, f),
         f.t = "req" => \A s \in Source : ~Releases(Box(s), f.h)
  PROVE  \E t \in Source :
           /\ t = p \/ (t \in Link /\ t = socket[p] /\ link[t] = "up")
           /\ \A s \in Source : \A h :
                /\ Uses(Box(s)', h) => Uses(Box(s), h) \/ (f.t = "req" /\ f.h = h /\ s = t)
                /\ Releases(Box(s)', h) => Releases(Box(s), h) \/ (f.t = "release" /\ f.h = h /\ s = t)
                /\ UsedBefore(Box(s)) => UsedBefore(Box(s)')
<1>1. PICK t \in Source : /\ t = p \/ (t \in Link /\ t = socket[p] /\ link[t] = "up")
                          /\ Box(t)' \in {Box(t), Append(Box(t), f)}
                          /\ \A s \in Source : s # t => Box(s)' = Box(s)
  BY SentToOneBox
<1>2. Box(t) \in Seq(UpFrame)
  BY BoxTyped
<1>3. /\ \A h : Uses(Append(Box(t), f), h) <=> Uses(Box(t), h) \/ (f.t = "req" /\ f.h = h)
      /\ \A h : Releases(Append(Box(t), f), h) <=> Releases(Box(t), h) \/ (f.t = "release" /\ f.h = h)
      /\ UsedBefore(Box(t)) => UsedBefore(Append(Box(t), f))
  BY <1>2, AddUp
<1>4. QED  BY <1>1, <1>3

\* The absent handle is never released.
LEMMA NothingToRelease ==
  ASSUME TypeOK
  PROVE  \A s \in Source : ~Releases(Box(s), NoHandle)
<1>1. ASSUME NEW s \in Source, NEW f \in Range(Box(s)), f.t = "release" PROVE f.h # NoHandle
  BY <1>1, BoxFrames, UpFrameKinds, NoHandleIsNone
<1>2. QED  BY <1>1 DEF Releases

\* A call uses a handle its tab holds, behind whatever the tab sent before.
LEMMA HandlesInvoke ==
  ASSUME HandlesInv, TypeOK, Ends, NEW p \in Tab, NEW op \in Ops \ {"sync"}, NEW h \in held[p] \cup {NoHandle},
         Invoke(p, op, h)
  PROVE  HandlesInv'
<1>1. PICK f : f = Req(p, op, h)
  OBVIOUS
<1>2. /\ f \in UpFrame /\ SendFrame(p, f) /\ f.t = "req" /\ f.h = h
      /\ UNCHANGED <<held, owner, toTab, registry, nextHandle>>
  BY <1>1, PageFrames DEF Invoke, Req, serverVars
<1>3. \A s \in Source : ~Releases(Box(s), h)
  BY NothingToRelease DEF HandlesInv, HeldKnown
<1>4. PICK t \in Source :
        /\ t = p \/ (t \in Link /\ t = socket[p] /\ link[t] = "up")
        /\ \A s \in Source : \A k : /\ Uses(Box(s)', k) => Uses(Box(s), k) \/ (k = h /\ s = t)
                                    /\ Releases(Box(s)', k) => Releases(Box(s), k)
                                    /\ UsedBefore(Box(s)) => UsedBefore(Box(s)')
  BY <1>2, <1>3, Written
<1>5. t = p \/ (t \in Link /\ owner[t] = p)
  BY <1>4 DEF Ends
<1>6. HeldKnown' /\ BroughtKnown'
  <2>1. \A k : Known(k) => Known(k)'
    BY <1>2 DEF Known
  <2>2. HeldKnown'
    BY <1>2, <1>4, <2>1 DEF HandlesInv, HeldKnown
  <2>3. BroughtKnown'
    BY <1>2, <1>4, <2>1 DEF HandlesInv, BroughtKnown
  <2>4. QED  BY <2>2, <2>3
<1>7. OneHolder'
  BY <1>2 DEF HandlesInv, OneHolder
<1>8. UsedKnown'
  <2> SUFFICES ASSUME NEW s \in Source, NEW k \in HandleType, Open(s)', Uses(Box(s)', k)
               PROVE  /\ Known(k) /\ \A c \in Link : ~Brings(toTab[c], k)
                      /\ \A q \in Tab : k \in held[q] => s = q \/ (s \in Link /\ owner[s] = q)
    BY <1>2 DEF UsedKnown, Known
  <2>1. Open(s)
    BY <1>2 DEF Open
  <2>2. CASE Uses(Box(s), k)
    BY <2>1, <2>2 DEF HandlesInv, UsedKnown
  <2>3. CASE k = h /\ s = t
    <3>1. h \in held[p]
      BY <2>3, NoHandleIsNone
    <3>2. Known(h) /\ \A c \in Link : ~Brings(toTab[c], h)
      BY <3>1 DEF HandlesInv, HeldKnown, OneHolder
    <3>3. \A q \in Tab : h \in held[q] => q = p
      BY <3>1 DEF HandlesInv, OneHolder
    <3>4. QED  BY <1>5, <2>3, <3>2, <3>3
  <2>4. QED  BY <1>4, <2>2, <2>3
<1>9. UsedFirst'
  <2>1. \A s \in Source : UsedBefore(Box(s)')
    BY <1>4 DEF HandlesInv, UsedFirst
  <2>2. ASSUME NEW s \in Source, NEW u \in Source, NEW k \in HandleType,
               s # u, Open(s)', Uses(Box(s)', k), Releases(Box(u)', k)
        PROVE  s \in Link /\ owner'[s] = u
    <3>1. Open(s) /\ Releases(Box(u), k)
      BY <1>2, <1>4, <2>2 DEF Open
    <3>2. k # h
      BY <1>3, <3>1
    <3>3. Uses(Box(s), k)
      BY <1>4, <2>2, <3>2
    <3>4. QED  BY <1>2, <2>2, <3>1, <3>3 DEF HandlesInv, UsedFirst
  <2>3. QED  BY <2>1, <2>2 DEF UsedFirst
<1>10. ReleasedOld'
  BY <1>2, <1>4 DEF HandlesInv, ReleasedOld
<1>11. QED  BY <1>6, <1>7, <1>8, <1>9, <1>10 DEF HandlesInv

\* The page gives a handle back: it has used it before, in the same box or on its link.
LEMMA HandlesGiveBack ==
  ASSUME HandlesInv, TypeOK, Ends, Quiet, NEW p \in Tab, NEW h \in held[p], ReleaseHandle(p, h)
  PROVE  HandlesInv'
<1>1. PICK f : f = Release(h)
  OBVIOUS
<1>2. /\ f \in UpFrame /\ SendFrame(p, f) /\ f.t = "release" /\ f.h = h
      /\ UNCHANGED <<owner, toTab, registry, nextHandle>> /\ held \in [Tab -> SUBSET HandleType]
  BY <1>1, PageFrames DEF ReleaseHandle, Release, serverVars, TypeOK, TabsTypeOK
<1>3. PICK t \in Source :
        /\ t = p \/ (t \in Link /\ t = socket[p] /\ link[t] = "up")
        /\ \A s \in Source : \A k : /\ Uses(Box(s)', k) => Uses(Box(s), k)
                                    /\ Releases(Box(s)', k) => Releases(Box(s), k) \/ (k = h /\ s = t)
                                    /\ UsedBefore(Box(s)) => UsedBefore(Box(s)')
  BY <1>2, Written
<1>4. held'[p] = held[p] \ {h} /\ \A q \in Tab : q # p => held'[q] = held[q] /\ h \notin held[q]
  BY <1>2 DEF ReleaseHandle, HandlesInv, OneHolder
<1>5. /\ \A q \in Tab : held'[q] \subseteq held[q] /\ h \notin held'[q]
      /\ \A c \in Link : ~Brings(toTab[c], h)
      /\ Known(h) /\ h \in HandleType
  BY <1>2, <1>4 DEF HandlesInv, HeldKnown, OneHolder
<1>6. \A k : Known(k) => Known(k)'
  BY <1>2 DEF Known
<1>7. HeldKnown'
  BY <1>3, <1>5, <1>6 DEF HandlesInv, HeldKnown
<1>8. BroughtKnown'
  BY <1>2, <1>3, <1>5, <1>6 DEF HandlesInv, BroughtKnown
<1>9. OneHolder'
  <2>1. \A q, r \in Tab : q # r => held'[q] \cap held'[r] = {}
    BY <1>5 DEF HandlesInv, OneHolder
  <2>2. \A q \in Tab, c \in Link : \A k \in held'[q] : ~Brings(toTab'[c], k)
    BY <1>2, <1>5 DEF HandlesInv, OneHolder
  <2>3. QED  BY <1>2, <2>1, <2>2 DEF HandlesInv, OneHolder
<1>10. UsedKnown'
  <2> SUFFICES ASSUME NEW s \in Source, NEW k \in HandleType, Open(s)', Uses(Box(s)', k)
               PROVE  /\ Known(k) /\ \A c \in Link : ~Brings(toTab[c], k)
                      /\ \A q \in Tab : k \in held'[q] => s = q \/ (s \in Link /\ owner[s] = q)
    BY <1>2 DEF UsedKnown, Known
  <2>1. Open(s) /\ Uses(Box(s), k)
    BY <1>2, <1>3 DEF Open
  <2>2. QED  BY <1>5, <2>1 DEF HandlesInv, UsedKnown
<1>11. UsedFirst'
  <2>1. \A s \in Source : UsedBefore(Box(s)')
    BY <1>3 DEF HandlesInv, UsedFirst
  <2>2. ASSUME NEW s \in Source, NEW u \in Source, NEW k \in HandleType,
               s # u, Open(s)', Uses(Box(s)', k), Releases(Box(u)', k)
        PROVE  s \in Link /\ owner'[s] = u
    <3>1. Open(s) /\ Uses(Box(s), k)
      BY <1>2, <1>3, <2>2 DEF Open
    <3>2. CASE Releases(Box(u), k)
      BY <1>2, <2>2, <3>1, <3>2 DEF HandlesInv, UsedFirst
    <3>3. CASE k = h /\ u = t
      <4>1. s = p \/ (s \in Link /\ owner[s] = p)
        BY <3>1, <3>3 DEF HandlesInv, UsedKnown
      <4>2. CASE t = p
        BY <1>2, <2>2, <3>3, <4>1, <4>2
      <4>3. CASE t \in Link /\ t = socket[p] /\ link[t] = "up"
        <5>1. s # p
          <6>1. Box(p) = <<>>
            BY <4>3, BoxTyped DEF Quiet
          <6>2. QED  BY <3>1, <6>1, FewerNone
        <5>2. s \in Link /\ owner[s] = p /\ socket[p] = s
          BY <4>1, <5>1 DEF Quiet
        <5>3. QED  BY <2>2, <3>3, <4>3, <5>2
      <4>4. QED  BY <1>3, <4>2, <4>3
    <3>4. QED  BY <1>3, <2>2, <3>2, <3>3
  <2>3. QED  BY <2>1, <2>2 DEF UsedFirst
<1>12. ReleasedOld'
  <2>1. h.epoch = 1 /\ h.id < nextHandle
    BY <1>5 DEF Known, TypeOK, ServerTypeOK, HandleType
  <2>2. QED  BY <1>2, <1>3, <2>1 DEF HandlesInv, ReleasedOld
<1>13. QED  BY <1>7, <1>8, <1>9, <1>10, <1>11, <1>12 DEF HandlesInv

\* An answer of a callback is about no handle.
LEMMA HandlesAnswer ==
  ASSUME HandlesInv, TypeOK, NEW p \in Tab, NEW x \in called[p], AnswerCallback(p, x)
  PROVE  HandlesInv'
<1>1. PICK f : f = CbRes(x)
  OBVIOUS
<1>2. f \in UpFrame /\ SendFrame(p, f) /\ f.t = "cbres" /\ UNCHANGED <<held, owner, toTab, registry, nextHandle>>
  BY <1>1, PageFrames DEF AnswerCallback, CbRes, serverVars
<1>3. \A s \in Source : LessUp(Box(s)', Box(s))
  BY <1>2, Written DEF LessUp
<1>4. \A c \in Link : LessDown(toTab'[c], toTab[c])
  BY <1>2, FewerNone
<1>5. nextHandle' \in Nat /\ nextHandle <= nextHandle'
  BY <1>2 DEF TypeOK, ServerTypeOK
<1>6. QED  BY <1>2, <1>3, <1>4, <1>5, HandlesShrink

\* The queue goes behind what is on the link.
LEMMA HandlesOpened ==
  ASSUME HandlesInv, TypeOK, Ends, Quiet, NEW p \in Tab, Opened(p)
  PROVE  HandlesInv'
<1>1. PICK c \in Link : c = socket[p]
  BY DEF Opened, TypeOK, TabsTypeOK
<1>2. /\ toServer \in [Link -> Seq(UpFrame)] /\ queue \in [Tab -> Seq(UpFrame)]
      /\ toServer' = [toServer EXCEPT ![c] = toServer[c] \o queue[p]] /\ queue' = [queue EXCEPT ![p] = <<>>]
      /\ UNCHANGED <<held, owner, toTab, registry, nextHandle>>
      /\ owner[c] = p /\ owner \in [Link -> Tab \cup {<<>>}]
  BY <1>1 DEF Opened, Flush, serverVars, TypeOK, TabsTypeOK, LinksTypeOK, Ends
<1>3. /\ p \in Source /\ c \in Source /\ c # p
      /\ Box(p) = queue[p] /\ Box(c) = toServer[c]
      /\ Box(p)' = <<>> /\ Box(c)' = toServer[c] \o queue[p]
      /\ \A s \in Source : s # p /\ s # c => Box(s)' = Box(s)
  <2>1. \A d \in Link : d \notin Tab
    BY BridgeBounds
  <2>2. QED  BY <1>2, <2>1 DEF Source, Box
<1>4. \A s \in Source : Open(s)' = Open(s)
  BY <1>2 DEF Open
<1>5. Open(p) /\ Open(c)
  BY <1>2, BridgeBounds DEF Open
<1>6. \A h \in HandleType : ~(Releases(toServer[c], h) /\ Uses(queue[p], h))
  <2>1. p \notin Link
    BY BridgeBounds
  <2>2. QED  BY <1>3, <1>5, <2>1 DEF HandlesInv, UsedFirst
<1>7. /\ \A h : Uses(toServer[c] \o queue[p], h) <=> Uses(toServer[c], h) \/ Uses(queue[p], h)
      /\ \A h : Releases(toServer[c] \o queue[p], h) <=> Releases(toServer[c], h) \/ Releases(queue[p], h)
      /\ UsedBefore(toServer[c]) /\ UsedBefore(queue[p]) => UsedBefore(toServer[c] \o queue[p])
  <2>1. toServer[c] \in Seq(UpFrame) /\ queue[p] \in Seq(UpFrame)
    BY <1>2
  <2>2. QED  BY <1>6, <2>1, JoinUp
<1>8. \A s \in Source : \A h \in HandleType :
        /\ Uses(Box(s)', h) => s # p /\ (Uses(Box(s), h) \/ (s = c /\ Uses(Box(p), h)))
        /\ Releases(Box(s)', h) => s # p /\ (Releases(Box(s), h) \/ (s = c /\ Releases(Box(p), h)))
  BY <1>3, <1>7, FewerNone
<1>9. \A k : Known(k) => Known(k)'
  BY <1>2 DEF Known
<1>10. HeldKnown'
  <2>1. \A q \in Tab : held[q] \subseteq HandleType
    BY DEF TypeOK, TabsTypeOK
  <2>2. QED  BY <1>2, <1>3, <1>8, <1>9, <2>1 DEF HandlesInv, HeldKnown
<1>11. BroughtKnown'
  BY <1>2, <1>3, <1>8, <1>9 DEF HandlesInv, BroughtKnown
<1>12. OneHolder'
  BY <1>2 DEF HandlesInv, OneHolder
<1>13. UsedKnown'
  <2> SUFFICES ASSUME NEW s \in Source, NEW h \in HandleType, Open(s), Uses(Box(s)', h)
               PROVE  /\ Known(h) /\ \A d \in Link : ~Brings(toTab[d], h)
                      /\ \A q \in Tab : h \in held[q] => s = q \/ (s \in Link /\ owner[s] = q)
    BY <1>2, <1>4 DEF UsedKnown, Known
  <2>1. CASE Uses(Box(s), h)
    BY <2>1 DEF HandlesInv, UsedKnown
  <2>2. CASE s = c /\ Uses(Box(p), h)
    <3>1. /\ Known(h) /\ \A d \in Link : ~Brings(toTab[d], h)
          /\ \A q \in Tab : h \in held[q] => p = q \/ (p \in Link /\ owner[p] = q)
      BY <1>3, <1>5, <2>2 DEF HandlesInv, UsedKnown
    <3>2. p \notin Link
      BY BridgeBounds
    <3>3. QED  BY <1>2, <2>2, <3>1, <3>2
  <2>3. QED  BY <1>8, <2>1, <2>2
<1>14. UsedFirst'
  <2>1. \A s \in Source : UsedBefore(Box(s)')
    BY <1>3, <1>7, FewerNone DEF HandlesInv, UsedFirst
  <2>2. ASSUME NEW s \in Source, NEW u \in Source, NEW h \in HandleType,
               s # u, Open(s), Uses(Box(s)', h), Releases(Box(u)', h)
        PROVE  s \in Link /\ owner[s] = u
    <3>1. PICK v \in Source : (v = s \/ (v = p /\ s = c)) /\ Uses(Box(v), h) /\ Open(v)
      BY <1>3, <1>5, <1>8, <2>2
    <3>2. PICK w \in Source : (w = u \/ (w = p /\ u = c)) /\ Releases(Box(w), h)
      BY <1>3, <1>8, <2>2
    <3>3. s # p /\ u # p
      BY <1>8, <2>2
    <3>4. v # w
      BY <2>2, <3>1, <3>2, <3>3
    <3>5. v \in Link /\ owner[v] = w
      BY <3>1, <3>2, <3>4 DEF HandlesInv, UsedFirst
    <3>6. v = s
      BY <3>1, <3>5, BridgeBounds
    <3>7. CASE w = u
      BY <3>5, <3>6, <3>7
    <3>8. CASE w = p /\ u = c
      <4>1. socket[p] = s
        BY <3>5, <3>6, <3>8 DEF Quiet
      <4>2. QED  BY <1>1, <2>2, <3>8, <4>1
    <3>9. QED  BY <3>2, <3>7, <3>8
  <2>3. QED  BY <1>2, <1>4, <2>1, <2>2 DEF UsedFirst
<1>15. ReleasedOld'
  BY <1>2, <1>3, <1>8 DEF HandlesInv, ReleasedOld
<1>16. QED  BY <1>10, <1>11, <1>12, <1>13, <1>14, <1>15 DEF HandlesInv

\* Frames lost on a link, and those the server has read or the page has given up.
LEMMA LostFewer ==
  ASSUME TypeOK, NEW C, NEW n \in 0 .. Longest, NEW c \in Link
  PROVE  LessUp(Cut(toServer, C, n)[c], toServer[c]) /\ LessDown(Cut(toTab, C, n)[c], toTab[c])
<1>1. toServer \in [Link -> Seq(UpFrame)] /\ toTab \in [Link -> Seq(DownFrame)]
  BY DEF TypeOK, LinksTypeOK
<1>2. LessUp(Cut(toServer, C, n)[c], toServer[c])
  <2>1. toServer \in [Link -> Seq(UpFrame)]
    BY <1>1
  <2>2. PICK k \in 0 .. Len(toServer[c]) : Cut(toServer, C, n)[c] = SubSeq(toServer[c], 1, k)
    BY <2>1, CutKeepsFirst
  <2>3. toServer[c] \in Seq(UpFrame)
    BY <1>1
  <2>4. QED  BY <2>2, <2>3, FewerPart
<1>3. LessDown(Cut(toTab, C, n)[c], toTab[c])
  <2>1. toTab \in [Link -> Seq(DownFrame)]
    BY <1>1
  <2>2. PICK k \in 0 .. Len(toTab[c]) : Cut(toTab, C, n)[c] = SubSeq(toTab[c], 1, k)
    BY <2>1, CutKeepsFirst
  <2>3. toTab[c] \in Seq(DownFrame)
    BY <1>1
  <2>4. QED  BY <2>2, <2>3, FewerPart
<1>4. QED  BY <1>2, <1>3

\* HandlesShrink, link by link and queue by queue.
LEMMA HandlesLess ==
  ASSUME HandlesInv, TypeOK, UNCHANGED <<registry, nextHandle>>,
         \A p \in Tab : held'[p] \subseteq held[p] /\ (queue'[p] = queue[p] \/ queue'[p] = <<>>),
         \A c \in Link : LessUp(toServer'[c], toServer[c]) /\ LessDown(toTab'[c], toTab[c]),
         \A c \in Link : owner'[c] = owner[c] \/ owner'[c] = <<>> \/ toServer'[c] = <<>>
  PROVE  HandlesInv'
<1>1. \A c \in Link : c \notin Tab
  BY BridgeBounds
<1>2. \A s \in Source : LessUp(Box(s)', Box(s))
  BY <1>1, FewerNone DEF Source, Box
<1>3. nextHandle' \in Nat /\ nextHandle <= nextHandle'
  BY DEF TypeOK, ServerTypeOK
<1>4. QED  BY <1>2, <1>3, HandlesShrink

\* A connection keeps the order of uses and releases.
LEMMA HandlesConnect ==
  ASSUME HandlesInv, TypeOK, Ends, Quiet, NEW p \in Tab, NEW c \in Link, Connect(p, c)
  PROVE  HandlesInv'
<1>1. /\ owner \in [Link -> Tab \cup {<<>>}] /\ toTab \in [Link -> Seq(DownFrame)]
      /\ UNCHANGED <<held, queue, toServer, registry, nextHandle>>
      /\ owner' = [owner EXCEPT ![c] = p] /\ link[c] = "free"
  BY DEF Connect, serverVars, TypeOK, LinksTypeOK
<1>2. toServer'[c] = <<>>
  BY <1>1 DEF Quiet
<1>3. LessDown(<<Hello>>, toTab[c])
  <2>1. Range(<<Hello>>) = {Hello} /\ Len(<<Hello>>) = 1 /\ <<Hello>>[1] = Hello /\ Hello.t = "hello"
    BY DEF Range, Hello
  <2>2. \A h : ~Brings(<<Hello>>, h)
    BY <2>1 DEF Brings
  <2>3. BroughtOnce(<<Hello>>)
    BY <2>1 DEF BroughtOnce
  <2>4. QED  BY <2>2, <2>3 DEF LessDown
<1>4. \A d \in Link : toTab'[d] = toTab[d] \/ (d = c /\ toTab'[d] = <<Hello>>)
  BY <1>1 DEF Connect
<1>5. \A d \in Link : LessUp(toServer'[d], toServer[d]) /\ LessDown(toTab'[d], toTab[d])
  BY <1>1, <1>3, <1>4, FewerNone
<1>6. \A d \in Link : owner'[d] = owner[d] \/ owner'[d] = <<>> \/ toServer'[d] = <<>>
  BY <1>1, <1>2
<1>7. QED  BY <1>1, <1>5, <1>6, HandlesLess

\* A closed link takes no handle from the registry.
LEMMA HandlesClosed ==
  ASSUME HandlesInv, TypeOK, NEW p \in Tab, Closed(p)
  PROVE  HandlesInv'
<1>1. /\ owner \in [Link -> Tab \cup {<<>>}] /\ toTab \in [Link -> Seq(DownFrame)]
      /\ UNCHANGED <<held, queue, toServer, registry, nextHandle>>
      /\ owner' = [owner EXCEPT ![socket[p]] = <<>>] /\ toTab' = [toTab EXCEPT ![socket[p]] = <<>>]
  BY DEF Closed, serverVars, TypeOK, LinksTypeOK
<1>2. \A d \in Link : LessUp(toServer'[d], toServer[d]) /\ LessDown(toTab'[d], toTab[d])
  BY <1>1, FewerNone
<1>3. QED  BY <1>1, <1>2, HandlesLess

\* A reload gives up what the tab held and keeps the account.
LEMMA HandlesReload ==
  ASSUME HandlesInv, TypeOK, NEW p \in Tab, Reload(p)
  PROVE  HandlesInv'
<1>1. /\ held \in [Tab -> SUBSET HandleType] /\ queue \in [Tab -> Seq(UpFrame)]
      /\ UNCHANGED <<registry, nextHandle>> /\ toTab \in [Link -> Seq(DownFrame)]
      /\ held' = [held EXCEPT ![p] = {}] /\ queue' = [queue EXCEPT ![p] = <<>>]
      /\ owner' = [c \in Link |-> IF c = socket[p] THEN <<>> ELSE owner[c]]
  BY DEF Reload, serverVars, TypeOK, TabsTypeOK, LinksTypeOK
<1>2. PICK C : C = {socket[p]}
  OBVIOUS
<1>3. PICK n \in 0 .. Longest : toServer' = Cut(toServer, C, n)
  BY <1>2 DEF Reload
<1>4. toTab' = Cut(toTab, C, 0)
  BY <1>2 DEF Reload
<1>5. \A d \in Link : LessUp(toServer'[d], toServer[d])
  BY <1>3, LostFewer
<1>6. \A d \in Link : LessDown(toTab'[d], toTab[d])
  <2>1. \A d \in Link : toTab'[d] \in {<<>>, toTab[d]}
    BY <1>3, <1>4, LostRanges
  <2>2. QED  BY <2>1, FewerNone
<1>7. QED  BY <1>1, <1>5, <1>6, HandlesLess

\* A break loses frames and no handle a tab may still use.
LEMMA HandlesDrop ==
  ASSUME HandlesInv, TypeOK, NEW c \in Link, Drop(c)
  PROVE  HandlesInv'
<1>1. UNCHANGED <<held, queue, owner, registry, nextHandle>>
  BY DEF Drop, tabVars, serverVars
<1>2. PICK C : C = {c}
  OBVIOUS
<1>3. PICK n \in 0 .. Longest : toServer' = Cut(toServer, C, n) /\ toTab' = Cut(toTab, C, n)
  BY <1>2 DEF Drop
<1>4. \A d \in Link : LessUp(toServer'[d], toServer[d]) /\ LessDown(toTab'[d], toTab[d])
  BY <1>3, LostFewer
<1>5. QED  BY <1>1, <1>4, HandlesLess

\* A page is told a handle, and from then on holds it.
LEMMA HandlesFrame ==
  ASSUME HandlesInv, TypeOK, NEW p \in Tab, OnFrame(p)
  PROVE  HandlesInv'
<1>1. PICK c \in Link : c = socket[p]
  BY DEF OnFrame, TypeOK, TabsTypeOK
<1>2. /\ toTab \in [Link -> Seq(DownFrame)] /\ held \in [Tab -> SUBSET HandleType]
      /\ toTab[c] # <<>> /\ toTab[c] \in Seq(DownFrame)
      /\ toTab' = [toTab EXCEPT ![c] = Tail(toTab[c])]
      /\ UNCHANGED <<queue, owner, toServer, registry, nextHandle>>
  BY <1>1 DEF OnFrame, serverVars, TypeOK, TabsTypeOK, LinksTypeOK
<1>3. PICK f \in DownFrame : f = Head(toTab[c])
  BY <1>2, DropFrame
<1>4. LessDown(Tail(toTab[c]), toTab[c])
  BY <1>2, FewerRest
<1>5. \A d \in Link : \A h \in HandleType : Brings(toTab'[d], h) => Brings(toTab[d], h)
  BY <1>2, <1>4 DEF LessDown
<1>6. \A d \in Link : BroughtOnce(toTab'[d])
  BY <1>2, <1>4 DEF LessDown, HandlesInv, OneHolder
<1>7. ASSUME NEW h, h \in held'[p], h \notin held[p]
      PROVE  h \in HandleType /\ Brings(toTab[c], h) /\ ~Brings(toTab'[c], h)
  <2>1. OnResponse(p, f) \/ OnHello(p, f) \/ OnCallbackRequest(p, f)
    BY <1>1, <1>3 DEF OnFrame
  <2>2. f.t \in {"res", "cbreq"} /\ h \in Handle(f)
    BY <1>2, <1>7, <2>1 DEF OnResponse, OnHello, OnCallbackRequest
  <2>3. h = f.h /\ h \in HandleType
    BY <2>2, DownFrameKinds DEF Handle
  <2>4. BroughtOnce(toTab[c])
    BY DEF HandlesInv, OneHolder
  <2>5. QED  BY <1>2, <1>3, <2>2, <2>3, <2>4, HeadBrings
<1>8. \A q \in Tab : q # p => held'[q] = held[q]
  <2>1. OnResponse(p, f) \/ OnHello(p, f) \/ OnCallbackRequest(p, f)
    BY <1>1, <1>3 DEF OnFrame
  <2>2. QED  BY <1>2, <2>1 DEF OnResponse, OnHello, OnCallbackRequest
<1>9. \A q \in Tab : \A h \in held'[q] : h \in held[q] \/ (q = p /\ h \in HandleType /\ Brings(toTab[c], h))
  BY <1>7, <1>8
<1>10. /\ \A s \in Source : Box(s)' = Box(s) /\ Open(s)' = Open(s)
       /\ \A h : Known(h)' = Known(h)
  BY <1>2 DEF Box, Open, Known
<1>11. HeldKnown'
  <2>1. \A q \in Tab : \A h \in held'[q] : Known(h) /\ \A s \in Source : ~Releases(Box(s), h)
    BY <1>9 DEF HandlesInv, HeldKnown, BroughtKnown
  <2>2. QED  BY <1>10, <2>1 DEF HeldKnown
<1>12. BroughtKnown'
  <2>1. \A d \in Link : \A h \in HandleType :
          Brings(toTab'[d], h) => Known(h) /\ \A s \in Source : ~Releases(Box(s), h)
    BY <1>5 DEF HandlesInv, BroughtKnown
  <2>2. QED  BY <1>10, <2>1 DEF BroughtKnown
<1>13. OneHolder'
  <2>1. ASSUME NEW q \in Tab, NEW r \in Tab, q # r, NEW h, h \in held'[q], h \in held'[r] PROVE FALSE
    BY <1>9, <2>1 DEF HandlesInv, OneHolder
  <2>2. ASSUME NEW q \in Tab, NEW d \in Link, NEW h \in held'[q], Brings(toTab'[d], h) PROVE FALSE
    <3>1. CASE h \in held[q]
      <4>1. h \in HandleType /\ Brings(toTab[d], h)
        BY <1>2, <1>5, <2>2, <3>1
      <4>2. QED  BY <3>1, <4>1 DEF HandlesInv, OneHolder
    <3>2. CASE h \notin held[q]
      <4>1. q = p
        BY <1>9, <3>2
      <4>2. h \in HandleType /\ Brings(toTab[c], h) /\ ~Brings(toTab'[c], h)
        BY <1>7, <3>2, <4>1
      <4>3. Brings(toTab[d], h)
        BY <1>5, <2>2, <4>2
      <4>4. d = c
        BY <4>2, <4>3 DEF HandlesInv, OneHolder
      <4>5. QED  BY <2>2, <4>2, <4>4
    <3>3. QED  BY <3>1, <3>2
  <2>3. \A d, e \in Link : \A h \in HandleType : Brings(toTab'[d], h) /\ Brings(toTab'[e], h) => d = e
    BY <1>5 DEF HandlesInv, OneHolder
  <2>4. \A q, r \in Tab : q # r => held'[q] \cap held'[r] = {}
    BY <2>1
  <2>5. QED  BY <1>6, <2>2, <2>3, <2>4 DEF OneHolder
<1>14. UsedKnown'
  <2> SUFFICES ASSUME NEW s \in Source, NEW h \in HandleType, Open(s), Uses(Box(s), h)
               PROVE  /\ Known(h) /\ \A d \in Link : ~Brings(toTab'[d], h)
                      /\ \A q \in Tab : h \in held'[q] => s = q \/ (s \in Link /\ owner[s] = q)
    BY <1>2, <1>10 DEF UsedKnown
  <2>1. /\ Known(h) /\ \A d \in Link : ~Brings(toTab[d], h)
        /\ \A q \in Tab : h \in held[q] => s = q \/ (s \in Link /\ owner[s] = q)
    BY DEF HandlesInv, UsedKnown
  <2>2. \A q \in Tab : h \in held'[q] => h \in held[q]
    BY <1>9, <2>1
  <2>3. QED  BY <1>5, <2>1, <2>2
<1>15. UsedFirst'
  BY <1>2, <1>10 DEF HandlesInv, UsedFirst
<1>16. ReleasedOld'
  BY <1>2, <1>10 DEF HandlesInv, ReleasedOld
<1>17. QED  BY <1>11, <1>12, <1>13, <1>14, <1>15, <1>16 DEF HandlesInv

\* The handle that the server lets go of is no longer used by anyone.
LEMMA HandlesRelease ==
  ASSUME HandlesInv, TypeOK, NEW c \in Link, NEW f, OnMessage(c), f = Head(toServer[c]), OnRelease(c, f)
  PROVE  HandlesInv'
<1>1. /\ toServer \in [Link -> Seq(UpFrame)] /\ toServer[c] \in Seq(UpFrame) /\ toServer[c] # <<>>
      /\ toServer' = [toServer EXCEPT ![c] = Tail(toServer[c])] /\ owner \in [Link -> Tab \cup {<<>>}]
      /\ UNCHANGED <<held, queue, owner, toTab, nextHandle>>
      /\ registry' = registry \ {f.h.id} /\ f.t = "release"
  BY DEF OnMessage, OnRelease, tabVars, TypeOK, LinksTypeOK
<1>2. PICK h : h = f.h
  OBVIOUS
<1>3. c \in Source /\ Box(c) = toServer[c] /\ Box(c)' = Tail(toServer[c]) /\ c \notin Tab
      /\ \A s \in Source : s # c => Box(s)' = Box(s)
  <2>1. \A d \in Link : d \notin Tab
    BY BridgeBounds
  <2>2. QED  BY <1>1, <2>1 DEF Source, Box
<1>4. UsedBefore(toServer[c])
  BY <1>3 DEF HandlesInv, UsedFirst
<1>5. Releases(toServer[c], h) /\ ~Uses(Tail(toServer[c]), h)
  BY <1>1, <1>2, <1>4, HeadReleases
<1>6. h \in HandleType /\ h.epoch = 1
  <2>1. f \in UpFrame
    BY <1>1, DropFrame
  <2>2. h \in HandleType
    BY <1>1, <1>2, <2>1, UpFrameKinds
  <2>3. QED  BY <1>3, <1>5, <2>2 DEF HandlesInv, ReleasedOld
<1>7. ASSUME NEW k \in HandleType, Known(k), k # h PROVE Known(k)'
  <2>1. k.epoch = h.epoch
    BY <1>6, <1>7 DEF Known
  <2>2. k.id # h.id
    BY <1>6, <1>7, <2>1 DEF HandleType
  <2>3. QED  BY <1>1, <1>2, <1>7, <2>2 DEF Known
<1>8. LessUp(Tail(toServer[c]), toServer[c])
  BY <1>1, FewerRest
<1>9. \A s \in Source : \A k : /\ Uses(Box(s)', k) => Uses(Box(s), k)
                               /\ Releases(Box(s)', k) => Releases(Box(s), k)
  BY <1>3, <1>8 DEF LessUp
<1>10. HeldKnown'
  <2>1. \A q \in Tab : h \notin held[q] /\ held[q] \subseteq HandleType
    BY <1>3, <1>5 DEF HandlesInv, HeldKnown, TypeOK, TabsTypeOK
  <2>2. \A q \in Tab : \A k \in held[q] : Known(k)'
    BY <1>7, <2>1 DEF HandlesInv, HeldKnown
  <2>3. QED  BY <1>1, <1>9, <2>2 DEF HandlesInv, HeldKnown
<1>11. BroughtKnown'
  <2>1. \A d \in Link : ~Brings(toTab[d], h)
    BY <1>3, <1>5, <1>6 DEF HandlesInv, BroughtKnown
  <2>2. \A d \in Link : \A k \in HandleType : Brings(toTab[d], k) => Known(k)'
    BY <1>7, <2>1 DEF HandlesInv, BroughtKnown
  <2>3. QED  BY <1>1, <1>9, <2>2 DEF HandlesInv, BroughtKnown
<1>12. OneHolder'
  BY <1>1 DEF HandlesInv, OneHolder
<1>13. \A s \in Source : Open(s)' = Open(s)
  BY <1>1 DEF Open
<1>14. UsedKnown'
  <2> SUFFICES ASSUME NEW s \in Source, NEW k \in HandleType, Open(s), Uses(Box(s)', k)
               PROVE  /\ Known(k)' /\ \A d \in Link : ~Brings(toTab[d], k)
                      /\ \A q \in Tab : k \in held[q] => s = q \/ (s \in Link /\ owner[s] = q)
    BY <1>1, <1>13 DEF UsedKnown
  <2>1. Uses(Box(s), k)
    BY <1>9
  <2>2. k # h
    <3>1. CASE s = c
      BY <1>3, <1>5, <3>1
    <3>2. CASE s # c
      <4>1. SUFFICES ASSUME k = h PROVE FALSE
        OBVIOUS
      <4>2. s \in Link /\ owner[s] = c
        BY <1>3, <1>5, <2>1, <3>2, <4>1 DEF HandlesInv, UsedFirst
      <4>3. owner[s] \in Tab
        BY <1>1, <4>2, BridgeBounds DEF Open
      <4>4. QED  BY <1>3, <4>2, <4>3
    <3>3. QED  BY <3>1, <3>2
  <2>3. QED  BY <1>7, <2>1, <2>2 DEF HandlesInv, UsedKnown
<1>15. UsedFirst'
  <2>1. \A s \in Source : UsedBefore(Box(s)')
    BY <1>3, <1>8 DEF LessUp, HandlesInv, UsedFirst
  <2>2. QED  BY <1>1, <1>9, <1>13, <2>1 DEF HandlesInv, UsedFirst
<1>16. ReleasedOld'
  BY <1>1, <1>9 DEF HandlesInv, ReleasedOld
<1>17. QED  BY <1>10, <1>11, <1>12, <1>14, <1>15, <1>16 DEF HandlesInv

\* A reply that tells no handle.
LEMMA PlainReply ==
  ASSUME TypeOK, NEW c \in Link, NEW f \in DownFrame, f.t \in {"res", "cbreq"}, f.h = NoHandle, Reply(c, f)
  PROVE  \A d \in Link : LessDown(toTab'[d], toTab[d])
<1>1. toTab \in [Link -> Seq(DownFrame)] /\ toTab[c] \in Seq(DownFrame)
  BY DEF TypeOK, LinksTypeOK
<1>2. LessDown(Append(toTab[c], f), toTab[c])
  <2>1. toTab[c] \in Seq(DownFrame)
    BY <1>1
  <2>2. /\ \A h : Brings(Append(toTab[c], f), h) <=> Brings(toTab[c], h) \/ f.h = h
        /\ BroughtOnce(toTab[c]) => BroughtOnce(Append(toTab[c], f))
    BY <2>1, AddDown
  <2>3. QED  BY <2>2, NoHandleIsNone DEF LessDown
<1>3. \A d \in Link : toTab'[d] = toTab[d] \/ (d = c /\ toTab'[d] = Append(toTab[d], f))
  BY <1>1 DEF Reply
<1>4. QED  BY <1>2, <1>3, FewerNone

\* The server frees a handle only at its release, after its last use.
LEMMA HandlesRead ==
  ASSUME HandlesInv, TypeOK, NEW c \in Link, OnMessage(c)
  PROVE  HandlesInv'
<1>1. /\ toServer \in [Link -> Seq(UpFrame)] /\ toServer[c] \in Seq(UpFrame) /\ toServer[c] # <<>>
      /\ toServer' = [toServer EXCEPT ![c] = Tail(toServer[c])]
      /\ UNCHANGED <<held, queue, owner, nextHandle>>
  BY DEF OnMessage, tabVars, TypeOK, LinksTypeOK
<1>2. PICK f \in UpFrame : f = Head(toServer[c])
  BY <1>1, DropFrame
<1>3. OnRequest(c, f) \/ OnRelease(c, f) \/ OnCallbackAnswer(c, f)
  BY <1>2 DEF OnMessage
<1>4. \A d \in Link : LessUp(toServer'[d], toServer[d])
  <2>1. LessUp(Tail(toServer[c]), toServer[c])
    BY <1>1, FewerRest
  <2>2. QED  BY <1>1, <2>1, FewerNone
<1>5. CASE OnRequest(c, f)
  <2>1. PICK r \in DownFrame : r = Res(f, NoHandle)
    BY <1>5, UpFrameKinds, ServerFrames DEF OnRequest
  <2>2. r.t = "res" /\ r.h = NoHandle
    BY <2>1 DEF Res
  <2>3. toTab' = toTab \/ Reply(c, r)
    BY <1>5, <2>1 DEF OnRequest
  <2>4. \A d \in Link : LessDown(toTab'[d], toTab[d])
    BY <2>2, <2>3, PlainReply, FewerNone
  <2>5. UNCHANGED registry
    BY <1>5 DEF OnRequest
  <2>6. QED  BY <1>1, <1>4, <2>4, <2>5, HandlesLess
<1>6. CASE OnCallbackAnswer(c, f)
  <2>1. UNCHANGED <<registry, toTab>>
    BY <1>6 DEF OnCallbackAnswer
  <2>2. QED  BY <1>1, <1>4, <2>1, FewerNone, HandlesLess
<1>7. QED  BY <1>2, <1>3, <1>5, <1>6, HandlesRelease

\* The native side only adds handles.
LEMMA HandlesNative ==
  ASSUME HandlesInv, TypeOK, epoch = 1, NativeStep
  PROVE  HandlesInv'
<1>1. UNCHANGED <<held, queue, owner, toServer>>
  BY DEF NativeStep, Finish, CallBack, tabVars
<1>2. ASSUME NEW c \in Link, NEW f \in DownFrame, f.t \in {"res", "cbreq"}, Reply(c, f),
             \/ f.h = NewHandle /\ StoreHandle
             \/ f.h = NoHandle /\ UNCHANGED <<registry, nextHandle>>
      PROVE  HandlesInv'
  <2>1. CASE f.h = NewHandle /\ StoreHandle
    BY <1>1, <1>2, <2>1, HandlesFresh
  <2>2. CASE f.h = NoHandle /\ UNCHANGED <<registry, nextHandle>>
    <3>1. \A d \in Link : LessDown(toTab'[d], toTab[d])
      BY <1>2, <2>2, PlainReply
    <3>2. QED  BY <1>1, <2>2, <3>1, FewerNone, HandlesLess
  <2>3. QED  BY <1>2, <2>1, <2>2
<1>3. PICK x \in tasks : Finish(x) \/ \E withHandle \in BOOLEAN : CallBack(x, withHandle)
  BY DEF NativeStep
<1>4. x.link \in Link /\ x.req \in RequestType
  BY ReadTypes
<1>5. PICK h : h = NewHandle
  OBVIOUS
<1>6. h \in HandleType
  BY <1>5, ServerFrames
<1>7. CASE Finish(x)
  <2>1. Res(x.req, h) \in DownFrame /\ Res(x.req, NoHandle) \in DownFrame
    BY <1>4, <1>6, ServerFrames
  <2>2. \A k : Res(x.req, k).t = "res" /\ Res(x.req, k).h = k
    BY DEF Res
  <2>3. \/ StoreHandle /\ Reply(x.link, Res(x.req, h))
        \/ UNCHANGED <<registry, nextHandle>> /\ Reply(x.link, Res(x.req, NoHandle))
    BY <1>5, <1>7 DEF Finish
  <2>4. QED  BY <1>2, <1>4, <1>5, <2>1, <2>2, <2>3
<1>8. ASSUME NEW withHandle \in BOOLEAN, CallBack(x, withHandle) PROVE HandlesInv'
  <2>1. nextCb \in 1 .. MaxCallbacks
    BY <1>8, BridgeBounds DEF CallBack, TypeOK, ServerTypeOK
  <2>2. CbReq(nextCb, h, x.req) \in DownFrame /\ CbReq(nextCb, NoHandle, x.req) \in DownFrame
    BY <1>4, <1>6, <2>1, ServerFrames
  <2>3. \A k : CbReq(nextCb, k, x.req).t = "cbreq" /\ CbReq(nextCb, k, x.req).h = k
    BY DEF CbReq
  <2>4. \/ StoreHandle /\ Reply(x.link, CbReq(nextCb, h, x.req))
        \/ UNCHANGED <<registry, nextHandle>> /\ Reply(x.link, CbReq(nextCb, NoHandle, x.req))
    BY <1>5, <1>8 DEF CallBack, CallbackId
  <2>5. QED  BY <1>2, <1>4, <1>5, <2>2, <2>3, <2>4
<1>9. QED  BY <1>3, <1>7, <1>8

\* A synchronous mint gives its tab a handle that is there.
LEMMA HandlesSync ==
  ASSUME HandlesInv, TypeOK, epoch = 1, NEW p \in Tab, SyncMint(p)
  PROVE  HandlesInv'
<1>1. StoreHandle /\ UNCHANGED <<queue, toServer, owner, toTab>>
  BY DEF SyncMint, linkVars
<1>2. held' = [held EXCEPT ![p] = held[p] \cup {NewHandle}]
  BY DEF SyncMint
<1>3. QED  BY <1>1, <1>2, HandlesFresh

\* In the process that served the first pages, no handle in use is missing.
HandlesHere == epoch = 1 /\ running => HandlesInv

\* Every step of the first server keeps each handle in use in the registry.
LEMMA HandlesStep ==
  ASSUME HandlesHere, TypeOK, Ends, Quiet, [Next]_vars
  PROVE  HandlesHere'
<1> SUFFICES ASSUME epoch' = 1, running' PROVE HandlesInv'
  BY DEF HandlesHere
<1>1. epoch = 1 /\ running /\ ~Start /\ ~Stop
  <2>1. epoch \in Nat \ {0}
    BY BridgeBounds DEF TypeOK, ServerTypeOK
  <2>2. ~Start /\ epoch = 1
    BY <2>1, EpochStep DEF Start
  <2>3. ~Stop
    BY DEF Stop
  <2>4. ASSUME NEW p \in Tab, Page(p) \/ PageEvent(p) PROVE running' = running
    BY <2>4 DEF Page, PageEvent, Invoke, ReleaseHandle, SyncMint, AnswerCallback, Opened, Closed, OnFrame,
                Reload, Boot, Connect, serverVars
  <2>5. ASSUME NEW c \in Link, ServerEvent(c) \/ Drop(c) \/ Recycle(c) PROVE running' = running
    BY <2>5 DEF ServerEvent, OnMessage, SessionClosed, Drop, Recycle, serverVars
  <2>6. NativeStep \/ UNCHANGED vars => running' = running
    BY DEF NativeStep, Finish, CallBack, vars, serverVars
  <2>7. running' = running
    BY <2>2, <2>3, <2>4, <2>5, <2>6 DEF Next
  <2>8. QED  BY <2>2, <2>3, <2>7
<1>2. HandlesInv
  BY <1>1 DEF HandlesHere
<1>3. UNCHANGED <<held, queue, owner, toServer, toTab, registry, nextHandle>> => HandlesInv'
  <2>1. UNCHANGED <<held, queue, owner, toServer, toTab>> =>
          /\ \A c \in Link : LessUp(toServer'[c], toServer[c]) /\ LessDown(toTab'[c], toTab[c])
          /\ \A p \in Tab : held'[p] \subseteq held[p] /\ queue'[p] = queue[p]
          /\ \A c \in Link : owner'[c] = owner[c]
    BY FewerNone
  <2>2. QED  BY <1>2, <2>1, HandlesLess
<1>4. ASSUME NEW p \in Tab, Page(p) PROVE HandlesInv'
  BY <1>1, <1>2, <1>4, HandlesInvoke, HandlesGiveBack, HandlesSync DEF Page
<1>5. ASSUME NEW p \in Tab, PageEvent(p) PROVE HandlesInv'
  <2>1. Boot(p) => HandlesInv'
    BY <1>3 DEF Boot, linkVars, serverVars
  <2>2. QED
    BY <1>2, <1>5, <2>1, HandlesAnswer, HandlesOpened, HandlesClosed, HandlesFrame, HandlesReload, HandlesConnect
       DEF PageEvent
<1>6. ASSUME NEW c \in Link, ServerEvent(c) \/ Drop(c) \/ Recycle(c) PROVE HandlesInv'
  <2>1. SessionClosed(c) \/ Recycle(c) => HandlesInv'
    BY <1>3 DEF SessionClosed, Recycle, tabVars, serverVars
  <2>2. QED  BY <1>2, <1>6, <2>1, HandlesRead, HandlesDrop DEF ServerEvent
<1>7. NativeStep => HandlesInv'
  BY <1>1, <1>2, HandlesNative
<1>8. UNCHANGED vars => HandlesInv'
  BY <1>3 DEF vars, tabVars, linkVars, serverVars
<1>9. QED  BY <1>1, <1>4, <1>5, <1>6, <1>7, <1>8 DEF Next

\* At the start no handle is held.
LEMMA HandlesInit == Init => HandlesHere
<1> SUFFICES ASSUME Init PROVE HandlesInv
  BY DEF HandlesHere
<1>1. /\ \A s \in Source : Box(s) = <<>>
      /\ \A c \in Link : toTab[c] = <<>>
      /\ \A p \in Tab : held[p] = {}
  BY DEF Init, Box, Source
<1>2. HeldKnown /\ BroughtKnown /\ OneHolder
  BY <1>1, FewerNone DEF HeldKnown, BroughtKnown, OneHolder
<1>3. UsedKnown /\ UsedFirst /\ ReleasedOld
  BY <1>1, FewerNone DEF UsedKnown, UsedFirst, ReleasedOld
<1>4. QED  BY <1>2, <1>3 DEF HandlesInv

\* The handles that HandlesResolve speaks of are held, or used in a call on its way.
LEMMA KnownHandlesResolve ==
  ASSUME HandlesInv, TypeOK
  PROVE  HandlesResolve
<1>1. ASSUME NEW x \in Slots, x[1] \in Link => owner[x[1]] # <<>>,
             NEW h \in Handle(Outbox[x[1]][x[2]])
      PROVE  h.id \in registry
  <2>1. PICK s \in Source : \E i \in 1 .. Len(Outbox[s]) : Outbox[s][i].t = "req" /\ x = <<s, i>>
    BY <1>1 DEF Slots, Source
  <2> PICK i \in 1 .. Len(Outbox[s]) : Outbox[s][i].t = "req" /\ x = <<s, i>>
    BY <2>1
  <2>2. Outbox[s] = Box(s)
    BY DEF Outbox, Box, Source
  <2>3. Box(s) \in Seq(UpFrame)
    BY BoxTyped
  <2>4. PICK f : f = Box(s)[i]
    OBVIOUS
  <2>5. f \in Range(Box(s)) /\ f.t = "req" /\ h \in Handle(f)
    BY <1>1, <2>1, <2>2, <2>3, <2>4 DEF Range
  <2>6. h \in HandleType /\ h = f.h
    <3>1. f \in RequestType
      BY <2>5, BoxFrames
    <3>2. QED  BY <2>5, <3>1 DEF Handle, RequestType
  <2>7. Uses(Box(s), h)
    BY <2>5, <2>6 DEF Uses
  <2>8. Open(s)
    BY <1>1, <2>1 DEF Open, Source
  <2>9. QED  BY <2>6, <2>7, <2>8 DEF HandlesInv, UsedKnown, Known
<1>2. \A p \in Tab : \A h \in held[p] : h.id \in registry
  BY DEF HandlesInv, HeldKnown, Known
<1> DEFINE seen == {x \in Slots : x[1] \in Link => owner[x[1]] # <<>>}
           kept == UNION {held[p] : p \in Tab}
           sent == UNION {Handle(Outbox[x[1]][x[2]]) : x \in seen}
<1>3. \A h \in kept : h.id \in registry
  BY <1>2
<1>4. \A h \in sent : h.id \in registry
  <2>1. \A x \in seen : \A h \in Handle(Outbox[x[1]][x[2]]) : h.id \in registry
    BY <1>1
  <2>2. QED  BY <2>1
<1>5. running => \A h \in kept \cup sent : h.epoch = epoch => h.id \in registry
  <2> HIDE DEF kept, sent
  <2>1. QED  BY <1>3, <1>4
<1>6. QED  BY <1>5 DEF HandlesResolve

\* As long as the process the pages were served by lives, the handles that pages hold, or
\* have put in calls, are found (native.node.ts decodeArg), whoever releases what.
THEOREM HandlesResolveUntilRestart == Spec => [](epoch = 1 => HandlesResolve)
<1>1. TypeOK /\ Ends /\ [Next]_vars => Ends'
  BY EndsStep
<1>2. TypeOK /\ Ends /\ Quiet /\ [Next]_vars => Quiet'
  BY QuietStep
<1>3. TypeOK /\ Ends /\ Quiet /\ HandlesHere /\ [Next]_vars => HandlesHere'
  BY HandlesStep
<1>4. TypeOK /\ HandlesHere => (epoch = 1 => HandlesResolve)
  <2>1. ~running => HandlesResolve
    BY DEF HandlesResolve
  <2>2. QED  BY <2>1, KnownHandlesResolve DEF HandlesHere
<1>5. QED
  BY <1>1, <1>2, <1>3, <1>4, EndsInit, QuietInit, HandlesInit, BridgeTypeCorrect, PTL DEF Spec
=============================================================================
