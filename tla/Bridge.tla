------------------------------- MODULE Bridge -------------------------------
(***************************************************************************)
(* The browser-server bridge: BridgeClient (bridge/client.web.ts) in every *)
(* tab, the WebSocket sessions of server/index.node.ts, and the native     *)
(* handle registry and callback proxies of server/native.node.ts.          *)
(*                                                                         *)
(* A tab numbers its requests, queues what it cannot send, rejects all it  *)
(* waits for when its socket closes, reconnects, and reloads when a hello  *)
(* announces another server process.  The server answers requests in any   *)
(* order, mints native handles, and calls back into the tab that made the  *)
(* request.  Links break, and the server process restarts with an empty    *)
(* registry.                                                               *)
(*                                                                         *)
(* Frames and handles carry the process (`epoch`) and the page (`gen`)     *)
(* they come from, callback frames the request they belong to, and waiting *)
(* callbacks whether their session was open (`inTime`).  The code has no   *)
(* such fields: no action branches on them, only properties read them.     *)
(***************************************************************************)
EXTENDS Integers, Sequences, FiniteSets, SequencesExt

CONSTANTS
  Tab,          \* browser tabs
  Link,         \* WebSocket connections that may exist at once
  MaxRequests,  \* bound: requests of one page
  MaxHandles,   \* bound: handles before the sync path mints no more
  MaxCallbacks, \* bound: callbacks of one server process
  MaxDrops,     \* bound: connections that break
  MaxRestarts,  \* bound: server restarts
  Ops,          \* what a request does: "mint" a handle, "use" one, "call" back,
                \* "plain" (another namespace) or "send" (ipc-send: no answer); or
                \* "sync": it mints a handle on the HTTP path
  NoLink, NoHandle

ASSUME BridgeAssumption ==
  /\ NoLink \notin Link
  /\ Tab \cap Link = {}
  /\ <<>> \notin Tab
  /\ NoHandle \notin [id : Nat, epoch : Nat]
  /\ {MaxRequests, MaxHandles, MaxCallbacks, MaxDrops, MaxRestarts} \subseteq Nat
  /\ Ops \subseteq {"mint", "use", "call", "plain", "send", "sync"}

VARIABLES
  \* in each tab
  boot,       \* epoch of the boot payload, 0 while the page loads
  gen,        \* how often the page has been loaded
  reloading,  \* #reloadedForSession, and a navigation is under way
  socket,     \* #socket
  nextId,     \* #requestId
  pending,    \* keys of #pending
  queue,      \* #sendQueue
  held,       \* native handles the page holds
  called,     \* callbacks running in the page: their answers are still to be sent
  \* links
  link,       \* "free"; "opening": accepted, no 'open' event yet; "up"; "refused":
              \* gone before the tab saw it open; "broken": gone after
  owner,      \* the tab at the browser's end, <<>> once that end is closed
  session,    \* the server's end of the link is open
  toServer, toTab,  \* frames in flight
  \* in the server process
  epoch,      \* SERVER_SESSION_ID
  running,    \* the process is up and listening
  registry,   \* ids in _registry
  nextHandle, \* _nextId
  nextCb,     \* _cbReqCounter
  tasks,      \* requests being handled
  waitingCb,  \* entries of the sessions' pendingCallbacks
  \* history and budgets
  received,   \* requests the server has received
  nativeCalls,\* <<boot of the page, epoch of the server>> of every native call served
  resumed,    \* <<request that waits for a callback, request the answer was for>>
  drops

tabVars    == <<boot, gen, reloading, socket, nextId, pending, queue, held, called>>
linkVars   == <<link, owner, session, toServer, toTab>>
serverVars == <<epoch, running, registry, nextHandle, nextCb, tasks, waitingCb>>
history    == <<received, nativeCalls, resumed>>
vars == <<tabVars, linkVars, serverVars, history, drops>>

Init ==
  /\ boot = [p \in Tab |-> 1]
  /\ gen = [p \in Tab |-> 1]
  /\ reloading = [p \in Tab |-> FALSE]
  /\ socket = [p \in Tab |-> NoLink]
  /\ nextId = [p \in Tab |-> 1]
  /\ pending = [p \in Tab |-> {}]
  /\ queue = [p \in Tab |-> <<>>]
  /\ held = [p \in Tab |-> {}]
  /\ called = [p \in Tab |-> {}]
  /\ link = [c \in Link |-> "free"]
  /\ owner = [c \in Link |-> <<>>]
  /\ session = [c \in Link |-> FALSE]
  /\ toServer = [c \in Link |-> <<>>]
  /\ toTab = [c \in Link |-> <<>>]
  /\ epoch = 1
  /\ running = TRUE
  /\ registry = {}
  /\ nextHandle = 1
  /\ nextCb = 1
  /\ tasks = {}
  /\ waitingCb = {}
  /\ received = {}
  /\ nativeCalls = {}
  /\ resumed = {}
  /\ drops = MaxDrops

-----------------------------------------------------------------------------
(* Frames *)

Req(p, op, h) == [t |-> "req", id |-> nextId[p], op |-> op, h |-> h,
                  tab |-> p, gen |-> gen[p], boot |-> boot[p]]
Res(r, h)     == [t |-> "res", id |-> r.id, h |-> h]
Release(h)    == [t |-> "release", h |-> h]
CbReq(n, h, r) == [t |-> "cbreq", id |-> n, h |-> h, for |-> r]
CbRes(x)      == [t |-> "cbres", id |-> x.id, for |-> x.for]
Hello         == [t |-> "hello", epoch |-> epoch]

IsNative(op) == op \in {"mint", "use", "call"}
Answered(op) == op # "send"

\* The ends a link can still send from, and the links that are gone.
Usable == {"opening", "up"}
Gone   == {"refused", "broken"}

\* Of the frames in flight on the links C only the first n arrive.
Cut(frames, C, n) ==
  [c \in Link |-> IF c \in C THEN SubSeq(frames[c], 1, Min({n, Len(frames[c])})) ELSE frames[c]]

Longest == Max({Len(toServer[c]) : c \in Link} \cup {Len(toTab[c]) : c \in Link})

Down(C) == [c \in Link |-> CASE c \in C /\ link[c] = "opening" -> "refused"
                             [] c \in C /\ link[c] = "up" -> "broken"
                             [] OTHER -> link[c]]

-----------------------------------------------------------------------------
(* BridgeClient *)

Live(p) == boot[p] # 0

Enqueue(p, f) == queue' = [queue EXCEPT ![p] = Append(@, f)] /\ UNCHANGED toServer
Transmit(c, f) == toServer' = [toServer EXCEPT ![c] = Append(@, f)] /\ UNCHANGED queue

\* #sendFrame: an open socket takes the frame, otherwise it waits in #sendQueue.
\* On a broken link the readyState may still be OPEN: then the frame is lost.
SendFrame(p, f) ==
  LET c == socket[p]
      state == IF c = NoLink THEN "free" ELSE link[c]
  IN \/ state = "up" /\ Transmit(c, f)
     \/ state # "up" /\ Enqueue(p, f)
     \/ state = "broken" /\ UNCHANGED <<toServer, queue>>

Invoke(p, op, h) ==
  /\ Live(p)
  /\ nextId[p] <= MaxRequests
  /\ IF op = "use" THEN h \in held[p] ELSE h = NoHandle
  /\ nextId' = [nextId EXCEPT ![p] = @ + 1]
  /\ pending' = [pending EXCEPT ![p] = IF Answered(op) THEN @ \cup {nextId[p]} ELSE @]
  /\ SendFrame(p, Req(p, op, h))
  /\ UNCHANGED <<boot, gen, reloading, socket, held, called, link, owner, session,
                 toTab, serverVars, history, drops>>

\* The page no longer needs a handle.
ReleaseHandle(p, h) ==
  /\ Live(p)
  /\ h \in held[p]
  /\ held' = [held EXCEPT ![p] = @ \ {h}]
  /\ SendFrame(p, Release(h))
  /\ UNCHANGED <<boot, gen, reloading, socket, nextId, pending, called, link, owner,
                 session, toTab, serverVars, history, drops>>

\* A callback of the page returns: its answer goes out on the current socket.
AnswerCallback(p, x) ==
  /\ Live(p)
  /\ x \in called[p]
  /\ called' = [called EXCEPT ![p] = @ \ {x}]
  /\ SendFrame(p, CbRes(x))
  /\ UNCHANGED <<boot, gen, reloading, socket, nextId, pending, held, link, owner,
                 session, toTab, serverVars, history, drops>>

\* connect() reaches a listening server: its 'connection' handler registers the
\* session and says hello before anything else.  If nobody listens, the attempt
\* still makes a socket, which will only see 'close'.
Connect(p, c) ==
  /\ Live(p)
  /\ socket[p] = NoLink
  /\ link[c] = "free"
  /\ socket' = [socket EXCEPT ![p] = c]
  /\ owner' = [owner EXCEPT ![c] = p]
  /\ IF running
     THEN /\ link' = [link EXCEPT ![c] = "opening"]
          /\ session' = [session EXCEPT ![c] = TRUE]
          /\ toTab' = [toTab EXCEPT ![c] = <<Hello>>]
     ELSE /\ link' = [link EXCEPT ![c] = "refused"]
          /\ UNCHANGED <<session, toTab>>
  /\ UNCHANGED <<boot, gen, reloading, nextId, pending, queue, held, called,
                 toServer, serverVars, history, drops>>

\* Mutant: the flushed queue is not emptied.
FlushKeeping(p, c) ==
  toServer' = [toServer EXCEPT ![c] = @ \o queue[p]] /\ UNCHANGED queue

Flush(p, c) ==
  /\ toServer' = [toServer EXCEPT ![c] = @ \o queue[p]]
  /\ queue' = [queue EXCEPT ![p] = <<>>]

\* The 'open' event: what was queued goes first.
Opened(p) ==
  LET c == socket[p]
  IN /\ c # NoLink
     /\ link[c] = "opening"
     /\ link' = [link EXCEPT ![c] = "up"]
     /\ Flush(p, c)
     /\ UNCHANGED <<boot, gen, reloading, socket, nextId, pending, held, called,
                    owner, session, toTab, serverVars, history, drops>>

\* Mutant: the pending requests survive the socket they were sent on.
RejectNone(p) == UNCHANGED pending

RejectAll(p) == pending' = [pending EXCEPT ![p] = {}]

\* The 'close' event, after the last message: all that is pending is rejected,
\* what is queued stays queued.
Closed(p) ==
  LET c == socket[p]
  IN /\ c # NoLink
     /\ link[c] \in Gone
     /\ link[c] = "broken" => toTab[c] = <<>>
     /\ socket' = [socket EXCEPT ![p] = NoLink]
     /\ owner' = [owner EXCEPT ![c] = <<>>]
     /\ toTab' = [toTab EXCEPT ![c] = <<>>]
     /\ RejectAll(p)
     /\ UNCHANGED <<boot, gen, reloading, nextId, queue, held, called, link,
                    session, toServer, serverVars, history, drops>>

Handle(f) == IF f.h = NoHandle THEN {} ELSE {f.h}

\* Mutant: the value of a response is kept as a handle whatever it is.
OnResponseRaw(p, f) ==
  /\ f.t = "res"
  /\ pending' = [pending EXCEPT ![p] = @ \ {f.id}]
  /\ held' = [held EXCEPT ![p] = IF f.id \in pending[p] THEN @ \cup {f.h} ELSE @]
  /\ UNCHANGED <<reloading, called>>

OnResponse(p, f) ==
  /\ f.t = "res"
  /\ pending' = [pending EXCEPT ![p] = @ \ {f.id}]
  /\ held' = [held EXCEPT ![p] = IF f.id \in pending[p] THEN @ \cup Handle(f) ELSE @]
  /\ UNCHANGED <<reloading, called>>

\* Mutant: the hello is not compared with the boot payload.
OnHelloAlways(p, f) ==
  /\ f.t = "hello"
  /\ reloading' = [reloading EXCEPT ![p] = TRUE]
  /\ UNCHANGED <<pending, held, called>>

OnHello(p, f) ==
  /\ f.t = "hello"
  /\ reloading' = [reloading EXCEPT ![p] = @ \/ f.epoch # boot[p]]
  /\ UNCHANGED <<pending, held, called>>

OnCallbackRequest(p, f) ==
  /\ f.t = "cbreq"
  /\ called' = [called EXCEPT ![p] = @ \cup {f}]
  /\ held' = [held EXCEPT ![p] = @ \cup Handle(f)]
  /\ UNCHANGED <<pending, reloading>>

OnFrame(p) ==
  LET c == socket[p]
  IN /\ c # NoLink
     /\ link[c] \in {"up", "broken"}
     /\ toTab[c] # <<>>
     /\ LET f == Head(toTab[c])
        IN OnResponse(p, f) \/ OnHello(p, f) \/ OnCallbackRequest(p, f)
     /\ toTab' = [toTab EXCEPT ![c] = Tail(@)]
     /\ UNCHANGED <<boot, gen, socket, nextId, queue, link, owner, session, toServer,
                    serverVars, history, drops>>

\* window.location.reload() takes effect: the page and its socket are gone.
Reload(p) ==
  /\ reloading[p]
  /\ boot' = [boot EXCEPT ![p] = 0]
  /\ gen' = [gen EXCEPT ![p] = @ + 1]
  /\ reloading' = [reloading EXCEPT ![p] = FALSE]
  /\ socket' = [socket EXCEPT ![p] = NoLink]
  /\ nextId' = [nextId EXCEPT ![p] = 1]
  /\ pending' = [pending EXCEPT ![p] = {}]
  /\ queue' = [queue EXCEPT ![p] = <<>>]
  /\ held' = [held EXCEPT ![p] = {}]
  /\ called' = [called EXCEPT ![p] = {}]
  /\ link' = Down({socket[p]})
  /\ owner' = [c \in Link |-> IF c = socket[p] THEN <<>> ELSE owner[c]]
  /\ toTab' = Cut(toTab, {socket[p]}, 0)
  /\ \E n \in 0 .. Longest : toServer' = Cut(toServer, {socket[p]}, n)
  /\ UNCHANGED <<session, serverVars, history, drops>>

\* The page loads: __SIGNAL_WEB_BOOT__ names the process that served it.
Boot(p) ==
  /\ ~Live(p)
  /\ running
  /\ boot' = [boot EXCEPT ![p] = epoch]
  /\ UNCHANGED <<gen, reloading, socket, nextId, pending, queue, held, called,
                 linkVars, serverVars, history, drops>>

-----------------------------------------------------------------------------
(* The server process *)

\* sendFrame: sent if the session's socket is open; a broken link loses it.
Reply(c, f) ==
  toTab' = IF session[c] /\ link[c] \in Usable
           THEN [toTab EXCEPT ![c] = Append(@, f)] ELSE toTab

\* Mutant: the size of the registry numbers the next handle.
NewHandleBySize == [id |-> Cardinality(registry) + 1, epoch |-> epoch]

NewHandle == [id |-> nextHandle, epoch |-> epoch]

\* storeHandle: the id is never used again in this process.
StoreHandle ==
  /\ registry' = registry \cup {NewHandle.id}
  /\ nextHandle' = nextHandle + 1

Found(f) == \A h \in Handle(f) : h.id \in registry

\* handleRequest: decodeArg looks a handle up at once; the rest is a task that
\* ends when it likes.
OnRequest(c, f) ==
  /\ f.t = "req"
  /\ received' = received \cup {[tab |-> f.tab, gen |-> f.gen, id |-> f.id]}
  /\ nativeCalls' = IF IsNative(f.op) THEN nativeCalls \cup {<<f.boot, epoch>>} ELSE nativeCalls
  /\ IF ~Answered(f.op)
     THEN UNCHANGED <<tasks, toTab>>
     ELSE IF Found(f)
          THEN tasks' = tasks \cup {[link |-> c, req |-> f, waits |-> FALSE]} /\ UNCHANGED toTab
          ELSE Reply(c, Res(f, NoHandle)) /\ UNCHANGED tasks
  /\ UNCHANGED <<registry, waitingCb, resumed>>

OnRelease(c, f) ==
  /\ f.t = "release"
  /\ registry' = registry \ {f.h.id}
  /\ UNCHANGED <<tasks, waitingCb, history, toTab>>

\* The promises of these entries settle, and the native calls go on.
Settle(entries) ==
  /\ waitingCb' = waitingCb \ entries
  /\ tasks' = {[x EXCEPT !.waits = @ /\ \A w \in entries : w.req # x.req] : x \in tasks}

\* handleCallbackResponse: the entry of this session with that number, if any.
OnCallbackAnswer(c, f) ==
  /\ f.t = "cbres"
  /\ LET entries == {w \in waitingCb : w.link = c /\ w.id = f.id}
     IN /\ Settle(entries)
        /\ resumed' = resumed \cup {<<w.req, f.for>> : w \in entries}
  /\ UNCHANGED <<registry, received, nativeCalls, toTab>>

OnMessage(c) ==
  /\ running
  /\ session[c]
  /\ toServer[c] # <<>>
  /\ LET f == Head(toServer[c])
     IN OnRequest(c, f) \/ OnRelease(c, f) \/ OnCallbackAnswer(c, f)
  /\ toServer' = [toServer EXCEPT ![c] = Tail(@)]
  /\ UNCHANGED <<tabVars, link, owner, session, epoch, running, nextHandle, nextCb, drops>>

\* Mutant: every session numbers its callbacks itself.
CallbackIdOfSession(c) == Cardinality({w \in waitingCb : w.link = c}) + 1

CallbackId(c) == nextCb

\* A native call runs the callback proxy it was given, maybe with a handle for an
\* argument: the entry is made and the frame sent whether or not the session is
\* still open.
CallBack(x, withHandle) ==
  /\ x \in tasks
  /\ x.req.op = "call"
  /\ ~x.waits
  /\ nextCb <= MaxCallbacks
  /\ IF withHandle THEN StoreHandle ELSE UNCHANGED <<registry, nextHandle>>
  /\ nextCb' = nextCb + 1
  /\ LET n == CallbackId(x.link)
     IN /\ waitingCb' = waitingCb \cup {[link |-> x.link, id |-> n, req |-> x.req,
                                        inTime |-> session[x.link]]}
        /\ Reply(x.link, CbReq(n, IF withHandle THEN NewHandle ELSE NoHandle, x.req))
  /\ tasks' = (tasks \ {x}) \cup {[x EXCEPT !.waits = TRUE]}
  /\ UNCHANGED <<tabVars, link, owner, session, toServer, epoch, running, history, drops>>

\* The result of a request; "mint" stores a handle even if nobody will hear of it.
Finish(x) ==
  /\ x \in tasks
  /\ ~x.waits
  /\ tasks' = tasks \ {x}
  /\ IF x.req.op = "mint"
     THEN StoreHandle /\ Reply(x.link, Res(x.req, NewHandle))
     ELSE UNCHANGED <<registry, nextHandle>> /\ Reply(x.link, Res(x.req, NoHandle))
  /\ UNCHANGED <<tabVars, link, owner, session, toServer, epoch, running, nextCb,
                 waitingCb, history, drops>>

\* POST /api/bridge/sync: a native call outside the socket, answered in one go.
SyncMint(p) ==
  /\ Live(p)
  /\ running
  /\ "sync" \in Ops
  /\ nextHandle <= MaxHandles
  /\ StoreHandle
  /\ held' = [held EXCEPT ![p] = @ \cup {NewHandle}]
  /\ nativeCalls' = nativeCalls \cup {<<boot[p], epoch>>}
  /\ UNCHANGED <<boot, gen, reloading, socket, nextId, pending, queue, called, linkVars,
                 epoch, running, nextCb, tasks, waitingCb, received, resumed, drops>>

\* Mutant: a closed session keeps its callbacks.
KeepCallbacks(c) == UNCHANGED <<waitingCb, tasks>>

RejectCallbacks(c) == Settle({w \in waitingCb : w.link = c})

\* The 'close' event at the server, after the last message.
SessionClosed(c) ==
  /\ running
  /\ session[c]
  /\ link[c] \in Gone
  /\ toServer[c] = <<>>
  /\ session' = [session EXCEPT ![c] = FALSE]
  /\ RejectCallbacks(c)
  /\ UNCHANGED <<tabVars, link, owner, toServer, toTab, epoch, running, registry,
                 nextHandle, nextCb, history, drops>>

-----------------------------------------------------------------------------
(* The network and the process *)

Drop(c) ==
  /\ drops > 0
  /\ link[c] \in Usable
  /\ drops' = drops - 1
  /\ link' = Down({c})
  /\ \E n \in 0 .. Longest : toServer' = Cut(toServer, {c}, n) /\ toTab' = Cut(toTab, {c}, n)
  /\ UNCHANGED <<tabVars, owner, session, serverVars, history>>

\* Both ends have let go: the model's name for the link can be used again.
Recycle(c) ==
  /\ link[c] \in Gone
  /\ owner[c] = <<>> /\ ~session[c]
  /\ \A x \in tasks : x.link # c
  /\ link' = [link EXCEPT ![c] = "free"]
  /\ UNCHANGED <<tabVars, owner, session, toServer, toTab, serverVars, history, drops>>

\* The process dies with all its state, and another one starts.
Stop ==
  /\ running
  /\ epoch <= MaxRestarts
  /\ running' = FALSE
  /\ link' = Down(Link)
  /\ session' = [c \in Link |-> FALSE]
  /\ toServer' = Cut(toServer, Link, 0)
  /\ \E n \in 0 .. Longest : toTab' = Cut(toTab, Link, n)
  /\ registry' = {}
  /\ tasks' = {}
  /\ waitingCb' = {}
  /\ UNCHANGED <<tabVars, owner, epoch, nextHandle, nextCb, history, drops>>

Start ==
  /\ ~running
  /\ running' = TRUE
  /\ epoch' = epoch + 1
  /\ nextHandle' = 1
  /\ nextCb' = 1
  /\ UNCHANGED <<tabVars, linkVars, registry, tasks, waitingCb, history, drops>>

-----------------------------------------------------------------------------

Page(p) ==
  \/ \E op \in Ops \ {"sync"}, h \in held[p] \cup {NoHandle} : Invoke(p, op, h)
  \/ \E h \in held[p] : ReleaseHandle(p, h)
  \/ SyncMint(p)

PageEvent(p) ==
  \/ \E x \in called[p] : AnswerCallback(p, x)
  \/ Opened(p) \/ Closed(p) \/ OnFrame(p) \/ Reload(p) \/ Boot(p)
  \/ \E c \in Link : Connect(p, c)

ServerEvent(c) == OnMessage(c) \/ SessionClosed(c)

NativeStep ==
  \E x \in tasks : Finish(x) \/ \E withHandle \in BOOLEAN : CallBack(x, withHandle)

Next ==
  \/ \E p \in Tab : Page(p) \/ PageEvent(p)
  \/ \E c \in Link : ServerEvent(c) \/ Drop(c) \/ Recycle(c)
  \/ NativeStep
  \/ Stop \/ Start

Spec == Init /\ [][Next]_vars

(* Fairness: the event loops of the tabs and of the server run, reconnect     *)
(* timers fire, page loads and native calls end, callbacks of the page return.*)
(* Nothing makes a page issue a request, a link break or a process stop, nor  *)
(* a stopped process start again.                                             *)
FairSpec ==
  /\ Spec
  /\ \A p \in Tab :
       /\ WF_vars(Opened(p)) /\ WF_vars(Closed(p)) /\ WF_vars(OnFrame(p))
       /\ WF_vars(Reload(p)) /\ WF_vars(Boot(p))
       /\ WF_vars(\E x \in called[p] : AnswerCallback(p, x))
       /\ WF_vars(\E c \in Link : Connect(p, c))
  /\ \A c \in Link : WF_vars(ServerEvent(c)) /\ WF_vars(Recycle(c))
  /\ WF_vars(NativeStep)

-----------------------------------------------------------------------------
(* Properties *)

HandleType  == [id : Nat \ {0}, epoch : 1 .. MaxRestarts + 1]
RequestType == [t : {"req"}, id : 1 .. MaxRequests, op : Ops, h : HandleType \cup {NoHandle},
                tab : Tab, gen : Nat \ {0}, boot : 1 .. MaxRestarts + 1]
UpFrame     == RequestType
               \cup [t : {"release"}, h : HandleType]
               \cup [t : {"cbres"}, id : 1 .. MaxCallbacks, for : RequestType]
CbReqType   == [t : {"cbreq"}, id : 1 .. MaxCallbacks, h : HandleType \cup {NoHandle},
                for : RequestType]
DownFrame   == [t : {"res"}, id : 1 .. MaxRequests, h : HandleType \cup {NoHandle}]
               \cup [t : {"hello"}, epoch : 1 .. MaxRestarts + 1]
               \cup CbReqType

\* Every variable has the shape its counterpart in the code has; in particular a
\* page holds handles only, never the empty value of a response without one.
TabsTypeOK ==
  /\ boot \in [Tab -> 0 .. epoch]
  /\ gen \in [Tab -> Nat \ {0}]
  /\ reloading \in [Tab -> BOOLEAN]
  /\ socket \in [Tab -> Link \cup {NoLink}]
  /\ nextId \in [Tab -> 1 .. MaxRequests + 1]
  /\ pending \in [Tab -> SUBSET (1 .. MaxRequests)]
  /\ queue \in [Tab -> Seq(UpFrame)]
  /\ held \in [Tab -> SUBSET HandleType]
  /\ called \in [Tab -> SUBSET CbReqType]

LinksTypeOK ==
  /\ link \in [Link -> {"free", "opening", "up", "refused", "broken"}]
  /\ owner \in [Link -> Tab \cup {<<>>}]
  /\ session \in [Link -> BOOLEAN]
  /\ toServer \in [Link -> Seq(UpFrame)]
  /\ toTab \in [Link -> Seq(DownFrame)]

ServerTypeOK ==
  /\ epoch \in 1 .. MaxRestarts + 1
  /\ running \in BOOLEAN
  /\ ~running => epoch <= MaxRestarts /\ registry = {} /\ tasks = {}
  /\ nextHandle \in Nat \ {0}
  /\ registry \subseteq 1 .. nextHandle - 1
  /\ nextCb \in 1 .. MaxCallbacks + 1
  /\ tasks \subseteq [link : Link, req : RequestType, waits : BOOLEAN]
  /\ waitingCb \subseteq [link : Link, id : 1 .. MaxCallbacks, req : RequestType, inTime : BOOLEAN]
  /\ received \subseteq [tab : Tab, gen : Nat \ {0}, id : 1 .. MaxRequests]
  /\ drops \in 0 .. MaxDrops

TypeOK == TabsTypeOK /\ LinksTypeOK /\ ServerTypeOK

\* What a page has written and the server has not read, by queue and by link.
Outbox == [s \in Tab \cup Link |-> IF s \in Tab THEN queue[s] ELSE toServer[s]]

Slots == UNION {{s} \X {i \in 1 .. Len(Outbox[s]) : Outbox[s][i].t = "req"} : s \in Tab \cup Link}

Name(r) == [tab |-> r.tab, gen |-> r.gen, id |-> r.id]

\* No request is executed twice, whatever breaks and reconnects: the client keeps
\* at most one copy of a frame and nothing the server has read is sent again.
\* (client.web.ts #sendQueue, flushed on 'open', kept on 'close')
OnlyOnce ==
  \A x \in Slots : LET r == Name(Outbox[x[1]][x[2]])
                   IN /\ r \notin received
                      /\ \A y \in Slots : Name(Outbox[y[1]][y[2]]) = r => x = y

\* A request the page waits for is never forgotten: it is queued, under way,
\* being handled for the page's own socket, or its answer is on that socket, or
\* the socket is about to close, which rejects it.
PendingHasCarrier ==
  \A p \in Tab : \A n \in pending[p] :
    LET c == socket[p]
        mine(r) == Name(r) = [tab |-> p, gen |-> gen[p], id |-> n]
    IN \/ \E x \in Slots : x[1] \in {p, c} /\ mine(Outbox[x[1]][x[2]])
       \/ \E x \in tasks : x.link = c /\ mine(x.req)
       \/ c # NoLink /\ \E f \in Range(toTab[c]) : f.t = "res" /\ f.id = n
       \/ c # NoLink /\ link[c] \in Gone

\* As long as the process lives, a handle that a page holds, or has passed to a
\* call it still waits for and the server has not read yet, is in the registry: no
\* other page's release and no reuse of an id takes it away, so decodeArg finds it.
\* (On a link the page has seen closed, a call it has given up may come after the
\* release it sent on the next one.)
HandlesResolve ==
  LET open  == {x \in Slots : x[1] \in Link => owner[x[1]] # <<>>}
      inUse == (UNION {held[p] : p \in Tab}) \cup UNION {Handle(Outbox[x[1]][x[2]]) : x \in open}
  IN running => \A h \in inUse : h.epoch = epoch => h.id \in registry

\* The answer of a callback resumes the call that made it: a late answer, sent on
\* the page's next session, is not taken for that of another callback.
CallbackAnswerMatches == \A r \in resumed : r[1] = r[2]

\* "A fresh load always matches, so this can't loop": only a page served by an
\* older process starts to reload, whatever hellos are still in flight.
NoReloadLoop == [][\A p \in Tab : reloading'[p] /\ ~reloading[p] => boot[p] # epoch]_vars

\* Every promise of invoke() settles: it is answered, or rejected when the socket
\* closes, or its page goes away.
EveryRequestSettles ==
  \A p \in Tab, n \in 1 .. MaxRequests : (n \in pending[p]) ~> (n \notin pending[p])

\* Every callback made on an open session settles: answered, or rejected by the
\* session's 'close'.
CallbacksSettle ==
  \A c \in Link, n \in 1 .. MaxCallbacks :
    LET waits == \E w \in waitingCb : w.link = c /\ w.id = n /\ w.inTime
    IN waits ~> ~waits

\* A page of an older process reloads from the one that runs.
StalePageReloads ==
  \A p \in Tab : (Live(p) /\ boot[p] # epoch /\ running) ~> (boot[p] = epoch \/ ~running)

\* The pages that reload are those of an older process: all of them, and no other.
StalePagesReload == NoReloadLoop /\ StalePageReloads

\* What the server's comment promises: a page of an older process learns of the
\* restart, and reloads, before this process serves a native call of it.
ReloadsBeforeNativeCalls == \A x \in nativeCalls : x[1] = x[2]
=============================================================================
