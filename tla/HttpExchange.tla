---------------------------- MODULE HttpExchange ----------------------------
(***************************************************************************)
(* One HTTP exchange, from handleHttpRequest (index.node.ts) to the end of *)
(* the answer: the routes, readBody (http-util.node.ts), the proxy with    *)
(* signalFetch (proxy.node.ts, signalFetch.node.ts) and the Nest proxy     *)
(* (nest-proxy.node.ts).  Exchanges share nothing, so one is enough; those *)
(* of attachments are module AttachmentServer.                             *)
(*                                                                         *)
(* Bodies are counted in bytes.  The client, its socket, the upstream      *)
(* server and the time may interrupt each other at any event.              *)
(***************************************************************************)
EXTENDS Naturals

CONSTANTS
  MaxBody,   \* the limit of a request body (MAX_BODY_NATIVE_SYNC, _PROXY, _NEST)
  MaxFetch,  \* the limit of a fetched body (DEFAULT_MAX_BODY_BYTES)
  MaxBytes   \* bound: bytes of any body

ASSUME HttpAssumption == MaxBody \in Nat /\ MaxFetch \in Nat /\ MaxBytes \in Nat

VARIABLES
  request,  \* method, path, and the body: its size and what has been read
  handler,  \* where the handler is, and the body it was given
  upstream, \* the outbound request: its events, its body, what has been read
  fetched,  \* the promise of signalFetch
  response  \* heads written, status, body bytes sent, ended, and the socket
httpVars == <<request, handler, upstream, fetched, response>>

Method == {"GET", "HEAD", "POST", "OPTIONS", "TRACE"}
Path   == {"/api/health", "/api/boot", "/api/bridge/sync", "/api/proxy", "/api/nest-config",
           "/api/nest/x", "/static"}
Mount  == [prefix : BOOLEAN, inside : BOOLEAN, file : BOOLEAN]

NoRequest == [method |-> "none", path |-> "none", size |-> 0, read |-> 0, state |-> "none"]
HttpInit ==
  /\ request = NoRequest
  /\ handler = [pc |-> "none", body |-> 0]
  /\ upstream = [state |-> "none", size |-> 0, read |-> 0]
  /\ fetched = "none"
  /\ response = [heads |-> 0, status |-> 0, body |-> 0, ended |-> FALSE, open |-> TRUE]

WriteHead(status) == [response EXCEPT !.heads = @ + 1, !.status = status]
Answer(status) == [WriteHead(status) EXCEPT !.ended = TRUE]
Finish(status) == response' = Answer(status) /\ handler' = [handler EXCEPT !.pc = "done"]
----------------------------------------------------------------------------
\* Answers that need no body: the status, or 0 when the route goes on. A static
\* file comes from the first mount that has it; all are one here.
NoBody(m) == m \in {"GET", "HEAD"}
serveStaticFile(mount) == mount.prefix /\ mount.inside /\ mount.file
Refused(m, p, url, enabled, mount) ==
  IF m = "OPTIONS" THEN 204
  ELSE IF m = "GET" /\ p \in {"/api/health", "/api/boot"} THEN 200
  ELSE IF m = "POST" /\ p = "/api/bridge/sync" THEN 0
  ELSE IF p = "/api/proxy" THEN IF url = "missing" THEN 400 ELSE 0
  ELSE IF p = "/api/nest-config" /\ NoBody(m) THEN 200
  ELSE IF p \in {"/api/nest-config", "/api/nest/x"}
       THEN IF ~enabled THEN 503 ELSE IF m = "TRACE" THEN 405 ELSE IF url = "bad" THEN 400 ELSE 0
  ELSE IF m = "GET" /\ p = "/static" /\ serveStaticFile(mount) THEN 200 ELSE 404

\* handleHttpRequest, up to the body or to the answer.
Receive(m, p, size, url, enabled, mount) ==
  /\ handler.pc = "none"
  /\ request' = [method |-> m, path |-> p, size |-> size, read |-> 0, state |-> "open"]
  /\ IF Refused(m, p, url, enabled, mount) # 0 THEN Finish(Refused(m, p, url, enabled, mount))
     ELSE /\ handler' = [pc |-> IF NoBody(m) THEN "handle" ELSE "readBody", body |-> 0]
          /\ UNCHANGED response
  /\ UNCHANGED <<upstream, fetched>>
----------------------------------------------------------------------------
\* readBody. Too many bytes destroy the request, and its socket with it, before
\* sendPayloadTooLarge writes the 413.
TooLong(total) == total > MaxBody
OnData(n) ==
  /\ handler.pc = "readBody" /\ request.state = "open"
  /\ request.read + n <= request.size
  /\ request' = [request EXCEPT !.read = @ + n, !.state = IF TooLong(request.read + n) THEN "destroyed" ELSE @]
  /\ IF TooLong(request.read + n)
     THEN /\ response' = [Answer(413) EXCEPT !.open = FALSE]
          /\ handler' = [handler EXCEPT !.pc = "done"]
     ELSE UNCHANGED <<response, handler>>
  /\ UNCHANGED <<upstream, fetched>>

OnEnd ==
  /\ handler.pc = "readBody" /\ request.state = "open"
  /\ request.read = request.size
  /\ handler' = [pc |-> "handle", body |-> request.read]
  /\ UNCHANGED <<request, upstream, fetched, response>>

\* 'error': the client went away in the middle of its body. The rejection reaches
\* the catch of createServer, which writes a 500 to the closed socket.
BodyKept == handler' = [pc |-> "handle", body |-> request.read] /\ UNCHANGED response
BodyFailed ==
  /\ response' = [Answer(500) EXCEPT !.open = FALSE]
  /\ handler' = [handler EXCEPT !.pc = "done"]
OnError ==
  /\ handler.pc = "readBody" /\ request.state = "open"
  /\ request' = [request EXCEPT !.state = "destroyed"]
  /\ BodyFailed
  /\ UNCHANGED <<upstream, fetched>>

\* The sync endpoint: undecodable bytes or another namespace are a 400, a native
\* call that throws is an answer like any other.
HandleSync ==
  /\ handler.pc = "handle" /\ request.path = "/api/bridge/sync"
  /\ Finish(400) \/ Finish(200)
  /\ UNCHANGED <<request, upstream, fetched>>

Outgoing(size) == [state |-> "sent", size |-> size, read |-> 0]

\* handleProxyRequest up to the fetch.
HandleProxy(allowed, size) ==
  /\ handler.pc = "handle" /\ request.path = "/api/proxy"
  /\ \/ request.method = "TRACE" /\ Finish(405) /\ UNCHANGED <<upstream, fetched>>
     \/ /\ request.method # "TRACE" /\ ~allowed
        /\ Finish(403) /\ UNCHANGED <<upstream, fetched>>
     \/ /\ request.method # "TRACE" /\ allowed
        /\ upstream' = Outgoing(size)
        /\ fetched' = "pending"
        /\ handler' = [handler EXCEPT !.pc = "fetch"]
        /\ UNCHANGED response
  /\ UNCHANGED request

\* handleNestProxy up to the request.
HandleNest(size) ==
  /\ handler.pc = "handle" /\ request.path \in {"/api/nest-config", "/api/nest/x"}
  /\ upstream' = Outgoing(size)
  /\ handler' = [handler EXCEPT !.pc = "nest"]
  /\ UNCHANGED <<request, fetched, response>>
----------------------------------------------------------------------------
\* Events of signalFetch. `settle` is fail and succeed: the first one counts.
settle(result) == fetched' = IF fetched = "pending" THEN result ELSE fetched
FetchHead ==
  /\ handler.pc = "fetch" /\ upstream.state = "sent"
  /\ upstream' = [upstream EXCEPT !.state = "body"]
  /\ UNCHANGED <<request, handler, fetched, response>>

FetchData(n) ==
  /\ handler.pc = "fetch" /\ upstream.state = "body"
  /\ upstream.read + n <= upstream.size
  /\ upstream' = [upstream EXCEPT !.read = @ + n,
                    !.state = IF upstream.read + n > MaxFetch THEN "destroyed" ELSE @]
  /\ UNCHANGED <<request, handler, fetched, response>>

FetchEnd ==
  /\ handler.pc = "fetch" /\ upstream.state = "body"
  /\ upstream.read = upstream.size
  /\ upstream' = [upstream EXCEPT !.state = "ended"]
  /\ settle("ok")
  /\ UNCHANGED <<request, handler, response>>

FetchTimeout ==
  /\ handler.pc = "fetch" /\ upstream.state \in {"sent", "body", "ended"}
  /\ upstream' = [upstream EXCEPT !.state = "destroyed"]
  /\ UNCHANGED <<request, handler, fetched, response>>

\* 'error' of the request or of its response: the connection is lost, or destroy was
\* called; it may also come after the end.
ClosedIsOk   == "ok"
ClosedIsFail == "failed"
FetchError ==
  /\ handler.pc = "fetch" /\ upstream.state # "none"
  /\ upstream' = [upstream EXCEPT !.state = "destroyed"]
  /\ settle(ClosedIsFail)
  /\ UNCHANGED <<request, handler, response>>

\* The await of the fetch goes on: the whole answer, or a 502.
FetchAnswer ==
  /\ handler.pc = "fetch"
  /\ \/ /\ fetched = "ok"
        /\ response' = [Answer(200) EXCEPT !.body = upstream.read]
     \/ /\ fetched = "failed"
        /\ response' = Answer(502)
  /\ handler' = [handler EXCEPT !.pc = "done"]
  /\ UNCHANGED <<request, upstream, fetched>>
----------------------------------------------------------------------------
\* Events of the Nest proxy, which pipes: a head, the bytes, the end.
NestHead ==
  /\ handler.pc = "nest" /\ upstream.state = "sent"
  /\ upstream' = [upstream EXCEPT !.state = "body"]
  /\ response' = WriteHead(200)
  /\ UNCHANGED <<request, handler, fetched>>

NestData(n) ==
  /\ handler.pc = "nest" /\ upstream.state = "body"
  /\ upstream.read + n <= upstream.size
  /\ upstream' = [upstream EXCEPT !.read = @ + n]
  /\ response' = [response EXCEPT !.body = @ + n]
  /\ UNCHANGED <<request, handler, fetched>>

NestEnd ==
  /\ handler.pc = "nest" /\ upstream.state = "body"
  /\ upstream.read = upstream.size
  /\ upstream' = [upstream EXCEPT !.state = "ended"]
  /\ response' = [response EXCEPT !.ended = TRUE]
  /\ handler' = [handler EXCEPT !.pc = "done"]
  /\ UNCHANGED <<request, fetched>>

\* 'error' of the request: a 502 when nothing was sent, else the end, which a client
\* cannot tell from that of a whole answer.
NestAnswersAgain == Answer(502)
NestErrorAnswer ==
  IF response.heads = 0 THEN Answer(502) ELSE [response EXCEPT !.ended = TRUE]
NestError ==
  /\ handler.pc = "nest"
  /\ upstream.state \in {"sent", "body"} \/ (upstream.state = "aborted" /\ response.heads = 0)
  /\ upstream' = [upstream EXCEPT !.state = "destroyed"]
  /\ response' = NestErrorAnswer
  /\ handler' = [handler EXCEPT !.pc = "done"]
  /\ UNCHANGED <<request, fetched>>

\* 'error' of the response only resolves the promise: nothing ends the answer, which
\* pipe has let go of.
NestResponseError ==
  /\ handler.pc = "nest"
  /\ upstream.state = "body" \/ (upstream.state = "aborted" /\ response.heads = 1)
  /\ upstream' = [upstream EXCEPT !.state = "destroyed"]
  /\ handler' = [handler EXCEPT !.pc = "done"]
  /\ UNCHANGED <<request, fetched, response>>

\* The client closes a GET while it waits: the upstream request is destroyed, and its
\* 'error' comes next.
NestClientGone ==
  /\ handler.pc = "nest" /\ response.open
  /\ NoBody(request.method)
  /\ response' = [response EXCEPT !.open = FALSE]
  /\ upstream' = [upstream EXCEPT !.state = "aborted"]
  /\ UNCHANGED <<request, handler, fetched>>

HttpNext ==
  \/ \E m \in Method, p \in Path, size \in 0..MaxBytes, url \in {"ok", "missing", "bad"},
        enabled \in BOOLEAN, mount \in Mount : Receive(m, p, size, url, enabled, mount)
  \/ \E n \in 1..MaxBytes : OnData(n) \/ FetchData(n) \/ NestData(n)
  \/ OnEnd \/ OnError \/ HandleSync
  \/ \E size \in 0..MaxBytes : HandleNest(size) \/ \E allowed \in BOOLEAN : HandleProxy(allowed, size)
  \/ FetchHead \/ FetchEnd \/ FetchTimeout \/ FetchError \/ FetchAnswer
  \/ NestHead \/ NestEnd \/ NestError \/ NestResponseError \/ NestClientGone
HttpSpec == HttpInit /\ [][HttpNext]_httpVars
----------------------------------------------------------------------------
HttpTypeOK ==
  /\ request.size \in 0..MaxBytes /\ request.read \in 0..request.size
  /\ upstream.size \in 0..MaxBytes /\ upstream.read \in 0..upstream.size
  /\ handler.pc \in {"none", "readBody", "handle", "fetch", "nest", "done"}
  /\ fetched \in {"none", "pending", "ok", "failed"}
  /\ response.status \in {0, 200, 204, 400, 403, 404, 405, 413, 500, 502, 503}

(* A handler acts on the body the client sent or on none: never on half of  *)
(* one, nor on one above the limit; the proxy answers 200 with all the      *)
(* bytes of the upstream answer; and whatever order a head, an end, a       *)
(* timeout and errors come in, an exchange that is done has written one     *)
(* head and no more (index.node.ts 298-433, http-util.node.ts 24-61,        *)
(* signalFetch.node.ts 60-117, nest-proxy.node.ts 199-236).                 *)
OneWholeAnswer ==
  /\ handler.pc \in {"handle", "fetch", "nest"} /\ ~NoBody(request.method) =>
       handler.body = request.size /\ handler.body <= MaxBody
  /\ request.path = "/api/proxy" /\ response.status = 200 =>
       response.body = upstream.size /\ response.body <= MaxFetch
  /\ response.heads <= 1 /\ (handler.pc = "done" => response.heads = 1)
=============================================================================
