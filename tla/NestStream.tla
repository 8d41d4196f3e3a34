----------------------------- MODULE NestStream -----------------------------
(***************************************************************************)
(* NestClient (src/bridge/nest-client.web.ts): the linked account, and the *)
(* streams of events read as lines of JSON from chunks cut anywhere.  The  *)
(* chunks come through handleNestProxy (HttpExchange), which may end the   *)
(* body early, drop the connection or leave it hanging.                    *)
(*                                                                         *)
(* A line is two bytes and a newline: byte k of line i is <<i, k>>, k = 0  *)
(* being the newline.  A "blank" line is the newline alone, a "bad" one    *)
(* lacks its second byte, so that no parser accepts it.                    *)
(***************************************************************************)
EXTENDS Integers, Sequences, FiniteSets, SequencesExt

CONSTANTS
  Bodies,     \* the sequences of kinds of line that the server may send
  MaxStreams, \* bound: calls of openStream
  MaxLinks    \* bound: calls of adoptCli and finalizeProvisioning

LineKind == {"ready", "event", "bad", "blank"}
ASSUME NestAssumption ==
  Bodies \subseteq Seq(LineKind) /\ MaxStreams \in Nat /\ MaxLinks \in Nat

VARIABLES
  streams,   \* the streams opened: state, body, bytes read, buffer, events given
  nest,      \* the client's linked, sessionId and #abort, and what localStorage holds
  linking,   \* link requests under way
  links,     \* link requests so far
  unlinkedAt \* how many streams were open when unlink was last called
nestVars == <<streams, nest, linking, links, unlinkedAt>>

LineBytes(kind, i) ==
  CASE kind = "blank" -> <<<<i, 0>>>>
    [] kind = "bad"   -> <<<<i, 1>>, <<i, 0>>>>
    [] OTHER          -> <<<<i, 1>>, <<i, 2>>, <<i, 0>>>>
Wire(body) == FlattenSeq([i \in DOMAIN body |-> LineBytes(body[i], i)])

NestInit ==
  /\ streams = <<>>
  /\ nest \in [linked : BOOLEAN, stored : BOOLEAN, sessionId : {0}, abort : {0}]
  /\ nest.linked = nest.stored  \* loadLinkedSession
  /\ linking = 0 /\ links = 0
  /\ unlinkedAt = 0
----------------------------------------------------------------------------
\* adoptCli and finalizeProvisioning: a POST, and its answer, whatever else happened
\* meanwhile. Saving to localStorage may throw.
StartLink ==
  /\ links < MaxLinks
  /\ links' = links + 1 /\ linking' = linking + 1
  /\ UNCHANGED <<streams, nest, unlinkedAt>>

EndLink ==
  /\ linking > 0
  /\ linking' = linking - 1
  /\ \/ \E stored \in BOOLEAN :
          nest' = [nest EXCEPT !.linked = TRUE, !.stored = @ \/ stored]
     \/ UNCHANGED nest
  /\ UNCHANGED <<streams, links, unlinkedAt>>

Active == {"fetch", "open", "closed"}
Kept(n)  == streams
Abort(n) == [m \in DOMAIN streams |->
  IF m = n /\ streams[m].state \in Active THEN [streams[m] EXCEPT !.aborted = TRUE] ELSE streams[m]]

\* openStream aborts the stream before and fetches a new one.
OpenStream(body) ==
  /\ Len(streams) < MaxStreams
  /\ nest.linked
  /\ streams' = Append(Abort(nest.abort),
       [state |-> "fetch", body |-> body, read |-> 0, buffer |-> <<>>, events |-> <<>>, aborted |-> FALSE])
  /\ nest' = [nest EXCEPT !.abort = Len(streams) + 1]
  /\ UNCHANGED <<linking, links, unlinkedAt>>

\* The answer: a body, or a status that makes openStream throw, as an abort does.
StreamAnswer(n) ==
  /\ streams[n].state = "fetch"
  /\ \/ /\ ~streams[n].aborted
        /\ streams' = [streams EXCEPT ![n].state = "open"]
     \/ streams' = [streams EXCEPT ![n].state = "done"]
  /\ UNCHANGED <<nest, linking, links, unlinkedAt>>

\* The last byte was sent, or the proxy ended a body that failed upstream: "closed".
BodyEnds(n) ==
  /\ streams[n].state = "open"
  /\ streams' = [streams EXCEPT ![n].state = "closed"]
  /\ UNCHANGED <<nest, linking, links, unlinkedAt>>

\* JSON.parse of a line of a body.
Parse(line, body) ==
  LET i == line[1][1] IN
  IF line = <<<<i, 1>>, <<i, 2>>>> THEN body[i] ELSE "parse-error"

\* What onEvent is called with for a line; if it throws, a parse-error as well.
EventsOf(line, body, throws) ==
  IF line = <<>> THEN <<>>
  ELSE LET event  == [line |-> line[1][1], type |-> Parse(line, body), again |-> FALSE]
           thrown == [line |-> line[1][1], type |-> "parse-error", again |-> TRUE]
       IN  IF event.type = "parse-error" \/ line[1][1] \notin throws THEN <<event>>
           ELSE <<event, thrown>>

\* buffer += the k bytes of a chunk
ChunkAlone(s, k) == SubSeq(Wire(s.body), s.read + 1, s.read + k)
Buffered(s, k)   == s.buffer \o SubSeq(Wire(s.body), s.read + 1, s.read + k)

\* buffer.split('\n') and the loop over the lines, told by byte: the events of the lines
\* that are whole, and what lines.pop() leaves.
LinesOf(text, body, throws) ==
  LET upTo[k \in 0..Len(text)] ==
        IF k = 0 THEN [given |-> <<>>, rest |-> <<>>]
        ELSE IF text[k][2] = 0
        THEN [given |-> upTo[k - 1].given \o EventsOf(upTo[k - 1].rest, body, throws), rest |-> <<>>]
        ELSE [given |-> upTo[k - 1].given, rest |-> Append(upTo[k - 1].rest, text[k])]
  IN  upTo[Len(text)]

\* A chunk of k bytes is read and its lines are given to onEvent.
Read(n, k, throws) ==
  LET s     == streams[n]
      lines == LinesOf(Buffered(s, k), s.body, throws)
  IN  /\ s.state = "open" /\ ~s.aborted
      /\ s.read + k <= Len(Wire(s.body))
      /\ streams' = [streams EXCEPT ![n].read = @ + k, ![n].buffer = lines.rest,
                                    ![n].events = @ \o lines.given]
      /\ nest' = IF \E j \in DOMAIN lines.given : lines.given[j].type = "ready"
                 THEN [nest EXCEPT !.sessionId = n] ELSE nest
      /\ UNCHANGED <<linking, links, unlinkedAt>>

\* The reader sees the end, its abort, or a lost connection, and says so; what is in
\* the buffer is dropped.
Final(type) == [line |-> 0, type |-> type, again |-> FALSE]
ReaderEnds(n) ==
  LET ends(type) == streams' = [streams EXCEPT ![n].state = "done", ![n].events = Append(@, Final(type))]
  IN  /\ \/ streams[n].state = "closed" /\ ~streams[n].aborted /\ ends("stream-end")
         \/ streams[n].state \in {"open", "closed"} /\ streams[n].aborted /\ ends("stream-aborted")
         \/ streams[n].state = "open" /\ ~streams[n].aborted /\ ends("stream-error")
      /\ UNCHANGED <<nest, linking, links, unlinkedAt>>

unlink ==
  /\ nest' = [linked |-> FALSE, stored |-> FALSE, sessionId |-> 0, abort |-> 0]
  /\ streams' = Abort(nest.abort)
  /\ unlinkedAt' = Len(streams)
  /\ UNCHANGED <<linking, links>>

NestNext ==
  \/ StartLink \/ EndLink \/ unlink
  \/ \E body \in Bodies : OpenStream(body)
  \/ \E n \in DOMAIN streams :
       \/ StreamAnswer(n) \/ BodyEnds(n) \/ ReaderEnds(n)
       \/ \E k \in 1..Len(Wire(streams[n].body)), throws \in {{}, {1}} : Read(n, k, throws)
NestSpec == NestInit /\ [][NestNext]_nestVars
----------------------------------------------------------------------------
\* What is told of a line of a body, and what is told when onEvent throws on it.
IsOfLine(event, body) ==
  /\ event.line \in DOMAIN body /\ body[event.line] # "blank"
  /\ event.type = IF event.again \/ body[event.line] = "bad" THEN "parse-error" ELSE body[event.line]

LinesTold(s) ==
  /\ \A j \in DOMAIN s.events :
       IF s.events[j].line = 0 THEN j = Len(s.events) ELSE IsOfLine(s.events[j], s.body)
  /\ \A j \in DOMAIN s.events :
       IF s.events[j].again
       THEN j > 1 /\ s.events[j - 1].line = s.events[j].line /\ ~s.events[j - 1].again
       ELSE s.events[j].line # 0 => \A i \in 1..(j - 1) : s.events[i].line < s.events[j].line
  /\ \A l \in DOMAIN s.body :
       /\ s.body[l] # "blank"
       /\ s.read = Len(Wire(s.body)) \/ \E j \in DOMAIN s.events : s.events[j].line >= l
       => \E j \in DOMAIN s.events : s.events[j].line = l /\ ~s.events[j].again

NestTypeOK ==
  /\ nest \in [linked : BOOLEAN, stored : BOOLEAN, sessionId : 0..MaxStreams, abort : 0..MaxStreams]
  /\ linking \in 0..links /\ links \in 0..MaxLinks
  /\ unlinkedAt \in 0..Len(streams)
  /\ \A n \in DOMAIN streams : streams[n].state \in Active \cup {"done"}

(* However a body is cut into chunks, onEvent gets its lines, in order and  *)
(* once each, none left out, all of them when every byte was read, and      *)
(* again only if it threw; the end is told once, after them (nest-client.   *)
(* web.ts 196-231).                                                         *)
EventsAreTheLines == \A n \in DOMAIN streams : LinesTold(streams[n])

(* The session that send() uses is that of the newest stream that said it   *)
(* is ready, never of one opened before the last unlink: a late chunk of a  *)
(* stream that was replaced does not bring it back (nest-client.web.ts      *)
(* 174-270).                                                                *)
SessionOfNewestStream ==
  nest.sessionId # 0 =>
    /\ nest.sessionId > unlinkedAt
    /\ \A m \in DOMAIN streams : m > nest.sessionId =>
         \A j \in DOMAIN streams[m].events : streams[m].events[j].type # "ready"
=============================================================================
