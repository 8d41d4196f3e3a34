-------------------------- MODULE AttachmentServer --------------------------
(***************************************************************************)
(* GET/HEAD /api/attachment/v{1,2}/<path> (src/server/attachments.node.ts).*)
(* v1 files are streamed from disk after a stat; v2 files are decrypted    *)
(* whole into memory, one decryption being shared by every request of the  *)
(* same (path, key, size), and the plaintext kept in an LRU cache.         *)
(*                                                                         *)
(* A file is the number of bytes of it that are on disk, or -1.  A request *)
(* is answered when its state is "done"; status 0 is a socket destroyed    *)
(* without an answer.  Chunks, headers other than the length and content   *)
(* types are left out.                                                     *)
(***************************************************************************)
EXTENDS Integers, FiniteSets, FiniteSetsExt

CONSTANTS
  Request,      \* the requests a browser makes
  File,         \* the attachment files
  FileBytes,    \* the bytes of a complete file
  PlainSizes,   \* the values of the size parameter
  CacheBytes,   \* DECRYPT_CACHE_MAX_BYTES
  Queries,      \* the shapes of request that arrive, a subset of Query
  MaxFileSteps  \* bound: changes to the files

ASSUME AttachmentAssumption ==
  /\ FileBytes \in Nat \ {0}
  /\ PlainSizes \subseteq 0..FileBytes
  /\ CacheBytes \in Nat
  /\ MaxFileSteps \in Nat

VARIABLES
  onDisk,    \* per file, the bytes on disk or -1
  fileSteps, \* how often a file changed
  http,      \* the requests
  inFlight,  \* promises of decryptions: cache key -> [size, whole, settled, waiters]
  decrypted  \* the decrypt cache: cache key -> bytes of the plaintext
attachVars == <<onDisk, fileSteps, http, inFlight, decrypted>>

NoRange == [start |-> -1, end |-> -1]
Query ==
  [method : {"GET", "HEAD", "POST"}, version : {"v1", "v2", "v3"},
   path : {"ok", "badEncoding", "dots", "parent", "linkOut"}, disposition : BOOLEAN,
   hasKey : BOOLEAN, hasSize : BOOLEAN,
   range : [start : -1..FileBytes + 1, end : -1..FileBytes + 1]]
ASSUME QueriesAssumption == Queries \subseteq Query
Key == File \X PlainSizes   \* a path (with its key) and the size parameter
cacheKeyOfPath(key) == <<key[1]>>
cacheKey(key) == key
----------------------------------------------------------------------------
(* Without dots in it a path is inside lexically; a symbolic link may lead  *)
(* out of the directory all the same, and only realpath tells.              *)
isFsInside(path) == path # "linkOut"

(* The checks of the handler, in its order; 0 lets the request through.    *)
Refusal(q) ==
  IF q.method = "POST" THEN 405
  ELSE IF q.version = "v3" THEN 404
  ELSE IF q.path = "badEncoding" THEN 400
  ELSE IF q.path = "dots" THEN 403
  ELSE IF ~q.disposition THEN 400
  ELSE IF q.path = "parent" \/ ~isFsInside(q.path) THEN 403
  ELSE IF q.version = "v2" /\ ~(q.hasKey /\ q.hasSize) THEN 400
  ELSE 0

\* The bytes of a body of `total` bytes that a Range header selects, or NoRange:
\* an end of -1 stands for the open form "START-".
RangeUnclamped(range, total) ==
  IF range.start < 0 THEN NoRange
  ELSE IF range.end = -1 THEN [range EXCEPT !.end = total - 1] ELSE range
parseRange(range, total) ==
  LET end == IF range.end = -1 \/ range.end > total - 1 THEN total - 1 ELSE range.end
  IN  IF range.start < 0 \/ range.start > end THEN NoRange
      ELSE [start |-> range.start, end |-> end]

Idle == [state |-> "none", status |-> 0, q |-> {}, key |-> <<>>, length |-> 0,
         body |-> {}, promised |-> FALSE, steady |-> FALSE]
Answered(h, status, length, body) ==
  [h EXCEPT !.state = "done", !.status = status, !.length = length, !.body = body]

\* The answer of a finished buffer, or of a v1 HEAD: serveBuffer; subarray takes what
\* there is of the range.
serveBuffer(h, total) ==
  LET range == parseRange(h.q.range, total)
  IN  IF h.q.method = "HEAD" THEN Answered(h, 200, total, {})
      ELSE IF range = NoRange THEN Answered(h, 200, total, 0..total - 1)
      ELSE Answered(h, 206, range.end - range.start + 1, (range.start..range.end) \cap (0..total - 1))

AttachInit ==
  /\ onDisk \in [File -> {-1, FileBytes}]
  /\ fileSteps = 0
  /\ http = [r \in Request |-> Idle]
  /\ inFlight = [k \in {} |-> {}]
  /\ decrypted = [k \in {} |-> 0]

\* A request arrives: everything up to the stat of the file.
Arrive(r) ==
  /\ http[r].state = "none"
  /\ \E q \in Queries, key \in Key :
       http' = [http EXCEPT ![r] =
         IF Refusal(q) # 0 THEN Answered(Idle, Refusal(q), 0, {})
         ELSE [Idle EXCEPT !.state = "stat", !.q = q, !.key = key]]
  /\ UNCHANGED <<onDisk, fileSteps, inFlight, decrypted>>

\* servePlaintext: stat, then the head of the answer; the bytes follow when the
\* read stream has opened the file.
PlainStat(r) ==
  LET total == onDisk[http[r].key[1]]
      range == parseRange(http[r].q.range, total)
      h     == [http[r] EXCEPT !.steady = TRUE]
  IN  /\ http[r].state = "stat"
      /\ http[r].q.version = "v1"
      /\ http' = [http EXCEPT ![r] =
           IF total = -1 THEN Answered(h, 404, 0, {})
           ELSE IF h.q.method = "HEAD" THEN Answered(h, 200, total, {})
           ELSE IF range = NoRange THEN [h EXCEPT !.state = "stream", !.status = 200, !.length = total]
           ELSE [h EXCEPT !.state = "stream", !.status = 206,
                          !.length = range.end - range.start + 1, !.body = range.start..range.end]]
      /\ UNCHANGED <<onDisk, fileSteps, inFlight, decrypted>>

\* The read stream sends the file as it is then: all of it, or the range; if the
\* file is gone the 'error' listener destroys the socket, the head being sent.
PlainStream(r) ==
  LET h == http[r] total == onDisk[h.key[1]]
  IN  /\ h.state = "stream"
      /\ http' = [http EXCEPT ![r] =
           IF total = -1 THEN Answered(h, 0, 0, {})
           ELSE Answered(h, h.status, h.length,
                         IF h.status = 200 THEN 0..total - 1 ELSE h.body \cap 0..total - 1)]
      /\ UNCHANGED <<onDisk, fileSteps, inFlight, decrypted>>

\* v2: stat, then the cache, then the decryption in flight, else a new one. A
\* request is `promised` its bytes when it finds the whole file, unless it joins a
\* decryption still running that began on less.
EncryptedStat(r) ==
  LET key   == http[r].key
      ck    == cacheKey(key)
      whole == onDisk[key[1]] = FileBytes
      wait(p) == [http[r] EXCEPT !.state = "decrypt", !.promised = p]
  IN  /\ http[r].state = "stat"
      /\ http[r].q.version = "v2"
      /\ \/ /\ onDisk[key[1]] = -1
            /\ http' = [http EXCEPT ![r] = Answered(@, 404, 0, {})]
            /\ UNCHANGED inFlight
         \/ /\ onDisk[key[1]] # -1 /\ ck \in DOMAIN decrypted
            /\ http' = [http EXCEPT ![r] = serveBuffer(@, decrypted[ck])]
            /\ UNCHANGED inFlight
         \/ /\ onDisk[key[1]] # -1 /\ ck \notin DOMAIN decrypted /\ ck \in DOMAIN inFlight
            /\ http' = [http EXCEPT ![r] = wait(whole /\ (inFlight[ck].whole \/ inFlight[ck].settled))]
            /\ inFlight' = [inFlight EXCEPT ![ck].waiters = @ \cup {r}]
         \/ /\ onDisk[key[1]] # -1 /\ ck \notin DOMAIN decrypted /\ ck \notin DOMAIN inFlight
            /\ http' = [http EXCEPT ![r] = wait(whole)]
            /\ inFlight' = [k \in DOMAIN inFlight \cup {ck} |->
                 IF k = ck THEN [size |-> key[2], whole |-> whole, settled |-> FALSE, waiters |-> {r}]
                 ELSE inFlight[k]]
      /\ UNCHANGED <<onDisk, fileSteps, decrypted>>

\* pending.finally takes a promise out of the map when it settles, before those
\* who await it run.
FinallyKept(ck)  == [inFlight EXCEPT ![ck].settled = TRUE, ![ck].waiters = {}]
Finally(ck)      == [k \in DOMAIN inFlight \ {ck} |-> inFlight[k]]
Without(s, ck)   == [k \in DOMAIN s \ {ck} |-> s[k]]

\* An entry above half the budget is not kept; others make room for it.
EntrySize(n) == IF n = 0 THEN 1 ELSE n
cacheSet(ck, n) ==
  IF 2 * EntrySize(n) > CacheBytes THEN {decrypted}
  ELSE {[k \in kept \cup {ck} |-> IF k = ck THEN n ELSE decrypted[k]] :
          kept \in {s \in SUBSET (DOMAIN decrypted \ {ck}) :
                      EntrySize(n) + MapThenSumSet(LAMBDA k : EntrySize(decrypted[k]), s) <= CacheBytes}}

\* A decryption ends well: every request that awaited it sets the cache and
\* answers from the buffer.
DecryptOk(ck) ==
  /\ ck \in DOMAIN inFlight
  /\ inFlight[ck].whole \/ onDisk[ck[1]] = FileBytes
  /\ ~inFlight[ck].settled
  /\ http' = [r \in Request |->
       IF r \in inFlight[ck].waiters THEN serveBuffer(http[r], inFlight[ck].size) ELSE http[r]]
  /\ decrypted' \in cacheSet(ck, inFlight[ck].size)
  /\ inFlight' = Finally(ck)
  /\ UNCHANGED <<onDisk, fileSteps>>

\* It fails: the file was not whole, or went away before it was opened.
DecryptFailure(ck) ==
  /\ ck \in DOMAIN inFlight
  /\ ~inFlight[ck].whole
  /\ http' = [r \in Request |->
       IF r \in inFlight[ck].waiters THEN Answered(http[r], 500, 0, {}) ELSE http[r]]
  /\ inFlight' = Finally(ck)
  /\ UNCHANGED <<onDisk, fileSteps, decrypted>>

\* The ttl of an entry ends.
Expire(ck) ==
  /\ ck \in DOMAIN decrypted
  /\ decrypted' = Without(decrypted, ck)
  /\ UNCHANGED <<onDisk, fileSteps, http, inFlight>>

\* The client writes a file piece by piece, or deletes it (FsStreams, one-shot
\* file operations). Decryptions and requests that had the file lose their claim.
FileChanges(f, bytes) ==
  /\ fileSteps < MaxFileSteps
  /\ bytes > onDisk[f] \/ bytes = -1
  /\ bytes # onDisk[f]
  /\ onDisk' = [onDisk EXCEPT ![f] = bytes]
  /\ fileSteps' = fileSteps + 1
  /\ http' = [r \in Request |->
       IF http[r].state \in {"decrypt", "stream"} /\ http[r].key[1] = f
       THEN [http[r] EXCEPT !.steady = FALSE, !.promised = @ /\ bytes # -1]
       ELSE http[r]]
  /\ inFlight' = [k \in DOMAIN inFlight |->
       IF k[1] = f /\ bytes = -1 THEN [inFlight[k] EXCEPT !.whole = FALSE] ELSE inFlight[k]]
  /\ UNCHANGED decrypted

AttachNext ==
  \/ \E r \in Request : Arrive(r) \/ PlainStat(r) \/ PlainStream(r) \/ EncryptedStat(r)
  \/ \E ck \in DOMAIN inFlight : DecryptOk(ck) \/ DecryptFailure(ck)
  \/ \E ck \in DOMAIN decrypted : Expire(ck)
  \/ \E f \in File, bytes \in -1..FileBytes : FileChanges(f, bytes)
AttachSpec == AttachInit /\ [][AttachNext]_attachVars
----------------------------------------------------------------------------
AttachTypeOK ==
  /\ onDisk \in [File -> -1..FileBytes]
  /\ fileSteps \in 0..MaxFileSteps
  /\ DOMAIN http = Request
  /\ \A r \in Request :
       /\ http[r].state \in {"none", "stat", "stream", "decrypt", "done"}
       /\ http[r].status \in {0, 200, 206, 400, 403, 404, 405, 500}
       /\ http[r].body \subseteq 0..FileBytes
  /\ \A k \in DOMAIN inFlight : inFlight[k].size \in PlainSizes /\ inFlight[k].waiters \subseteq Request
  /\ \A k \in DOMAIN decrypted : decrypted[k] \in PlainSizes

(* A request that finds a whole file is served: sharing a decryption, or    *)
(* the failure of an earlier one of the same key, never costs it the answer *)
(* (attachments.node.ts 396-422).                                           *)
CompleteFileIsServed ==
  \A r \in Request : http[r].promised /\ http[r].state = "done" => http[r].status \in {200, 206}

(* The body of a GET answer has as many bytes as its Content-Length says,   *)
(* all of them bytes of the requested range when it is a 206, and those of  *)
(* the requested size when it is a whole v2 file: for every v2 file, and    *)
(* for a v1 file that did not change under the answer (145-171, 197-290).   *)
BodyMatchesHeaders ==
  \A r \in Request :
    LET h == http[r] IN
    h.state = "done" /\ h.status \in {200, 206} /\ h.q.method = "GET"
      /\ (h.q.version = "v2" \/ h.steady) =>
        /\ Cardinality(h.body) = h.length
        /\ h.q.version = "v2" /\ h.status = 200 => h.length = h.key[2]
        /\ h.status = 206 => /\ h.body # {}
                             /\ \A b \in h.body : b >= h.q.range.start
                             /\ h.q.range.end # -1 => \A b \in h.body : b <= h.q.range.end
=============================================================================
