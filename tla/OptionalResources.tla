------------------------- MODULE OptionalResources -------------------------
(***************************************************************************)
(* OptionalResourceService:getData for one declared resource               *)
(* (src/server/optionalResources.node.ts, and the fallback of its channel  *)
(* in ipc.node.ts).  The bytes of the resource are                         *)
(*   "good"    those of the pinned size and digest                         *)
(*   "stale"   those of an earlier declaration, or of a wrong CDN answer    *)
(*   "short"   the beginning of a file that is being, or was, written       *)
(* Every await is a step of its own, so calls interleave, and the process  *)
(* may crash between any two of them.                                      *)
(***************************************************************************)
EXTENDS Naturals

CONSTANTS
  Caller,          \* concurrent calls of getOptionalResource
  MaxResourceRuns  \* bound: crashes of the process

ASSUME OptionalAssumption == MaxResourceRuns \in Nat

VARIABLES
  declared,     \* the declarations were read and name the resource
  memoryCache,  \* what the map holds, "none" at first
  cacheFile,    \* the file under optionalResources/
  getter,       \* per call: pc and the bytes it returned
  resourceRuns  \* crashes so far
optVars == <<declared, memoryCache, cacheFile, getter, resourceRuns>>

ResourceBytes == {"good", "stale", "short"}
Fresh == [pc |-> "idle", got |-> "none"]
Returned(bytes) == [pc |-> "done", got |-> bytes]

isValidLength(bytes) == bytes # "short"
isValid(bytes) == bytes = "good"

OptInit ==
  /\ declared \in BOOLEAN
  /\ memoryCache = "none"
  /\ cacheFile \in {"absent", "good", "stale"}
  /\ getter = [c \in Caller |-> Fresh]
  /\ resourceRuns = 0

\* A call, up to its first await on the disk; a resource the declarations do not
\* name (or that could not be read) is undefined.
Get(c) ==
  /\ getter[c].pc = "idle"
  /\ getter' = [getter EXCEPT ![c] =
       IF ~declared THEN Returned("undefined")
       ELSE IF memoryCache # "none" THEN Returned(memoryCache)
       ELSE [@ EXCEPT !.pc = "read"]]
  /\ UNCHANGED <<declared, memoryCache, cacheFile, resourceRuns>>

\* readFile: a file that another call is writing may be read short.
ReadFile(c) ==
  /\ getter[c].pc = "read"
  /\ \/ /\ cacheFile \in ResourceBytes /\ isValid(cacheFile)
        /\ memoryCache' = cacheFile
        /\ getter' = [getter EXCEPT ![c] = Returned(cacheFile)]
     \/ /\ cacheFile \in ResourceBytes /\ ~isValid(cacheFile)
        /\ getter' = [getter EXCEPT ![c].pc = "unlink"]
        /\ UNCHANGED memoryCache
     \/ /\ cacheFile = "absent"
        /\ getter' = [getter EXCEPT ![c].pc = "fetch"]
        /\ UNCHANGED memoryCache
  /\ UNCHANGED <<declared, cacheFile, resourceRuns>>

\* unlink removes whatever the file is by then.
UnlinkResource(c) ==
  /\ getter[c].pc = "unlink"
  /\ cacheFile' = "absent"
  /\ getter' = [getter EXCEPT ![c].pc = "fetch"]
  /\ UNCHANGED <<declared, memoryCache, resourceRuns>>

\* signalFetch answers: an error, a bad status, bytes that do not match, or the
\* resource, which is kept in memory before the file is written.
FetchFails(c) ==
  /\ getter[c].pc = "fetch"
  /\ getter' = [getter EXCEPT ![c] = Returned("undefined")]
  /\ UNCHANGED <<declared, memoryCache, cacheFile, resourceRuns>>

FetchOk(c, bytes) ==
  /\ getter[c].pc = "fetch"
  /\ isValid(bytes)
  /\ memoryCache' = bytes
  /\ getter' = [getter EXCEPT ![c] = [pc |-> "open", got |-> bytes]]
  /\ UNCHANGED <<declared, cacheFile, resourceRuns>>

\* writeFile truncates the file, then fills it; it may fail before or between.
OpenFile(c) ==
  /\ getter[c].pc = "open"
  /\ \/ /\ cacheFile' = "short"
        /\ getter' = [getter EXCEPT ![c].pc = "write"]
     \/ /\ getter' = [getter EXCEPT ![c].pc = "done"]
        /\ UNCHANGED cacheFile
  /\ UNCHANGED <<declared, memoryCache, resourceRuns>>

\* If another call unlinked the file meanwhile, its bytes go with it.
WriteFile(c) ==
  /\ getter[c].pc = "write"
  /\ \/ cacheFile' = IF cacheFile = "absent" THEN "absent" ELSE getter[c].got
     \/ UNCHANGED cacheFile
  /\ getter' = [getter EXCEPT ![c].pc = "done"]
  /\ UNCHANGED <<declared, memoryCache, resourceRuns>>

\* The process ends and starts again, perhaps with newer declarations, of which the
\* file on disk is then an earlier version.
Crash ==
  /\ resourceRuns < MaxResourceRuns
  /\ resourceRuns' = resourceRuns + 1
  /\ memoryCache' = "none"
  /\ getter' = [c \in Caller |-> Fresh]
  /\ declared' \in BOOLEAN
  /\ \/ UNCHANGED cacheFile
     \/ cacheFile = "good" /\ cacheFile' = "stale"

OptNext ==
  \/ \E c \in Caller :
       \/ Get(c) \/ ReadFile(c) \/ UnlinkResource(c) \/ FetchFails(c)
       \/ \E bytes \in ResourceBytes : FetchOk(c, bytes)
       \/ OpenFile(c) \/ WriteFile(c)
  \/ Crash
OptSpec == OptInit /\ [][OptNext]_optVars

\* What the ipc channel answers: an emoji index that is missing is an empty list.
channelAnswer(c, emojiIndex) ==
  IF getter[c].got = "undefined" /\ emojiIndex THEN "[]" ELSE getter[c].got
----------------------------------------------------------------------------
OptTypeOK ==
  /\ declared \in BOOLEAN
  /\ memoryCache \in ResourceBytes \cup {"none"}
  /\ cacheFile \in ResourceBytes \cup {"absent"}
  /\ getter \in [Caller -> [pc : {"idle", "read", "unlink", "fetch", "open", "write", "done"},
                            got : ResourceBytes \cup {"none", "undefined"}]]
  /\ resourceRuns \in 0..MaxResourceRuns

(* Nothing but verified bytes is kept in memory or answered, whatever files *)
(* a crash, an upgrade or another call in the middle of its write has left, *)
(* and an emoji index always gets an answer (optionalResources.node.ts      *)
(* 65-104, ipc.node.ts 193-203).                                            *)
OnlyVerifiedBytes ==
  /\ memoryCache \in {"none", "good"}
  /\ \A c \in Caller : getter[c].pc = "done" =>
       /\ getter[c].got \in {"good", "undefined"}
       /\ channelAnswer(c, TRUE) \in {"good", "[]"}
=============================================================================
