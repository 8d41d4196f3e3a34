---------------------------- MODULE ServerProofs ----------------------------
(***************************************************************************)
(* Theorems about the parts of the server: what is kept and answered of a   *)
(* download, the key and the settings over crashes of the server,           *)
(* attachments, and the answer of an HTTP exchange. Each part has           *)
(* variables, an invariant and lemmas of its own.                           *)
(***************************************************************************)
EXTENDS OptionalResources, ServerStart, HttpExchange, AttachmentServer, NestStream, BootPayload,
        FiniteSetTheorems, DataLemmas, TLAPS

(***************************************************************************)
(* Optional resources: only verified bytes are kept and answered, for any   *)
(* number of calls and crashes. A call holds its bytes over two more        *)
(* awaits, so the invariant also speaks of the calls that are still         *)
(* writing their file.                                                      *)
(***************************************************************************)

Writing == {"open", "write"}

HoldsVerified ==
  \A c \in Caller :
    /\ getter[c].pc \in Writing => getter[c].got = "good"
    /\ getter[c].pc = "done" => getter[c].got \in {"good", "undefined"}

OptInv == OptTypeOK /\ memoryCache \in {"none", "good"} /\ HoldsVerified

\* At the start no call has a resource, and the file of the cache may be stale.
LEMMA OptStart == OptInit => OptInv
BY OptionalAssumption
DEF OptInit, OptInv, OptTypeOK, HoldsVerified, Fresh, ResourceBytes, Writing

\* A call reads the memory, the file or the network; only what isValid accepts is
\* handed on.
LEMMA CallKeeps ==
  ASSUME OptInv, NEW c \in Caller,
         \/ Get(c) \/ ReadFile(c) \/ UnlinkResource(c) \/ FetchFails(c)
         \/ \E bytes \in ResourceBytes : FetchOk(c, bytes)
         \/ OpenFile(c) \/ WriteFile(c)
  PROVE  OptInv'
<1>1. CASE Get(c)
  BY <1>1 DEF OptInv, OptTypeOK, HoldsVerified, Writing, Get, Returned, ResourceBytes
<1>2. CASE ReadFile(c)
  BY <1>2 DEF OptInv, OptTypeOK, HoldsVerified, Writing, ReadFile, Returned, isValid, ResourceBytes
<1>3. CASE UnlinkResource(c)
  BY <1>3 DEF OptInv, OptTypeOK, HoldsVerified, Writing, UnlinkResource, ResourceBytes
<1>4. CASE FetchFails(c)
  BY <1>4 DEF OptInv, OptTypeOK, HoldsVerified, Writing, FetchFails, Returned, ResourceBytes
<1>5. CASE \E bytes \in ResourceBytes : FetchOk(c, bytes)
  BY <1>5 DEF OptInv, OptTypeOK, HoldsVerified, Writing, FetchOk, isValid, ResourceBytes
<1>6. CASE OpenFile(c)
  BY <1>6 DEF OptInv, OptTypeOK, HoldsVerified, Writing, OpenFile, ResourceBytes
<1>7. CASE WriteFile(c)
  BY <1>7 DEF OptInv, OptTypeOK, HoldsVerified, Writing, WriteFile, ResourceBytes
<1>8. QED  BY <1>1, <1>2, <1>3, <1>4, <1>5, <1>6, <1>7

\* A crash forgets the memory and every call.
LEMMA CrashKeeps ==
  ASSUME OptInv, Crash
  PROVE  OptInv'
BY OptionalAssumption DEF OptInv, OptTypeOK, HoldsVerified, Writing, Crash, Fresh, ResourceBytes

\* Whatever a crash, an upgrade or another call has left in the file, only bytes of
\* the pinned digest are answered (optionalResources.node.ts 42-104).
THEOREM VerifiedBytes == OptSpec => []OnlyVerifiedBytes
<1>1. OptInv /\ [OptNext]_optVars => OptInv'
  <2> SUFFICES ASSUME OptInv, [OptNext]_optVars PROVE OptInv'
    OBVIOUS
  <2>1. CASE OptNext
    BY <2>1, CallKeeps, CrashKeeps DEF OptNext
  <2>2. CASE UNCHANGED optVars
    BY <2>2 DEF OptInv, OptTypeOK, HoldsVerified, optVars
  <2>3. QED  BY <2>1, <2>2
<1>2. OptInv => OnlyVerifiedBytes
  BY DEF OptInv, HoldsVerified, OnlyVerifiedBytes, channelAnswer
<1>3. QED  BY OptStart, <1>1, <1>2, PTL DEF OptSpec

----------------------------------------------------------------------------
(***************************************************************************)
(* The start of the server: its key, and its settings. What is on disk is   *)
(* told by the steps that write it; the history tells of two processes that  *)
(* both make a key.                                                         *)
(***************************************************************************)

ServerStates == {"off", "dirs", "native", "key", "createKey", "writeKey", "init", "payload", "listen",
                 "serving", "saving", "closing"}
SettingCalls == {<<>>} \cup (Setting \X (Value \cup {Unset}) \X Value)
ServerRecord ==
  [pc : ServerStates, key : 0..MaxStarts, dbOpen : BOOLEAN, port : BOOLEAN, loaded : BOOLEAN,
   cache : Settings, set : SettingCalls, exit : {"none", "clean", "abort"}]

StartTyped ==
  /\ server \in [Process -> ServerRecord]
  /\ configFile \in Short..MaxStarts /\ dbKey \in 0..MaxStarts /\ starts \in 0..MaxStarts
  /\ settingsFile \in Settings
  /\ launcher \in [Process -> {"none", "waiting"}]
  /\ acked \in [Setting -> SUBSET (Value \cup {Unset})]
  /\ lost \subseteq Setting /\ raced \in BOOLEAN

\* A process that is off holds nothing.
LEMMA OffFields ==
  /\ Off \in ServerRecord
  /\ Off.pc = "off" /\ ~Off.port /\ ~Off.loaded /\ Off.key = 0
BY StartAssumption DEF Off, ServerRecord, ServerStates, SettingCalls, Absent, Settings, NoSettings

\* A launched process is a process that makes its directories.
LEMMA LaunchedFields ==
  ASSUME NEW k \in 0..MaxStarts
  PROVE  LET s == [Off EXCEPT !.pc = "dirs", !.key = k] IN
         s \in ServerRecord /\ s.pc = "dirs" /\ s.key = k /\ ~s.port /\ ~s.loaded
BY OffFields DEF ServerRecord, ServerStates

\* A process that exited is off, whatever it was.
LEMMA ExitedFields ==
  ASSUME NEW s
  PROVE  /\ Exited(s) \in ServerRecord
         /\ Exited(s).pc = "off" /\ ~Exited(s).port /\ ~Exited(s).loaded
BY OffFields DEF Exited, ServerRecord

\* Moving on changes where the process is and nothing else of it.
LEMMA GotoMoves ==
  ASSUME StartTyped, NEW p \in Process, NEW pc \in ServerStates, Goto(p, pc)
  PROVE  /\ server' \in [Process -> ServerRecord]
         /\ \A q \in Process \ {p} : server'[q] = server[q]
         /\ server'[p].pc = pc /\ server'[p].key = server[p].key /\ server'[p].port = server[p].port
         /\ server'[p].loaded = server[p].loaded /\ server'[p].cache = server[p].cache
         /\ server'[p].set = server[p].set
BY DEF StartTyped, Goto, ServerRecord

\* A failed start turns its process off and no other.
LEMMA FailMoves ==
  ASSUME StartTyped, NEW p \in Process, Fail(p)
  PROVE  /\ server' \in [Process -> ServerRecord]
         /\ \A q \in Process \ {p} : server'[q] = server[q]
         /\ server'[p].pc = "off" /\ ~server'[p].port /\ ~server'[p].loaded
<1>1. server' = [server EXCEPT ![p] = Exited(server[p])]
  BY DEF Fail
<1>2. QED  BY <1>1, ExitedFields DEF StartTyped

\* A process that read a key holds that key.
LEMMA LoadKeyMoves ==
  ASSUME StartTyped, NEW p \in Process,
         server' = [server EXCEPT ![p].pc = "init", ![p].key = configFile], configFile # Short
  PROVE  /\ server' \in [Process -> ServerRecord]
         /\ \A q \in Process \ {p} : server'[q] = server[q]
         /\ server'[p].pc = "init" /\ server'[p].key = configFile
         /\ server'[p].port = server[p].port /\ server'[p].loaded = server[p].loaded
<1>1. server[p] \in ServerRecord /\ "init" \in ServerStates /\ configFile \in 0..MaxStarts
  BY StartAssumption DEF StartTyped, ServerStates, Short
<1>2. [server[p] EXCEPT !.pc = "init", !.key = configFile] \in ServerRecord
  BY <1>1 DEF ServerRecord
<1>3. server' = [server EXCEPT ![p] = [server[p] EXCEPT !.pc = "init", !.key = configFile]]
  OBVIOUS
<1>4. server' \in [Process -> ServerRecord] /\ \A q \in Process \ {p} : server'[q] = server[q]
  BY <1>2, <1>3 DEF StartTyped
<1>5. QED  BY <1>4 DEF StartTyped, ServerRecord

\* A process that opens the database keeps its key.
LEMMA OpenDbMoves ==
  ASSUME StartTyped, NEW p \in Process,
         server' = [server EXCEPT ![p].pc = "payload", ![p].dbOpen = TRUE]
  PROVE  /\ server' \in [Process -> ServerRecord]
         /\ \A q \in Process \ {p} : server'[q] = server[q]
         /\ server'[p].pc = "payload" /\ server'[p].key = server[p].key
         /\ server'[p].port = server[p].port /\ server'[p].loaded = server[p].loaded
<1>1. server[p] \in ServerRecord /\ "payload" \in ServerStates
  BY DEF StartTyped, ServerStates
<1>2. [server[p] EXCEPT !.pc = "payload", !.dbOpen = TRUE] \in ServerRecord
  BY <1>1 DEF ServerRecord
<1>3. server' = [server EXCEPT ![p] = [server[p] EXCEPT !.pc = "payload", !.dbOpen = TRUE]]
  OBVIOUS
<1>4. server' \in [Process -> ServerRecord] /\ \A q \in Process \ {p} : server'[q] = server[q]
  BY <1>2, <1>3 DEF StartTyped
<1>5. QED  BY <1>4 DEF StartTyped, ServerRecord

\* A process that listens has the port.
LEMMA ListenMoves ==
  ASSUME StartTyped, NEW p \in Process,
         server' = [server EXCEPT ![p].pc = "serving", ![p].port = TRUE]
  PROVE  /\ server' \in [Process -> ServerRecord]
         /\ \A q \in Process \ {p} : server'[q] = server[q]
         /\ server'[p].pc = "serving" /\ server'[p].key = server[p].key
         /\ server'[p].port /\ server'[p].loaded = server[p].loaded
<1>1. server[p] \in ServerRecord /\ "serving" \in ServerStates
  BY DEF StartTyped, ServerStates
<1>2. [server[p] EXCEPT !.pc = "serving", !.port = TRUE] \in ServerRecord
  BY <1>1 DEF ServerRecord
<1>3. server' = [server EXCEPT ![p] = [server[p] EXCEPT !.pc = "serving", !.port = TRUE]]
  OBVIOUS
<1>4. server' \in [Process -> ServerRecord] /\ \A q \in Process \ {p} : server'[q] = server[q]
  BY <1>2, <1>3 DEF StartTyped
<1>5. QED  BY <1>4 DEF StartTyped, ServerRecord

\* A server that gets or sets a setting has then loaded them.
LEMMA CacheMoves ==
  ASSUME StartTyped, NEW p \in Process, NEW cache \in Settings,
         server' = [server EXCEPT ![p].loaded = TRUE, ![p].cache = cache]
  PROVE  /\ server' \in [Process -> ServerRecord]
         /\ \A q \in Process \ {p} : server'[q] = server[q]
         /\ server'[p].pc = server[p].pc /\ server'[p].key = server[p].key
         /\ server'[p].port = server[p].port /\ server'[p].loaded /\ server'[p].cache = cache
         /\ server'[p].set = server[p].set
<1>1. server[p] \in ServerRecord
  BY DEF StartTyped
<1>2. [server[p] EXCEPT !.loaded = TRUE, !.cache = cache] \in ServerRecord
  BY <1>1 DEF ServerRecord
<1>3. server' = [server EXCEPT ![p] = [server[p] EXCEPT !.loaded = TRUE, !.cache = cache]]
  OBVIOUS
<1>4. server' \in [Process -> ServerRecord] /\ \A q \in Process \ {p} : server'[q] = server[q]
  BY <1>2, <1>3 DEF StartTyped
<1>5. QED  BY <1>4 DEF StartTyped, ServerRecord

\* A saved setting is no longer being saved.
LEMMA SavedMoves ==
  ASSUME StartTyped, NEW p \in Process,
         server' = [server EXCEPT ![p].pc = "serving", ![p].set = <<>>]
  PROVE  /\ server' \in [Process -> ServerRecord]
         /\ \A q \in Process \ {p} : server'[q] = server[q]
         /\ server'[p].pc = "serving" /\ server'[p].key = server[p].key
         /\ server'[p].port = server[p].port /\ server'[p].loaded = server[p].loaded
         /\ server'[p].cache = server[p].cache
<1>1. server[p] \in ServerRecord /\ "serving" \in ServerStates /\ <<>> \in SettingCalls
  BY DEF StartTyped, ServerStates, SettingCalls
<1>2. [server[p] EXCEPT !.pc = "serving", !.set = <<>>] \in ServerRecord
  BY <1>1 DEF ServerRecord
<1>3. server' = [server EXCEPT ![p] = [server[p] EXCEPT !.pc = "serving", !.set = <<>>]]
  OBVIOUS
<1>4. server' \in [Process -> ServerRecord] /\ \A q \in Process \ {p} : server'[q] = server[q]
  BY <1>2, <1>3 DEF StartTyped
<1>5. QED  BY <1>4 DEF StartTyped, ServerRecord

\* Removing the database closes it for the process that did.
LEMMA RemoveDbMoves ==
  ASSUME StartTyped, NEW p \in Process, server' = [server EXCEPT ![p].dbOpen = FALSE]
  PROVE  /\ server' \in [Process -> ServerRecord]
         /\ \A q \in Process \ {p} : server'[q] = server[q]
         /\ server'[p].pc = server[p].pc /\ server'[p].key = server[p].key
         /\ server'[p].port = server[p].port /\ server'[p].loaded = server[p].loaded
         /\ server'[p].cache = server[p].cache /\ server'[p].set = server[p].set
<1>1. PICK s : s = [server[p] EXCEPT !.dbOpen = FALSE]
  OBVIOUS
<1>2. server \in [Process -> ServerRecord] /\ server[p] \in ServerRecord
  BY DEF StartTyped
<1>3. /\ s \in ServerRecord
      /\ s.pc = server[p].pc /\ s.key = server[p].key /\ s.port = server[p].port
      /\ s.loaded = server[p].loaded /\ s.cache = server[p].cache /\ s.set = server[p].set
  BY <1>1, <1>2 DEF ServerRecord
<1>4. server' = [server EXCEPT ![p] = s]
  BY <1>1
<1>5. QED  BY <1>2, <1>3, <1>4

\* What every server step but a launch leaves alone: no process comes to run, and the
\* key of one that runs changes only when it is read.
Runs(p) == server[p].pc # "off"

Unmade == {Absent, Short}
EarlyStates == {"dirs", "native", "key", "createKey", "writeKey"}

MakesKey(p) == server[p].pc \in {"createKey", "writeKey"}

\* At most one process makes a key: the file is absent until it creates one, and short
\* until it has written it; only then is there a database.
OneMakesKey ==
  /\ \A p, q \in Process : MakesKey(p) /\ MakesKey(q) => p = q
  /\ \A p \in Process :
       /\ server[p].pc = "createKey" => configFile = Absent
       /\ server[p].pc = "writeKey" => configFile = Short
       /\ server[p].pc = "init" => server[p].key = configFile /\ configFile \notin Unmade
  /\ configFile \in Unmade => dbKey = 0
  /\ dbKey # 0 => configFile = dbKey

KeyInv ==
  /\ \A p \in Process : server[p].pc \in EarlyStates => server[p].key \in 1..MaxStarts
  /\ ~raced => OneMakesKey

\* Steps that leave the files alone and lead to none of the states that are about them.
LEMMA QuietKey ==
  ASSUME StartTyped, KeyInv, NEW p \in Process, Runs(p),
         server' \in [Process -> ServerRecord],
         \A q \in Process \ {p} : server'[q] = server[q],
         server'[p].pc \notin {"createKey", "writeKey", "init"},
         server'[p].pc \in EarlyStates => server[p].pc \in EarlyStates /\ server'[p].key = server[p].key,
         UNCHANGED <<configFile, dbKey, raced>>
  PROVE  KeyInv'
<1>1. \A q \in Process : server'[q].pc \in EarlyStates => server'[q].key \in 1..MaxStarts
  BY DEF KeyInv
<1>2. OneMakesKey => OneMakesKey'
  BY DEF OneMakesKey, MakesKey
<1>3. QED  BY <1>1, <1>2 DEF KeyInv

\* A launch brings a process without a key.
LEMMA KeyLaunch ==
  ASSUME StartTyped, KeyInv, NEW p \in Process, Launch(p)
  PROVE  StartTyped' /\ KeyInv'
<1>1. PICK s : s = [Off EXCEPT !.pc = "dirs", !.key = starts + 1]
  OBVIOUS
<1>2. starts + 1 \in 1..MaxStarts
  BY StartAssumption DEF StartTyped, Launch
<1>3. s \in ServerRecord /\ s.pc = "dirs" /\ s.key = starts + 1
  <2>1. starts + 1 \in 0..MaxStarts
    BY <1>2
  <2>2. QED  BY <1>1, <2>1, LaunchedFields
<1>4. server' = [server EXCEPT ![p] = s]
  BY <1>1 DEF Launch
<1>5. /\ server' \in [Process -> ServerRecord] /\ server'[p] = s
      /\ \A q \in Process \ {p} : server'[q] = server[q]
  BY <1>3, <1>4 DEF StartTyped
<1>6. StartTyped'
  BY <1>2, <1>5, StartAssumption DEF StartTyped, Launch, disk, counts
<1>7. UNCHANGED <<configFile, dbKey, raced>>
  BY DEF Launch, disk
<1>8. \A q \in Process : server'[q].pc \in EarlyStates => server'[q].key \in 1..MaxStarts
  BY <1>2, <1>3, <1>5 DEF KeyInv
<1>9. OneMakesKey => OneMakesKey'
  BY <1>3, <1>5, <1>7 DEF OneMakesKey, MakesKey
<1>10. QED  BY <1>6, <1>7, <1>8, <1>9 DEF KeyInv

\* The key is looked for, made and written.
LEMMA KeyFile ==
  ASSUME StartTyped, KeyInv, NEW p \in Process, LoadKey(p) \/ CreateKey(p) \/ WriteKey(p)
  PROVE  StartTyped' /\ KeyInv'
<1>0. /\ Runs(p) /\ Absent = 0 /\ Short = -1 /\ Unmade = {0, -1}
      /\ server[p].pc \in EarlyStates /\ server[p].key \in 1..MaxStarts
  BY DEF Runs, LoadKey, CreateKey, WriteKey, At, Absent, Short, Unmade, EarlyStates, KeyInv
<1>1. ASSUME UNCHANGED <<configFile, dbKey, settingsFile, launcher, starts, acked, lost, raced>>, Fail(p)
      PROVE  StartTyped' /\ KeyInv'
  <2>1. StartTyped'
    BY <1>1, FailMoves DEF StartTyped
  <2>2. KeyInv'
    BY <1>0, <1>1, FailMoves, QuietKey DEF EarlyStates
  <2>3. QED  BY <2>1, <2>2
<1>2. CASE LoadKey(p)
  <2>1. UNCHANGED <<configFile, dbKey, settingsFile, launcher, starts, acked, lost>>
    BY <1>2 DEF LoadKey, disk
  <2>2. CASE Fail(p) /\ configFile = Short
    <3>1. UNCHANGED raced
      BY <1>0, <1>2, <2>2 DEF LoadKey, ConfigExists, StartTyped
    <3>2. QED  BY <1>1, <2>1, <2>2, <3>1
  <2>3. CASE /\ configFile \notin Unmade
             /\ server' = [server EXCEPT ![p].pc = "init", ![p].key = configFile]
    <3>1. /\ server' \in [Process -> ServerRecord]
          /\ \A q \in Process \ {p} : server'[q] = server[q]
          /\ server'[p].pc = "init" /\ server'[p].key = configFile
      BY <2>3, LoadKeyMoves DEF Unmade
    <3>2. UNCHANGED raced
      BY <1>0, <1>2, <2>3 DEF LoadKey, ConfigExists, StartTyped
    <3>3. StartTyped'
      BY <2>1, <3>1, <3>2 DEF StartTyped
    <3>4. OneMakesKey => OneMakesKey'
      BY <2>1, <2>3, <3>1 DEF OneMakesKey, MakesKey
    <3>5. KeyInv'
      BY <3>1, <3>2, <3>4 DEF KeyInv, EarlyStates
    <3>6. QED  BY <3>3, <3>5
  <2>4. CASE configFile = Absent /\ Goto(p, "createKey")
    <3>1. /\ server' \in [Process -> ServerRecord]
          /\ \A q \in Process \ {p} : server'[q] = server[q]
          /\ server'[p].pc = "createKey" /\ server'[p].key = server[p].key
      BY <2>4, GotoMoves DEF ServerStates
    <3>2. raced' \in BOOLEAN /\ (~raced' => ~raced /\ \A q \in Process : server[q].pc # "createKey")
      BY <1>2, <2>4 DEF LoadKey, ConfigExists, At, StartTyped
    <3>3. StartTyped'
      BY <2>1, <3>1, <3>2 DEF StartTyped
    <3>4. ASSUME ~raced' PROVE OneMakesKey'
      <4>1. OneMakesKey /\ \A q \in Process \ {p} : ~MakesKey(q)'
        BY <1>0, <2>4, <3>1, <3>2, <3>4 DEF OneMakesKey, MakesKey, KeyInv
      <4>2. QED  BY <2>1, <2>4, <3>1, <4>1 DEF OneMakesKey, MakesKey
    <3>5. KeyInv'
      BY <1>0, <3>1, <3>4 DEF KeyInv
    <3>6. QED  BY <3>3, <3>5
  <2>5. QED  BY <1>2, <2>2, <2>3, <2>4 DEF LoadKey, ConfigExists, Unmade
<1>3. CASE CreateKey(p)
  <2>1. UNCHANGED <<dbKey, settingsFile, launcher, starts, acked, lost, raced>>
    BY <1>3 DEF CreateKey, counts
  <2>2. CASE configFile' = Short /\ Goto(p, "writeKey")
    <3>1. /\ server' \in [Process -> ServerRecord]
          /\ \A q \in Process \ {p} : server'[q] = server[q]
          /\ server'[p].pc = "writeKey" /\ server'[p].key = server[p].key
      BY <2>2, GotoMoves DEF ServerStates
    <3>2. StartTyped'
      BY <2>1, <2>2, <3>1, StartAssumption DEF StartTyped, Short
    <3>3. ASSUME OneMakesKey PROVE OneMakesKey'
      <4>1. server[p].pc = "createKey" /\ configFile = Absent
        BY <1>3, <3>3 DEF CreateKey, At, OneMakesKey
      <4>2. \A q \in Process \ {p} : ~MakesKey(q) /\ server[q].pc # "init"
        BY <1>0, <3>3, <4>1 DEF OneMakesKey, MakesKey
      <4>3. dbKey' = 0
        BY <1>0, <2>1, <3>3, <4>1 DEF OneMakesKey
      <4>4. QED  BY <2>2, <3>1, <4>2, <4>3 DEF OneMakesKey, MakesKey
    <3>4. KeyInv'
      BY <1>0, <2>1, <3>1, <3>3 DEF KeyInv
    <3>5. QED  BY <3>2, <3>4
  <2>3. QED  BY <1>1, <1>3, <2>1, <2>2 DEF CreateKey
<1>4. CASE WriteKey(p)
  <2>1. UNCHANGED <<dbKey, settingsFile, launcher, starts, acked, lost, raced>>
    BY <1>4 DEF WriteKey, counts
  <2>2. CASE configFile' = server[p].key /\ Goto(p, "init")
    <3>1. /\ server' \in [Process -> ServerRecord]
          /\ \A q \in Process \ {p} : server'[q] = server[q]
          /\ server'[p].pc = "init" /\ server'[p].key = server[p].key
      BY <2>2, GotoMoves DEF ServerStates
    <3>2. StartTyped'
      BY <1>0, <2>1, <2>2, <3>1, StartAssumption DEF StartTyped
    <3>3. ASSUME OneMakesKey PROVE OneMakesKey'
      <4>1. server[p].pc = "writeKey" /\ configFile = Short
        BY <1>4, <3>3 DEF WriteKey, At, OneMakesKey
      <4>2. \A q \in Process \ {p} : ~MakesKey(q) /\ server[q].pc # "init"
        BY <1>0, <3>3, <4>1 DEF OneMakesKey, MakesKey
      <4>3. dbKey' = 0
        BY <1>0, <2>1, <3>3, <4>1 DEF OneMakesKey
      <4>4. configFile' \notin Unmade
        BY <1>0, <2>2
      <4>5. QED  BY <2>2, <3>1, <4>2, <4>3, <4>4 DEF OneMakesKey, MakesKey, Unmade
    <3>4. KeyInv'
      BY <2>1, <3>1, <3>3 DEF KeyInv, EarlyStates
    <3>5. QED  BY <3>2, <3>4
  <2>3. QED  BY <1>1, <1>4, <2>1, <2>2 DEF WriteKey
<1>5. QED  BY <1>2, <1>3, <1>4

\* A database that opens does so under the key of its file.
LEMMA KeyOpened ==
  ASSUME StartTyped, KeyInv, NEW p \in Process, OpenDb(p)
  PROVE  StartTyped' /\ KeyInv'
<1>0. Runs(p) /\ server[p].pc = "init"
  BY DEF Runs, OpenDb, At
<1>1. UNCHANGED <<configFile, settingsFile, launcher, starts, acked, lost, raced>>
  BY DEF OpenDb, counts
<1>2. CASE /\ dbKey' = server[p].key
           /\ server' = [server EXCEPT ![p].pc = "payload", ![p].dbOpen = TRUE]
  <2>1. /\ server' \in [Process -> ServerRecord]
        /\ \A q \in Process \ {p} : server'[q] = server[q]
        /\ server'[p].pc = "payload"
    BY <1>2, OpenDbMoves
  <2>2. server[p].key \in 0..MaxStarts
    BY DEF StartTyped, ServerRecord
  <2>3. StartTyped'
    BY <1>1, <1>2, <2>1, <2>2 DEF StartTyped
  <2>4. ASSUME OneMakesKey PROVE OneMakesKey'
    <3>1. server[p].key = configFile /\ configFile \notin Unmade
      BY <1>0, <2>4 DEF OneMakesKey
    <3>2. QED  BY <1>1, <1>2, <2>1, <2>4, <3>1 DEF OneMakesKey, MakesKey
  <2>5. KeyInv'
    BY <1>1, <2>1, <2>4 DEF KeyInv, EarlyStates
  <2>6. QED  BY <2>3, <2>5
<1>3. CASE UNCHANGED dbKey /\ Fail(p)
  <2>1. StartTyped'
    BY <1>1, <1>3, FailMoves DEF StartTyped
  <2>2. KeyInv'
    BY <1>0, <1>1, <1>3, FailMoves, QuietKey DEF EarlyStates
  <2>3. QED  BY <2>1, <2>2
<1>4. QED  BY <1>2, <1>3 DEF OpenDb

\* The server whose settings count: it has the port, and one server has it.
ServesOnPort ==
  /\ \A p, q \in Process : server[p].port /\ server[q].port => p = q
  /\ \A p \in Process :
       /\ server[p].pc \in {"serving", "saving"} => server[p].port
       /\ server[p].loaded \/ server[p].port => server[p].pc \in {"serving", "saving", "closing"}

\* What the file says was acknowledged, but while it is being written; and what the
\* cache says, but for the setting that is being written, where the cache has the value.
SettingsAcked ==
  /\ (\A p \in Process : server[p].pc # "saving") => \A n \in Setting \ lost : settingsFile[n] \in acked[n]
  /\ \A p \in Process :
       /\ server[p].pc = "serving" /\ server[p].loaded =>
            \A n \in Setting \ lost : server[p].cache[n] \in acked[n]
       /\ server[p].pc = "saving" =>
            /\ server[p].set # <<>> /\ server[p].cache[server[p].set[1]] = server[p].set[3]
            /\ \A n \in Setting \ lost : n # server[p].set[1] => server[p].cache[n] \in acked[n]

SettingsInv == ServesOnPort /\ SettingsAcked

\* Steps that are not about settings, and by which no server comes to serve.
LEMMA QuietSettings ==
  ASSUME StartTyped, SettingsInv, NEW p \in Process,
         server' \in [Process -> ServerRecord],
         \A q \in Process \ {p} : server'[q] = server[q],
         server[p].pc # "saving", server'[p].pc \notin {"serving", "saving"},
         server'[p].port => server[p].port,
         server'[p].loaded \/ server'[p].port => server'[p].pc = "closing",
         UNCHANGED <<settingsFile, acked, lost>>
  PROVE  SettingsInv'
<1>1. ServesOnPort'
  BY DEF SettingsInv, ServesOnPort
<1>2. SettingsAcked'
  <2>1. (\A q \in Process : server'[q].pc # "saving") => \A q \in Process : server[q].pc # "saving"
    OBVIOUS
  <2>2. QED  BY <2>1 DEF SettingsInv, SettingsAcked
<1>3. QED  BY <1>1, <1>2 DEF SettingsInv

StartInv == StartTyped /\ SettingsInv

\* At the start no process runs.
LEMMA StartBegins == StartInit => StartInv /\ KeyInv
<1> SUFFICES ASSUME StartInit PROVE StartInv /\ KeyInv
  OBVIOUS
<1>1. \A p \in Process : server[p] = Off
  BY DEF StartInit
<1>2. StartTyped
  <2>1. server \in [Process -> ServerRecord]
    BY <1>1, OffFields DEF StartInit
  <2>2. raced \in BOOLEAN
    BY DEF StartInit
  <2>3. configFile \in Short..MaxStarts /\ dbKey \in 0..MaxStarts /\ starts \in 0..MaxStarts
    BY StartAssumption DEF StartInit, Absent, Short
  <2>4. /\ settingsFile \in Settings /\ lost \subseteq Setting
        /\ launcher \in [Process -> {"none", "waiting"}]
        /\ acked \in [Setting -> SUBSET (Value \cup {Unset})]
    BY DEF StartInit, Settings, NoSettings
  <2>5. QED  BY <2>1, <2>2, <2>3, <2>4 DEF StartTyped
<1>3. KeyInv
  BY <1>1, OffFields DEF StartInit, KeyInv, OneMakesKey, MakesKey, EarlyStates
<1>4. SettingsInv
  <2>1. ServesOnPort
    BY <1>1, OffFields DEF ServesOnPort
  <2>2. SettingsAcked
    BY <1>1, OffFields DEF StartInit, SettingsAcked, NoSettings
  <2>3. QED  BY <2>1, <2>2 DEF SettingsInv
<1>5. QED  BY <1>2, <1>3, <1>4 DEF StartInv

\* A launch finds its server off, and the key steps are not about settings.
LEMMA LaunchKeeps ==
  ASSUME StartInv, NEW p \in Process, Launch(p)
  PROVE  StartInv'
<1>1. PICK s : s = [Off EXCEPT !.pc = "dirs", !.key = starts + 1]
  OBVIOUS
<1>2. starts + 1 \in 0..MaxStarts
  BY StartAssumption DEF StartInv, StartTyped, Launch
<1>3. s \in ServerRecord /\ s.pc = "dirs" /\ ~s.port /\ ~s.loaded
  BY <1>1, <1>2, LaunchedFields
<1>4. server' = [server EXCEPT ![p] = s] /\ server[p].pc = "off"
  BY <1>1 DEF Launch, At
<1>5. /\ server' \in [Process -> ServerRecord] /\ server'[p] = s
      /\ \A q \in Process \ {p} : server'[q] = server[q]
  BY <1>3, <1>4 DEF StartInv, StartTyped
<1>6. UNCHANGED <<settingsFile, acked, lost>>
  BY DEF Launch, disk
<1>7. SettingsInv'
  BY <1>3, <1>4, <1>5, <1>6, QuietSettings DEF StartInv
<1>8. StartTyped'
  BY <1>2, <1>5, StartAssumption DEF StartInv, StartTyped, Launch, disk, counts
<1>9. QED  BY <1>7, <1>8 DEF StartInv

\* Reading, making and writing the key keep the account of settings.
LEMMA KeyStepKeeps ==
  ASSUME StartInv, NEW p \in Process, LoadKey(p) \/ CreateKey(p) \/ WriteKey(p) \/ OpenDb(p)
  PROVE  StartInv'
<1>1. server[p].pc \in {"key", "createKey", "writeKey", "init"}
  BY DEF LoadKey, CreateKey, WriteKey, OpenDb, At
<1>2. ~server[p].port /\ ~server[p].loaded /\ server[p].key \in 0..MaxStarts
  BY <1>1 DEF StartInv, SettingsInv, ServesOnPort, StartTyped, ServerRecord
<1>3. UNCHANGED <<settingsFile, launcher, starts, acked, lost>> /\ raced' \in BOOLEAN
  BY DEF LoadKey, CreateKey, WriteKey, OpenDb, disk, counts, StartInv, StartTyped
<1>4. configFile' \in Short..MaxStarts /\ dbKey' \in 0..MaxStarts
  BY <1>2, StartAssumption DEF LoadKey, CreateKey, WriteKey, OpenDb, disk, counts, StartInv, StartTyped, Short
<1>5. ASSUME server' \in [Process -> ServerRecord],
             \A q \in Process \ {p} : server'[q] = server[q],
             server'[p].pc \in {"off", "createKey", "writeKey", "init", "payload"},
             ~server'[p].port, ~server'[p].loaded
      PROVE  StartInv'
  <2>1. SettingsInv'
    BY <1>1, <1>3, <1>5, QuietSettings DEF StartInv
  <2>2. StartTyped'
    BY <1>3, <1>4, <1>5 DEF StartInv, StartTyped
  <2>3. QED  BY <2>1, <2>2 DEF StartInv
<1>6. CASE Fail(p)
  BY <1>5, <1>6, FailMoves DEF StartInv
<1>7. CASE \E pc \in {"createKey", "writeKey", "init"} : Goto(p, pc)
  <2>1. PICK pc \in {"createKey", "writeKey", "init"} : Goto(p, pc)
    BY <1>7
  <2>2. pc \in ServerStates
    BY DEF ServerStates
  <2>3. QED  BY <1>2, <1>5, <2>1, <2>2, GotoMoves DEF StartInv
<1>8. CASE server' = [server EXCEPT ![p].pc = "init", ![p].key = configFile] /\ configFile # Short
  BY <1>2, <1>5, <1>8, LoadKeyMoves DEF StartInv
<1>9. CASE server' = [server EXCEPT ![p].pc = "payload", ![p].dbOpen = TRUE]
  BY <1>2, <1>5, <1>9, OpenDbMoves DEF StartInv
<1>10. QED  BY <1>6, <1>7, <1>8, <1>9 DEF LoadKey, CreateKey, WriteKey, OpenDb

\* The steps of a start that touch neither key nor settings keep both accounts.
LEMMA MoveKeeps ==
  ASSUME StartInv, NEW p \in Process,
         MakeDirs(p) \/ InitNative(p) \/ BuildPayload(p) \/ Signal(p) \/ CloseDone(p)
  PROVE  StartInv' /\ (KeyInv => KeyInv')
<1>1. UNCHANGED <<configFile, dbKey, settingsFile, launcher, starts, acked, lost, raced>>
  BY DEF MakeDirs, InitNative, BuildPayload, Signal, CloseDone, disk, counts
<1>2. /\ Runs(p) /\ server[p].pc # "saving"
      /\ (~server[p].port /\ ~server[p].loaded) \/ server[p].pc \in {"serving", "closing"}
  BY DEF MakeDirs, InitNative, BuildPayload, Signal, CloseDone, At, Runs, StartInv, SettingsInv, ServesOnPort
<1>3. CASE \E s : server' = [server EXCEPT ![p] = Exited(s)]
  <2>1. PICK s : server' = [server EXCEPT ![p] = Exited(s)]
    BY <1>3
  <2>2. /\ server' \in [Process -> ServerRecord]
        /\ \A q \in Process \ {p} : server'[q] = server[q]
        /\ server'[p].pc = "off" /\ ~server'[p].port /\ ~server'[p].loaded
    BY <2>1, ExitedFields DEF StartInv, StartTyped
  <2>3. StartTyped'
    BY <1>1, <2>2 DEF StartInv, StartTyped
  <2>4. KeyInv => KeyInv'
    BY <1>1, <1>2, <2>2, QuietKey DEF StartInv, EarlyStates
  <2>5. SettingsInv'
    BY <1>1, <1>2, <2>2, QuietSettings DEF StartInv
  <2>6. QED  BY <2>3, <2>4, <2>5 DEF StartInv
<1>4. ASSUME NEW pc \in ServerStates, Goto(p, pc), pc \in {"native", "key", "listen", "closing"},
             pc \in EarlyStates => server[p].pc \in EarlyStates,
             server[p].pc \in {"serving", "closing"} => pc = "closing"
      PROVE  StartInv' /\ (KeyInv => KeyInv')
  <2>1. /\ server' \in [Process -> ServerRecord]
        /\ \A q \in Process \ {p} : server'[q] = server[q]
        /\ server'[p].pc = pc /\ server'[p].key = server[p].key /\ server'[p].port = server[p].port
        /\ server'[p].loaded = server[p].loaded
    BY <1>4, GotoMoves DEF StartInv
  <2>2. StartTyped'
    BY <1>1, <2>1 DEF StartInv, StartTyped
  <2>3. KeyInv => KeyInv'
    BY <1>1, <1>2, <1>4, <2>1, QuietKey DEF StartInv
  <2>4. SettingsInv'
    BY <1>1, <1>2, <1>4, <2>1, QuietSettings DEF StartInv
  <2>5. QED  BY <2>2, <2>3, <2>4 DEF StartInv
<1>5. CASE MakeDirs(p) \/ InitNative(p) \/ BuildPayload(p) \/ Signal(p)
  <2>1. CASE Fail(p)
    BY <1>3, <2>1 DEF Fail
  <2>2. CASE MakeDirs(p) /\ Goto(p, "native")
    BY <1>4, <2>2 DEF MakeDirs, At, ServerStates, EarlyStates
  <2>3. CASE InitNative(p) /\ Goto(p, "key")
    BY <1>4, <2>3 DEF InitNative, At, ServerStates, EarlyStates
  <2>4. CASE BuildPayload(p) /\ Goto(p, "listen")
    BY <1>4, <2>4 DEF BuildPayload, At, ServerStates, EarlyStates
  <2>5. CASE Signal(p) /\ Goto(p, "closing")
    BY <1>4, <2>5 DEF ServerStates, EarlyStates
  <2>6. QED  BY <1>5, <2>1, <2>2, <2>3, <2>4, <2>5 DEF MakeDirs, InitNative, BuildPayload, Signal
<1>6. CASE CloseDone(p)
  BY <1>3, <1>6 DEF CloseDone
<1>7. QED  BY <1>5, <1>6

\* A server that dies while it writes the settings loses them all.
LEMMA KillKeeps ==
  ASSUME StartInv, NEW p \in Process, Kill(p)
  PROVE  StartInv' /\ (KeyInv => KeyInv')
<1>1. UNCHANGED <<configFile, dbKey, settingsFile, launcher, starts, acked, raced>>
  BY DEF Kill, disk
<1>2. Runs(p)
  BY DEF Kill, At, Runs
<1>3. /\ server' \in [Process -> ServerRecord]
      /\ \A q \in Process \ {p} : server'[q] = server[q]
      /\ server'[p].pc = "off" /\ ~server'[p].port /\ ~server'[p].loaded
  BY OffFields DEF StartInv, StartTyped, Kill
<1>4. StartTyped'
  BY <1>1, <1>3 DEF StartInv, StartTyped, Kill
<1>5. KeyInv => KeyInv'
  BY <1>1, <1>2, <1>3, QuietKey DEF StartInv, EarlyStates
<1>6. CASE server[p].pc # "saving"
  <2>1. UNCHANGED lost
    BY <1>6 DEF Kill, At
  <2>2. SettingsInv'
    BY <1>1, <1>3, <1>6, <2>1, QuietSettings DEF StartInv
  <2>3. QED  BY <1>4, <1>5, <2>2 DEF StartInv
<1>7. CASE server[p].pc = "saving"
  <2>1. lost' = Setting
    BY <1>7 DEF Kill, At
  <2>2. ServesOnPort'
    BY <1>3 DEF StartInv, SettingsInv, ServesOnPort
  <2>3. \A q \in Process : server'[q].pc # "saving"
    BY <1>3, <1>7 DEF StartInv, SettingsInv, ServesOnPort
  <2>4. SettingsAcked'
    BY <2>1, <2>3 DEF SettingsAcked
  <2>5. QED  BY <1>4, <1>5, <2>2, <2>4 DEF StartInv, SettingsInv
<1>8. QED  BY <1>6, <1>7


\* The port is free, so nobody is writing the settings and the file can be trusted.
LEMMA ListenKeeps ==
  ASSUME StartInv, NEW p \in Process, Listen(p)
  PROVE  StartInv' /\ (KeyInv => KeyInv')
<1>1. UNCHANGED <<configFile, dbKey, settingsFile, launcher, starts, acked, lost, raced>>
  BY DEF Listen, disk, counts
<1>2. Runs(p) /\ server[p].pc = "listen" /\ ~server[p].port /\ ~server[p].loaded
  BY DEF Listen, At, Runs, StartInv, SettingsInv, ServesOnPort
<1>3. CASE Fail(p)
  <2>1. /\ server' \in [Process -> ServerRecord]
        /\ \A q \in Process \ {p} : server'[q] = server[q]
        /\ server'[p].pc = "off" /\ ~server'[p].port /\ ~server'[p].loaded
    BY <1>3, FailMoves DEF StartInv
  <2>2. StartTyped'
    BY <1>1, <2>1 DEF StartInv, StartTyped
  <2>3. KeyInv => KeyInv'
    BY <1>1, <1>2, <2>1, QuietKey DEF StartInv, EarlyStates
  <2>4. SettingsInv'
    BY <1>1, <1>2, <2>1, QuietSettings DEF StartInv
  <2>5. QED  BY <2>2, <2>3, <2>4 DEF StartInv
<1>4. CASE PortOwner = {} /\ server' = [server EXCEPT ![p].pc = "serving", ![p].port = TRUE]
  <2>1. /\ server' \in [Process -> ServerRecord]
        /\ \A q \in Process \ {p} : server'[q] = server[q]
        /\ server'[p].pc = "serving" /\ server'[p].port /\ server'[p].loaded = server[p].loaded
    BY <1>4, ListenMoves DEF StartInv
  <2>2. \A q \in Process : ~server[q].port
    BY <1>4 DEF PortOwner
  <2>3. StartTyped'
    BY <1>1, <2>1 DEF StartInv, StartTyped
  <2>4. KeyInv => KeyInv'
    BY <1>1, <1>2, <2>1, QuietKey DEF StartInv, EarlyStates
  <2>5. ServesOnPort'
    BY <2>1, <2>2 DEF StartInv, SettingsInv, ServesOnPort
  <2>6. \A q \in Process : server[q].pc # "saving" /\ server'[q].pc # "saving"
    BY <2>1, <2>2 DEF StartInv, SettingsInv, ServesOnPort
  <2>7. SettingsAcked'
    BY <1>1, <1>2, <2>1, <2>6 DEF StartInv, SettingsInv, SettingsAcked
  <2>8. QED  BY <2>3, <2>4, <2>5, <2>7 DEF StartInv, SettingsInv
<1>5. QED  BY <1>3, <1>4 DEF Listen

\* The settings a serving server works on are acknowledged, whether it has loaded them
\* or not.
LEMMA LoadedAcked ==
  ASSUME StartInv, NEW p \in Process, server[p].pc = "serving"
  PROVE  /\ loadSettings(p) \in Settings
         /\ \A n \in Setting \ lost : loadSettings(p)[n] \in acked[n]
         /\ \A q \in Process : server[q].pc # "saving"
         /\ \A q \in Process \ {p} : server[q].pc # "serving"
         /\ server[p].port /\ \A q \in Process \ {p} : ~server[q].port
<1>1. /\ \A q \in Process : server[q].pc # "saving"
      /\ \A q \in Process \ {p} : server[q].pc # "serving"
      /\ server[p].port /\ \A q \in Process \ {p} : ~server[q].port
  BY DEF StartInv, SettingsInv, ServesOnPort
<1>2. loadSettings(p) \in Settings
  BY DEF StartInv, StartTyped, loadSettings, ServerRecord
<1>3. \A n \in Setting \ lost : settingsFile[n] \in acked[n]
  BY <1>1 DEF StartInv, SettingsInv, SettingsAcked
<1>4. \A n \in Setting \ lost : loadSettings(p)[n] \in acked[n]
  BY <1>3 DEF StartInv, SettingsInv, SettingsAcked, loadSettings
<1>5. QED  BY <1>1, <1>2, <1>4

\* Reading a setting and removing the database keep both accounts.
LEMMA GetKeeps ==
  ASSUME StartInv, NEW p \in Process, GetSetting(p) \/ RemoveDb(p)
  PROVE  StartInv' /\ (KeyInv => KeyInv')
<1>1. UNCHANGED <<configFile, dbKey, settingsFile, launcher, starts, acked, lost, raced>>
  BY DEF GetSetting, RemoveDb, disk, counts
<1>2. Runs(p) /\ server[p].pc = "serving"
  BY DEF GetSetting, RemoveDb, At, Runs
<1>3. PICK f : f = loadSettings(p)
  OBVIOUS
<1>4. f \in Settings /\ \A n \in Setting \ lost : f[n] \in acked[n]
  BY <1>2, <1>3, LoadedAcked
<1>5. CASE GetSetting(p)
  <2>1. server' = [server EXCEPT ![p].loaded = TRUE, ![p].cache = f]
    BY <1>3, <1>5 DEF GetSetting
  <2>2. /\ server' \in [Process -> ServerRecord]
        /\ \A q \in Process \ {p} : server'[q] = server[q]
        /\ server'[p].pc = server[p].pc /\ server'[p].port = server[p].port
        /\ server'[p].loaded /\ server'[p].cache = f
    BY <1>4, <2>1, CacheMoves DEF StartInv
  <2>3. StartTyped'
    BY <1>1, <2>2 DEF StartInv, StartTyped
  <2>4. KeyInv => KeyInv'
    BY <1>1, <1>2, <2>2, QuietKey DEF StartInv, EarlyStates
  <2>5. ServesOnPort'
    BY <1>2, <2>2 DEF StartInv, SettingsInv, ServesOnPort
  <2>6. SettingsAcked'
    BY <1>1, <1>2, <1>4, <2>2 DEF StartInv, SettingsInv, SettingsAcked
  <2>7. QED  BY <2>3, <2>4, <2>5, <2>6 DEF StartInv, SettingsInv
<1>6. CASE RemoveDb(p)
  <2>1. /\ server' \in [Process -> ServerRecord]
        /\ \A q \in Process \ {p} : server'[q] = server[q]
        /\ server'[p].pc = server[p].pc /\ server'[p].port = server[p].port
        /\ server'[p].loaded = server[p].loaded /\ server'[p].cache = server[p].cache
    BY <1>6, RemoveDbMoves DEF StartInv, RemoveDb
  <2>2. StartTyped'
    BY <1>1, <2>1 DEF StartInv, StartTyped
  <2>3. KeyInv => KeyInv'
    BY <1>1, <1>2, <2>1, QuietKey DEF StartInv, EarlyStates
  <2>4. ServesOnPort'
    BY <1>2, <2>1 DEF StartInv, SettingsInv, ServesOnPort
  <2>5. SettingsAcked'
    BY <1>1, <1>2, <2>1 DEF StartInv, SettingsInv, SettingsAcked
  <2>6. QED  BY <2>2, <2>3, <2>4, <2>5 DEF StartInv, SettingsInv
<1>7. QED  BY <1>5, <1>6

\* A setting being changed is in the cache before it is acknowledged.
LEMMA SetKeeps ==
  ASSUME StartInv, NEW p \in Process, NEW n \in Setting, NEW v \in Value, SetSetting(p, n, v)
  PROVE  StartInv' /\ (KeyInv => KeyInv')
<1>1. UNCHANGED <<configFile, dbKey, launcher, starts, lost, raced>>
  BY DEF SetSetting
<1>2. Runs(p) /\ server[p].pc = "serving"
  BY DEF SetSetting, At, Runs
<1>3. PICK f : f = loadSettings(p)
  OBVIOUS
<1>4. f \in Settings /\ \A m \in Setting \ lost : f[m] \in acked[m]
  BY <1>2, <1>3, LoadedAcked
<1>5. PICK cache : cache = [f EXCEPT ![n] = v]
  OBVIOUS
<1>6. cache \in Settings /\ cache[n] = v /\ \A m \in Setting \ {n} : cache[m] = f[m]
  BY <1>4, <1>5 DEF Settings
<1>7. PICK call : call = <<n, f[n], v>>
  OBVIOUS
<1>8. call \in SettingCalls /\ call # <<>> /\ call[1] = n /\ call[3] = v
  BY <1>4, <1>7 DEF Settings, SettingCalls
<1>9. CASE /\ settingsFile' = NoSettings /\ UNCHANGED acked
           /\ server' = [server EXCEPT ![p].loaded = TRUE, ![p].cache = cache, ![p].pc = "saving",
                                       ![p].set = call]
  <2>1. /\ server' \in [Process -> ServerRecord]
        /\ \A q \in Process \ {p} : server'[q] = server[q]
        /\ server'[p].pc = "saving" /\ server'[p].port = server[p].port
        /\ server'[p].loaded /\ server'[p].cache = cache /\ server'[p].set = call
    <3>1. server[p] \in ServerRecord /\ server \in [Process -> ServerRecord] /\ "saving" \in ServerStates
      BY DEF StartInv, StartTyped, ServerStates
    <3>2. PICK s : s = [server[p] EXCEPT !.loaded = TRUE, !.cache = cache, !.pc = "saving", !.set = call]
      OBVIOUS
    <3>3. /\ s \in ServerRecord /\ s.pc = "saving" /\ s.port = server[p].port
          /\ s.loaded /\ s.cache = cache /\ s.set = call
      BY <1>6, <1>8, <3>1, <3>2 DEF ServerRecord
    <3>4. server' = [server EXCEPT ![p] = s]
      BY <1>9, <3>2
    <3>5. QED  BY <3>1, <3>3, <3>4
  <2>2. StartTyped'
    BY <1>1, <1>9, <2>1 DEF StartInv, StartTyped, Settings, NoSettings
  <2>3. KeyInv => KeyInv'
    BY <1>1, <1>2, <2>1, QuietKey DEF StartInv, EarlyStates
  <2>4. ServesOnPort'
    BY <1>2, <2>1 DEF StartInv, SettingsInv, ServesOnPort
  <2>5. \A q \in Process \ {p} : server'[q].pc \notin {"serving", "saving"}
    BY <1>2, <2>1, LoadedAcked
  <2>6. SettingsAcked'
    <3>1. ~\A q \in Process : server'[q].pc # "saving"
      BY <2>1
    <3>2. server'[p].set # <<>> /\ server'[p].cache[server'[p].set[1]] = server'[p].set[3]
      BY <1>6, <1>8, <2>1
    <3>3. \A m \in Setting \ lost' : m # server'[p].set[1] => server'[p].cache[m] \in acked'[m]
      BY <1>1, <1>4, <1>6, <1>8, <1>9, <2>1
    <3>4. server'[p].pc # "serving"
      BY <2>1
    <3>5. QED  BY <2>5, <3>1, <3>2, <3>3, <3>4 DEF SettingsAcked
  <2>7. QED  BY <2>2, <2>3, <2>4, <2>6 DEF StartInv, SettingsInv
<1>10. CASE /\ server' = [server EXCEPT ![p].loaded = TRUE, ![p].cache = cache]
            /\ acked' = [acked EXCEPT ![n] = @ \cup {v}]
            /\ UNCHANGED settingsFile
  <2>1. /\ server' \in [Process -> ServerRecord]
        /\ \A q \in Process \ {p} : server'[q] = server[q]
        /\ server'[p].pc = server[p].pc /\ server'[p].port = server[p].port
        /\ server'[p].loaded /\ server'[p].cache = cache
    BY <1>6, <1>10, CacheMoves DEF StartInv
  <2>2. /\ acked' \in [Setting -> SUBSET (Value \cup {Unset})] /\ v \in acked'[n]
        /\ \A m \in Setting : acked[m] \subseteq acked'[m]
    BY <1>10 DEF StartInv, StartTyped
  <2>3. StartTyped'
    BY <1>1, <1>10, <2>1, <2>2 DEF StartInv, StartTyped
  <2>4. KeyInv => KeyInv'
    BY <1>1, <1>2, <2>1, QuietKey DEF StartInv, EarlyStates
  <2>5. ServesOnPort'
    BY <1>2, <2>1 DEF StartInv, SettingsInv, ServesOnPort
  <2>6. \A q \in Process \ {p} : server'[q].pc \notin {"serving", "saving"}
    BY <1>2, <2>1, LoadedAcked
  <2>7. \A m \in Setting \ lost : settingsFile[m] \in acked[m]
    BY <1>2, LoadedAcked DEF StartInv, SettingsInv, SettingsAcked
  <2>8. \A m \in Setting \ lost : cache[m] \in acked'[m]
    BY <1>4, <1>6, <2>2
  <2>9. SettingsAcked'
    BY <1>1, <1>2, <1>10, <2>1, <2>2, <2>6, <2>7, <2>8 DEF SettingsAcked
  <2>10. QED  BY <2>3, <2>4, <2>5, <2>9 DEF StartInv, SettingsInv
<1>11. QED  BY <1>3, <1>5, <1>7, <1>9, <1>10 DEF SetSetting

\* A setting that was saved is in the file when it is acknowledged.
LEMMA SaveKeeps ==
  ASSUME StartInv, NEW p \in Process, SaveSetting(p)
  PROVE  StartInv' /\ (KeyInv => KeyInv')
<1>1. UNCHANGED <<configFile, dbKey, launcher, starts, raced>>
  BY DEF SaveSetting
<1>2. Runs(p) /\ server[p].pc = "saving"
  BY DEF SaveSetting, At, Runs
<1>3. PICK n : n = server[p].set[1]
  OBVIOUS
<1>4. PICK v : v = server[p].set[3]
  OBVIOUS
<1>5. PICK cache : cache = server[p].cache
  OBVIOUS
<1>6. server[p].set \in SettingCalls /\ server[p].set # <<>> /\ cache \in Settings
  BY <1>2, <1>5 DEF StartInv, StartTyped, ServerRecord, SettingsInv, SettingsAcked
<1>7. n \in Setting /\ v \in Value
  BY <1>3, <1>4, <1>6 DEF SettingCalls
<1>8. cache[n] = v /\ \A m \in Setting \ lost : m # n => cache[m] \in acked[m]
  BY <1>2, <1>3, <1>4, <1>5 DEF StartInv, SettingsInv, SettingsAcked
<1>9. \A q \in Process \ {p} : server[q].pc \notin {"serving", "saving"}
  BY <1>2 DEF StartInv, SettingsInv, ServesOnPort
<1>10. /\ server' \in [Process -> ServerRecord]
       /\ \A q \in Process \ {p} : server'[q] = server[q]
       /\ server'[p].pc = "serving" /\ server'[p].port = server[p].port
       /\ server'[p].loaded = server[p].loaded /\ server'[p].cache = cache
  BY <1>5, SavedMoves DEF StartInv, SaveSetting
<1>11. ServesOnPort'
  BY <1>2, <1>10 DEF StartInv, SettingsInv, ServesOnPort
<1>12. KeyInv => KeyInv'
  BY <1>1, <1>2, <1>10, QuietKey DEF StartInv, EarlyStates
<1>13. CASE /\ settingsFile' = cache
            /\ acked' = [acked EXCEPT ![n] = {v}]
            /\ lost' = lost \ {n}
  <2>1. /\ acked' \in [Setting -> SUBSET (Value \cup {Unset})] /\ acked'[n] = {v}
        /\ \A m \in Setting \ {n} : acked'[m] = acked[m]
    BY <1>7, <1>13 DEF StartInv, StartTyped
  <2>2. StartTyped'
    BY <1>1, <1>6, <1>10, <1>13, <2>1 DEF StartInv, StartTyped
  <2>3. \A m \in Setting \ lost' : cache[m] \in acked'[m]
    BY <1>8, <1>13, <2>1
  <2>4. SettingsAcked'
    BY <1>9, <1>10, <1>13, <2>3 DEF SettingsAcked
  <2>5. QED  BY <1>1, <1>11, <1>12, <2>2, <2>4 DEF StartInv, SettingsInv
<1>14. CASE /\ acked' = [acked EXCEPT ![n] = @ \cup {v}]
            /\ lost' = Setting
            /\ UNCHANGED settingsFile
  <2>1. acked' \in [Setting -> SUBSET (Value \cup {Unset})]
    BY <1>7, <1>14 DEF StartInv, StartTyped
  <2>2. StartTyped'
    BY <1>1, <1>10, <1>14, <2>1 DEF StartInv, StartTyped
  <2>3. SettingsAcked'
    BY <1>9, <1>10, <1>14 DEF SettingsAcked
  <2>4. QED  BY <1>1, <1>11, <1>12, <2>2, <2>3 DEF StartInv, SettingsInv
<1>15. QED  BY <1>3, <1>4, <1>5, <1>13, <1>14 DEF SaveSetting, saved

\* Every step keeps the invariant of the start, and the key's.
LEMMA StartStep ==
  ASSUME StartInv, [StartNext]_startVars
  PROVE  StartInv' /\ (KeyInv => KeyInv')
<1>1. ASSUME NEW p \in Process, LauncherEnds(p)
      PROVE  StartInv' /\ (KeyInv => KeyInv')
  BY <1>1 DEF LauncherEnds, disk, counts, StartInv, StartTyped, KeyInv, OneMakesKey, MakesKey, SettingsInv,
              ServesOnPort, SettingsAcked
<1>2. CASE UNCHANGED startVars
  BY <1>2 DEF startVars, StartInv, StartTyped, KeyInv, OneMakesKey, MakesKey, SettingsInv,
              ServesOnPort, SettingsAcked
<1>3. CASE StartNext
  <2>1. StartTyped
    BY DEF StartInv
  <2>2. ASSUME NEW p \in Process, Launch(p)
        PROVE  StartInv' /\ (KeyInv => KeyInv')
    BY <2>1, <2>2, LaunchKeeps, KeyLaunch
  <2>3. ASSUME NEW p \in Process, LoadKey(p) \/ CreateKey(p) \/ WriteKey(p) \/ OpenDb(p)
        PROVE  StartInv' /\ (KeyInv => KeyInv')
    BY <2>1, <2>3, KeyStepKeeps, KeyFile, KeyOpened
  <2>4. QED  BY <1>1, <1>3, <2>2, <2>3, MoveKeeps, KillKeeps, ListenKeeps, GetKeeps, SetKeeps, SaveKeeps
             DEF StartNext
<1>4. QED  BY <1>2, <1>3

\* Whatever starts are cut short or run beside others, the key on disk opens the
\* database, unless two processes have both found no file (sql.node.ts 173-211).
THEOREM KeyStaysGood == StartSpec => []KeyOpensDatabase
<1>1. StartInv /\ KeyInv /\ [StartNext]_startVars => StartInv' /\ KeyInv'
  BY StartStep
<1>2. KeyInv => KeyOpensDatabase
  BY DEF KeyInv, OneMakesKey, KeyOpensDatabase
<1>3. QED  BY StartBegins, <1>1, <1>2, PTL DEF StartSpec

\* A setting reads as it was last acknowledged, over restarts, kills and a second
\* process, unless a file cut short lost it (ipc.node.ts 53-79, 145-177).
THEOREM SettingsStay == StartSpec => []SettingsSurvive
<1>1. StartInv /\ [StartNext]_startVars => StartInv'
  BY StartStep
<1>2. StartInv => SettingsSurvive
  BY LoadedAcked DEF SettingsSurvive, At, StartInv, SettingsInv, SettingsAcked
<1>3. QED  BY StartBegins, <1>1, <1>2, PTL DEF StartSpec

----------------------------------------------------------------------------
(***************************************************************************)
(* One HTTP exchange: the answer is one head, and a whole body, whatever    *)
(* the peers do.                                                            *)
(***************************************************************************)

HttpTyped ==
  /\ request \in [method : Method \cup {"none"}, path : Path \cup {"none"}, size : Nat, read : Nat,
                  state : {"none", "open", "destroyed"}]
  /\ handler \in [pc : {"none", "readBody", "handle", "fetch", "nest", "done"}, body : Nat]
  /\ upstream \in [state : {"none", "sent", "body", "ended", "aborted", "destroyed"}, size : Nat, read : Nat]
  /\ fetched \in {"none", "pending", "ok", "failed"}
  /\ response \in [heads : Nat, status : Nat, body : Nat, ended : BOOLEAN, open : BOOLEAN]

\* What is known while the exchange goes on: nothing is written before a handler answers,
\* the body read so far is within the limit, and the routes stay apart.
HeadsInv ==
  /\ handler.pc \in {"none", "readBody", "handle", "fetch"} => response.heads = 0 /\ response.status = 0
  /\ handler.pc = "nest" =>
       /\ upstream.state \in {"sent", "body", "aborted"}
       /\ upstream.state = "sent" => response.heads = 0
       /\ upstream.state = "body" => response.heads = 1
       /\ response.heads <= 1
  /\ handler.pc = "done" => response.heads = 1
BodyInv ==
  /\ handler.pc = "readBody" => request.read <= request.size /\ request.read <= MaxBody
  /\ handler.pc \in {"handle", "fetch", "nest"} /\ ~NoBody(request.method) =>
       handler.body = request.size /\ handler.body <= MaxBody
FetchInv ==
  /\ handler.pc = "fetch" =>
       /\ request.path = "/api/proxy" /\ upstream.state # "none"
       /\ upstream.read <= upstream.size
       /\ upstream.state \in {"sent", "body"} => upstream.read <= MaxFetch /\ fetched # "ok"
       /\ fetched = "ok" => upstream.read = upstream.size /\ upstream.read <= MaxFetch
  /\ handler.pc = "nest" => request.path # "/api/proxy"
  /\ request.path = "/api/proxy" /\ response.status = 200 =>
       response.body = upstream.size /\ response.body <= MaxFetch

HttpInv == HttpTyped /\ HeadsInv /\ BodyInv /\ FetchInv

\* Before the first request nothing is answered.
LEMMA HttpStart == HttpInit => HttpInv
BY DEF HttpInit, HttpInv, HttpTyped, HeadsInv, BodyInv, FetchInv, NoRequest

\* An answer is one head and the end.
LEMMA AnswerFields ==
  ASSUME HttpTyped, NEW status \in Nat
  PROVE  /\ Answer(status) \in [heads : Nat, status : Nat, body : Nat, ended : BOOLEAN, open : BOOLEAN]
         /\ Answer(status).heads = response.heads + 1 /\ Answer(status).status = status
         /\ Answer(status).body = response.body
<1>1. response \in [heads : Nat, status : Nat, body : Nat, ended : BOOLEAN, open : BOOLEAN]
  BY DEF HttpTyped
<1>2. PICK k \in Nat : k = response.heads + 1
  BY <1>1
<1>3. PICK head : head = [response EXCEPT !.heads = k, !.status = status]
  OBVIOUS
<1>4. Answer(status) = [head EXCEPT !.ended = TRUE]
  BY <1>2, <1>3 DEF Answer, WriteHead
<1>5. QED  BY <1>1, <1>2, <1>3, <1>4

\* An answer that is finished has one more head and a handler that is done.
LEMMA FinishFields ==
  ASSUME HttpTyped, NEW status \in Nat, Finish(status)
  PROVE  /\ response' \in [heads : Nat, status : Nat, body : Nat, ended : BOOLEAN, open : BOOLEAN]
         /\ response'.heads = response.heads + 1 /\ response'.status = status
         /\ handler' \in [pc : {"none", "readBody", "handle", "fetch", "nest", "done"}, body : Nat]
         /\ handler'.pc = "done"
<1>1. response' = Answer(status) /\ handler' = [handler EXCEPT !.pc = "done"]
  BY DEF Finish
<1>2. QED  BY <1>1, AnswerFields DEF HttpTyped

\* A request that arrives starts an exchange without an answer.
LEMMA ReceiveKeeps ==
  ASSUME HttpInv, NEW m \in Method, NEW p \in Path, NEW size \in 0..MaxBytes, NEW url, NEW enabled, NEW mount,
         Receive(m, p, size, url, enabled, mount)
  PROVE  HttpInv'
<1>1. size \in Nat /\ MaxBody \in Nat
  BY HttpAssumption
<1>2. request' = [method |-> m, path |-> p, size |-> size, read |-> 0, state |-> "open"]
  BY DEF Receive
<1>3. handler.pc = "none" /\ UNCHANGED <<upstream, fetched>> /\ response.heads = 0 /\ response.status = 0
  BY DEF Receive, HttpInv, HeadsInv
<1>4. CASE \E status \in Nat \ {0} : status = Refused(m, p, url, enabled, mount) /\ Finish(status)
  <2>1. PICK status \in Nat \ {0} : status = Refused(m, p, url, enabled, mount) /\ Finish(status)
    BY <1>4
  <2>2. p = "/api/proxy" => status # 200
    BY <2>1 DEF Refused
  <2>3. /\ response' \in [heads : Nat, status : Nat, body : Nat, ended : BOOLEAN, open : BOOLEAN]
        /\ response'.heads = 1 /\ response'.status = status
        /\ handler' \in [pc : {"none", "readBody", "handle", "fetch", "nest", "done"}, body : Nat]
        /\ handler'.pc = "done"
    BY <1>3, <2>1, FinishFields DEF HttpInv
  <2>4. HttpTyped'
    BY <1>1, <1>2, <1>3, <2>3 DEF HttpInv, HttpTyped
  <2>5. HeadsInv' /\ BodyInv'
    BY <2>3 DEF HeadsInv, BodyInv
  <2>6. FetchInv'
    BY <1>2, <2>2, <2>3 DEF FetchInv
  <2>7. QED  BY <2>4, <2>5, <2>6 DEF HttpInv
<1>5. CASE /\ handler' = [pc |-> IF NoBody(m) THEN "handle" ELSE "readBody", body |-> 0]
           /\ UNCHANGED response
  <2>1. HttpTyped'
    BY <1>1, <1>2, <1>3, <1>5 DEF HttpInv, HttpTyped
  <2>2. HeadsInv'
    BY <1>3, <1>5 DEF HttpInv, HeadsInv
  <2>3. BodyInv'
    BY <1>1, <1>2, <1>5 DEF BodyInv
  <2>4. FetchInv'
    BY <1>3, <1>5 DEF FetchInv
  <2>5. QED  BY <2>1, <2>2, <2>3, <2>4 DEF HttpInv
<1>6. Refused(m, p, url, enabled, mount) \in Nat
  BY DEF Refused
<1>7. QED  BY <1>4, <1>5, <1>6 DEF Receive

\* The records of an exchange, under one change each.
AnswerRecord == [heads : Nat, status : Nat, body : Nat, ended : BOOLEAN, open : BOOLEAN]
StageRecord  == [pc : {"none", "readBody", "handle", "fetch", "nest", "done"}, body : Nat]
AskRecord    == [method : Method \cup {"none"}, path : Path \cup {"none"}, size : Nat, read : Nat,
                 state : {"none", "open", "destroyed"}]
Cut(a)         == [a EXCEPT !.open = FALSE]
HeadOf(a, k)   == [a EXCEPT !.heads = k, !.status = 200]
ReadTo(q, k, state) == [q EXCEPT !.read = k, !.state = state]

\* A response whose connection is cut keeps its head and status.
LEMMA AnswerCut ==
  ASSUME NEW a \in AnswerRecord
  PROVE  Cut(a) \in AnswerRecord /\ Cut(a).heads = a.heads /\ Cut(a).status = a.status
BY DEF Cut, AnswerRecord

\* A handler that is done is a handler.
LEMMA StageDone ==
  ASSUME NEW h \in StageRecord
  PROVE  [h EXCEPT !.pc = "done"] \in StageRecord /\ [h EXCEPT !.pc = "done"].pc = "done"
BY DEF StageRecord

\* A request body that is read on stays the request it was.
LEMMA AskRead ==
  ASSUME NEW q \in AskRecord, NEW k \in Nat, NEW state \in {"open", "destroyed"}
  PROVE  /\ ReadTo(q, k, state) \in AskRecord
         /\ ReadTo(q, k, state).read = k /\ ReadTo(q, k, state).size = q.size
         /\ ReadTo(q, k, state).method = q.method /\ ReadTo(q, k, state).path = q.path
<1>1. ReadTo(q, k, state) \in AskRecord
  BY DEF ReadTo, AskRecord
<1>2. QED  BY <1>1 DEF ReadTo, AskRecord

\* A head is given once to an answer record.
LEMMA HeadGiven ==
  ASSUME NEW a \in AnswerRecord, NEW k \in Nat
  PROVE  HeadOf(a, k) \in AnswerRecord /\ HeadOf(a, k).heads = k
BY ZenonT(60) DEF HeadOf, AnswerRecord

\* Reading a body answers only once, when it is too long or broken.
LEMMA ReadBodyKeeps ==
  ASSUME HttpInv, (\E n \in 1..MaxBytes : OnData(n)) \/ OnEnd \/ OnError
  PROVE  HttpInv'
<1> USE HttpAssumption
<1>0. handler.pc = "readBody" /\ UNCHANGED <<upstream, fetched>> /\ response.heads = 0 /\ response.status = 0
  BY DEF OnData, OnEnd, OnError, HttpInv, HeadsInv
<1>1. ASSUME NEW status \in {413, 500}, response' = [Answer(status) EXCEPT !.open = FALSE],
             handler' = [handler EXCEPT !.pc = "done"],
             request' \in [method : Method \cup {"none"}, path : Path \cup {"none"}, size : Nat, read : Nat,
                           state : {"none", "open", "destroyed"}]
      PROVE  HttpInv'
  <2>1. /\ Answer(status) \in [heads : Nat, status : Nat, body : Nat, ended : BOOLEAN, open : BOOLEAN]
        /\ Answer(status).heads = 1 /\ Answer(status).status = status
    BY <1>0, AnswerFields DEF HttpInv
  <2>2. /\ response' \in [heads : Nat, status : Nat, body : Nat, ended : BOOLEAN, open : BOOLEAN]
        /\ response'.heads = 1 /\ response'.status = status
        /\ handler' \in [pc : {"none", "readBody", "handle", "fetch", "nest", "done"}, body : Nat]
        /\ handler'.pc = "done"
    <3>1. handler \in [pc : {"none", "readBody", "handle", "fetch", "nest", "done"}, body : Nat]
      BY DEF HttpInv, HttpTyped
    <3>2. PICK a : a = Answer(status)
      OBVIOUS
    <3>3. /\ a \in [heads : Nat, status : Nat, body : Nat, ended : BOOLEAN, open : BOOLEAN]
          /\ a.heads = 1 /\ a.status = status /\ response' = [a EXCEPT !.open = FALSE]
      BY <1>1, <2>1, <3>2
    <3>4. a \in AnswerRecord /\ handler \in StageRecord
      BY <3>1, <3>3 DEF AnswerRecord, StageRecord
    <3>5. response' = Cut(a)
      BY <3>3 DEF Cut
    <3>6. response' \in AnswerRecord /\ response'.heads = 1 /\ response'.status = status
      BY ZenonT(60), <3>3, <3>4, <3>5, AnswerCut
    <3>7. handler' \in StageRecord /\ handler'.pc = "done"
      BY <1>1, <3>4, StageDone
    <3>8. QED  BY <3>6, <3>7 DEF AnswerRecord, StageRecord
  <2>3. HttpTyped'
    BY <1>0, <1>1, <2>2 DEF HttpInv, HttpTyped
  <2>4. HeadsInv' /\ BodyInv' /\ FetchInv'
    BY <1>1, <2>2 DEF HeadsInv, BodyInv, FetchInv
  <2>5. QED  BY <2>3, <2>4 DEF HttpInv
<1>2. ASSUME NEW n \in 1..MaxBytes, OnData(n)
      PROVE  HttpInv'
  <2>0. n \in Nat /\ request.read + n <= request.size
    <3>1. n \in Nat
      OBVIOUS
    <3>2. request.read + n <= request.size
      BY <1>2 DEF OnData
    <3>3. QED  BY <3>1, <3>2
  <2>1. request.read \in Nat /\ request.size \in Nat
    BY DEF HttpInv, HttpTyped
  <2>k. PICK k \in Nat : k = request.read + n
    BY <2>0, <2>1
  <2>s. PICK state \in {"open", "destroyed"} : state = IF TooLong(k) THEN "destroyed" ELSE "open"
    OBVIOUS
  <2>r. request' = [request EXCEPT !.read = k, !.state = state]
    BY <1>2, <2>k, <2>s DEF OnData
  <2>2. /\ request' \in [method : Method \cup {"none"}, path : Path \cup {"none"}, size : Nat, read : Nat,
                         state : {"none", "open", "destroyed"}]
        /\ request'.read = request.read + n /\ request'.size = request.size
        /\ request'.method = request.method /\ request'.path = request.path
    <3>1. request \in [method : Method \cup {"none"}, path : Path \cup {"none"}, size : Nat, read : Nat,
                      state : {"none", "open", "destroyed"}]
      BY DEF HttpInv, HttpTyped
    <3>2. request \in AskRecord
      BY <3>1 DEF AskRecord
    <3>3. request' = ReadTo(request, k, state)
      BY <2>r DEF ReadTo
    <3>4. /\ request' \in AskRecord
          /\ request'.read = k /\ request'.size = request.size
          /\ request'.method = request.method /\ request'.path = request.path
      BY <3>2, <3>3, AskRead
    <3>5. QED  BY <2>k, <3>4 DEF AskRecord
  <2>3. CASE TooLong(request.read + n)
    BY ZenonT(60), <1>1, <1>2, <2>2, <2>3 DEF OnData
  <2>4. CASE ~TooLong(request.read + n)
    <3>0. UNCHANGED <<response, handler>>
      BY <1>2, <2>4 DEF OnData
    <3>1. request.read + n <= MaxBody
      BY <2>0, <2>1, <2>4 DEF TooLong
    <3>2. HttpTyped'
      BY <1>0, <2>2, <3>0 DEF HttpInv, HttpTyped
    <3>3. HeadsInv' /\ BodyInv' /\ FetchInv'
      BY <1>0, <2>0, <2>2, <3>0, <3>1 DEF HttpInv, HeadsInv, BodyInv, FetchInv
    <3>4. QED  BY <3>2, <3>3 DEF HttpInv
  <2>5. QED  BY <2>3, <2>4
<1>3. CASE OnEnd
  <2>1. handler' = [pc |-> "handle", body |-> request.read] /\ UNCHANGED <<request, response>>
    BY <1>3 DEF OnEnd
  <2>2. request.read = request.size /\ request.read <= MaxBody /\ request.read \in Nat
    BY <1>0, <1>3 DEF OnEnd, HttpInv, BodyInv, HttpTyped
  <2>3. HttpTyped'
    BY <1>0, <2>1, <2>2 DEF HttpInv, HttpTyped
  <2>4. HeadsInv' /\ BodyInv' /\ FetchInv'
    BY <1>0, <2>1, <2>2 DEF HttpInv, HeadsInv, BodyInv, FetchInv
  <2>5. QED  BY <2>3, <2>4 DEF HttpInv
<1>4. CASE OnError
  BY <1>1, <1>4 DEF OnError, BodyFailed, HttpInv, HttpTyped
<1>5. QED  BY <1>2, <1>3, <1>4

\* The handler answers once, whichever route it takes.
LEMMA HandleKeeps ==
  ASSUME HttpInv,
         HandleSync \/ \E size \in 0..MaxBytes : HandleNest(size) \/ \E allowed \in BOOLEAN : HandleProxy(allowed, size)
  PROVE  HttpInv'
<1> USE HttpAssumption
<1>0. /\ handler.pc = "handle" /\ UNCHANGED request /\ response.heads = 0 /\ response.status = 0
      /\ ~NoBody(request.method) => handler.body = request.size /\ handler.body <= MaxBody
  BY DEF HandleSync, HandleNest, HandleProxy, HttpInv, HeadsInv, BodyInv
<1>1. ASSUME NEW status \in {200, 400, 403, 405}, Finish(status), UNCHANGED <<upstream, fetched>>,
             status = 200 => request.path # "/api/proxy"
      PROVE  HttpInv'
  <2>1. /\ response' \in [heads : Nat, status : Nat, body : Nat, ended : BOOLEAN, open : BOOLEAN]
        /\ response'.heads = 1 /\ response'.status = status
        /\ handler' \in [pc : {"none", "readBody", "handle", "fetch", "nest", "done"}, body : Nat]
        /\ handler'.pc = "done"
    BY <1>0, <1>1, FinishFields DEF HttpInv
  <2>2. HttpTyped'
    BY <1>0, <1>1, <2>1 DEF HttpInv, HttpTyped
  <2>3. HeadsInv' /\ BodyInv' /\ FetchInv'
    BY <1>0, <1>1, <2>1 DEF HeadsInv, BodyInv, FetchInv
  <2>4. QED  BY <2>2, <2>3 DEF HttpInv
<1>2. CASE HandleSync
  BY <1>1, <1>2 DEF HandleSync
<1>3. ASSUME NEW size \in 0..MaxBytes, HandleNest(size)
      PROVE  HttpInv'
  <2>1. /\ upstream' = [state |-> "sent", size |-> size, read |-> 0]
        /\ handler' = [handler EXCEPT !.pc = "nest"]
        /\ UNCHANGED <<fetched, response>> /\ request.path # "/api/proxy"
    BY <1>3 DEF HandleNest, Outgoing
  <2>2. HttpTyped'
    BY <1>0, <2>1 DEF HttpInv, HttpTyped
  <2>3. HeadsInv' /\ BodyInv' /\ FetchInv'
    BY <1>0, <2>1 DEF HttpInv, HttpTyped, HeadsInv, BodyInv, FetchInv
  <2>4. QED  BY <2>2, <2>3 DEF HttpInv
<1>4. ASSUME NEW size \in 0..MaxBytes, NEW allowed \in BOOLEAN, HandleProxy(allowed, size)
      PROVE  HttpInv'
  <2>1. CASE Finish(405) /\ UNCHANGED <<upstream, fetched>>
    BY <1>1, <2>1
  <2>2. CASE Finish(403) /\ UNCHANGED <<upstream, fetched>>
    BY <1>1, <2>2
  <2>3. CASE upstream' = Outgoing(size) /\ fetched' = "pending"
               /\ handler' = [handler EXCEPT !.pc = "fetch"] /\ UNCHANGED response
    <3>1. upstream' = [state |-> "sent", size |-> size, read |-> 0] /\ request.path = "/api/proxy"
      BY <1>4, <2>3 DEF HandleProxy, Outgoing
    <3>2. HttpTyped'
      BY <1>0, <2>3, <3>1 DEF HttpInv, HttpTyped
    <3>3. HeadsInv' /\ BodyInv' /\ FetchInv'
      BY <1>0, <2>3, <3>1 DEF HttpInv, HttpTyped, HeadsInv, BodyInv, FetchInv
    <3>4. QED  BY <3>2, <3>3 DEF HttpInv
  <2>4. QED  BY <1>4, <2>1, <2>2, <2>3 DEF HandleProxy
<1>5. QED  BY <1>2, <1>3, <1>4

\* A fetch that is over stays over: no byte comes after the end, and only the first
\* outcome counts.
LEMMA FetchKeeps ==
  ASSUME HttpInv,
         \/ \E n \in 1..MaxBytes : FetchData(n)
         \/ FetchHead \/ FetchEnd \/ FetchTimeout \/ FetchError \/ FetchAnswer
  PROVE  HttpInv'
<1> USE HttpAssumption
<1>0. handler.pc = "fetch" /\ UNCHANGED request /\ response.heads = 0 /\ response.status = 0
  BY DEF FetchData, FetchHead, FetchEnd, FetchTimeout, FetchError, FetchAnswer, HttpInv, HeadsInv
<1>1. /\ request.path = "/api/proxy" /\ upstream.state # "none"
      /\ upstream.read <= upstream.size
      /\ upstream.state \in {"sent", "body"} => upstream.read <= MaxFetch /\ fetched # "ok"
      /\ fetched = "ok" => upstream.read = upstream.size /\ upstream.read <= MaxFetch
  BY <1>0 DEF HttpInv, FetchInv
<1>2. CASE ~FetchAnswer
  <2>1. UNCHANGED <<request, handler, response>>
    BY <1>2 DEF FetchData, FetchHead, FetchEnd, FetchTimeout, FetchError
  <2>2. HeadsInv' /\ BodyInv'
    BY <1>0, <2>1 DEF HttpInv, HeadsInv, BodyInv
  <2>3. /\ upstream' \in [state : {"none", "sent", "body", "ended", "aborted", "destroyed"}, size : Nat, read : Nat]
        /\ upstream'.size = upstream.size /\ upstream'.state # "none"
        /\ upstream'.read <= upstream.size
        /\ upstream'.state \in {"sent", "body"} => upstream'.read <= MaxFetch
    <3>1. CASE \E n \in 1..MaxBytes : FetchData(n)
      <4>1. PICK n \in 1..MaxBytes : FetchData(n)
        BY <3>1
      <4>2. n \in Nat /\ upstream.read + n <= upstream.size /\ upstream.state = "body"
        <5>1. n \in Nat
          OBVIOUS
        <5>2. upstream.read + n <= upstream.size /\ upstream.state = "body"
          BY <4>1 DEF FetchData
        <5>3. QED  BY <5>1, <5>2
      <4>r. upstream.read \in Nat /\ upstream.size \in Nat
        BY DEF HttpInv, HttpTyped
      <4>3. PICK k \in Nat : k = upstream.read + n
        BY <4>2, <4>r
      <4>4. PICK s \in {"body", "destroyed"} : s = IF k > MaxFetch THEN "destroyed" ELSE "body"
        OBVIOUS
      <4>5. upstream' = [upstream EXCEPT !.read = k, !.state = s]
        BY <4>1, <4>3, <4>4 DEF FetchData
      <4>6. /\ upstream' \in [state : {"none", "sent", "body", "ended", "aborted", "destroyed"}, size : Nat,
                              read : Nat]
            /\ upstream'.size = upstream.size /\ upstream'.read = k /\ upstream'.state = s
        BY <4>4, <4>5 DEF HttpInv, HttpTyped
      <4>7. s = "body" => k <= MaxFetch
        BY <4>3, <4>4
      <4>8. QED  BY <4>2, <4>3, <4>4, <4>6, <4>7
    <3>2. CASE FetchHead \/ FetchEnd \/ FetchTimeout \/ FetchError
      BY <1>1, <3>2 DEF FetchHead, FetchEnd, FetchTimeout, FetchError, HttpInv, HttpTyped
    <3>3. QED  BY <1>2, <3>1, <3>2
  <2>4. fetched' \in {"none", "pending", "ok", "failed"}
    BY DEF FetchData, FetchHead, FetchEnd, FetchTimeout, FetchError, FetchAnswer, settle, ClosedIsFail,
           HttpInv, HttpTyped
  <2>5. /\ upstream'.state \in {"sent", "body"} => fetched' # "ok"
        /\ fetched' = "ok" => upstream'.read = upstream.size /\ upstream'.read <= MaxFetch
    <3>1. CASE \E n \in 1..MaxBytes : FetchData(n)
      BY <1>1, <3>1 DEF FetchData
    <3>2. CASE FetchHead
      BY <1>1, <3>2 DEF FetchHead
    <3>3. CASE FetchEnd
      BY <1>1, <3>3 DEF FetchEnd, HttpInv, HttpTyped
    <3>4. CASE FetchTimeout \/ FetchError
      BY <1>1, <3>4 DEF FetchTimeout, FetchError, settle, ClosedIsFail, HttpInv, HttpTyped
    <3>5. QED  BY <1>2, <3>1, <3>2, <3>3, <3>4
  <2>6. FetchInv'
    BY <1>0, <1>1, <2>1, <2>3, <2>5 DEF FetchInv
  <2>7. HttpTyped'
    BY <2>1, <2>3, <2>4 DEF HttpInv, HttpTyped
  <2>8. QED  BY <2>2, <2>6, <2>7 DEF HttpInv
<1>3. CASE FetchAnswer
  <2>1. UNCHANGED <<request, upstream, fetched>> /\ handler' = [handler EXCEPT !.pc = "done"]
    BY <1>3 DEF FetchAnswer
  <2>2. /\ response' \in [heads : Nat, status : Nat, body : Nat, ended : BOOLEAN, open : BOOLEAN]
        /\ response'.heads = 1
        /\ response'.status = 200 => fetched = "ok" /\ response'.body = upstream.read
    <3>1. CASE fetched = "ok" /\ response' = [Answer(200) EXCEPT !.body = upstream.read]
      <4>1. /\ Answer(200) \in [heads : Nat, status : Nat, body : Nat, ended : BOOLEAN, open : BOOLEAN]
            /\ Answer(200).heads = 1
        BY <1>0, AnswerFields DEF HttpInv
      <4>2. upstream.read \in Nat
        BY DEF HttpInv, HttpTyped
      <4>3. QED  BY <3>1, <4>1, <4>2
    <3>2. CASE response' = Answer(502)
      BY <1>0, <3>2, AnswerFields DEF HttpInv
    <3>3. QED  BY <1>3, <3>1, <3>2 DEF FetchAnswer
  <2>3. HttpTyped'
    BY <2>1, <2>2 DEF HttpInv, HttpTyped
  <2>4. handler'.pc = "done"
    BY <2>1 DEF HttpInv, HttpTyped
  <2>5. HeadsInv' /\ BodyInv' /\ FetchInv'
    BY <1>1, <2>1, <2>2, <2>4 DEF HeadsInv, BodyInv, FetchInv
  <2>6. QED  BY <2>3, <2>5 DEF HttpInv
<1>4. QED  BY <1>2, <1>3

\* What the mounted client sends on keeps one head and its body.
LEMMA NestKeeps ==
  ASSUME HttpInv,
         \/ \E n \in 1..MaxBytes : NestData(n)
         \/ NestHead \/ NestEnd \/ NestError \/ NestResponseError \/ NestClientGone
  PROVE  HttpInv'
<1> USE HttpAssumption
<1>0. handler.pc = "nest" /\ UNCHANGED <<request, fetched>> /\ request.path # "/api/proxy"
  BY DEF NestData, NestHead, NestEnd, NestError, NestResponseError, NestClientGone, HttpInv, FetchInv
<1>1. /\ upstream.state \in {"sent", "body", "aborted"}
      /\ upstream.state = "sent" => response.heads = 0
      /\ upstream.state = "body" => response.heads = 1
      /\ response.heads <= 1 /\ response.heads \in Nat
  BY <1>0 DEF HttpInv, HeadsInv, HttpTyped
<1>2. ASSUME response' \in [heads : Nat, status : Nat, body : Nat, ended : BOOLEAN, open : BOOLEAN],
             handler' \in {handler, [handler EXCEPT !.pc = "done"]},
             upstream' \in [state : {"none", "sent", "body", "ended", "aborted", "destroyed"}, size : Nat, read : Nat],
             handler'.pc = "nest" => /\ upstream'.state \in {"sent", "body", "aborted"}
                                     /\ upstream'.state = "sent" => response'.heads = 0
                                     /\ upstream'.state = "body" => response'.heads = 1
                                     /\ response'.heads <= 1,
             handler'.pc = "done" => response'.heads = 1
      PROVE  HttpInv'
  <2>1. HttpTyped'
    BY <1>0, <1>2 DEF HttpInv, HttpTyped
  <2>2. handler'.pc \in {"nest", "done"} /\ (handler'.pc = "nest" => handler' = handler)
    BY <1>0, <1>2 DEF HttpInv, HttpTyped
  <2>3. HeadsInv' /\ BodyInv' /\ FetchInv'
    BY <1>0, <1>2, <2>2 DEF HttpInv, HeadsInv, BodyInv, FetchInv
  <2>4. QED  BY <2>1, <2>3 DEF HttpInv
<1>3. ASSUME NEW n \in 1..MaxBytes, NestData(n)
      PROVE  HttpInv'
  <2>1. n \in Nat /\ upstream.state = "body" /\ UNCHANGED handler
    BY <1>3 DEF NestData
  <2>2. PICK k \in Nat : k = upstream.read + n
    BY <2>1 DEF HttpInv, HttpTyped
  <2>3. PICK b \in Nat : b = response.body + n
    BY <2>1 DEF HttpInv, HttpTyped
  <2>4. upstream' = [upstream EXCEPT !.read = k] /\ response' = [response EXCEPT !.body = b]
    BY <1>3, <2>2, <2>3 DEF NestData
  <2>5. /\ upstream' \in [state : {"none", "sent", "body", "ended", "aborted", "destroyed"}, size : Nat, read : Nat]
        /\ upstream'.state = "body"
        /\ response' \in [heads : Nat, status : Nat, body : Nat, ended : BOOLEAN, open : BOOLEAN]
        /\ response'.heads = response.heads
    BY <2>1, <2>4 DEF HttpInv, HttpTyped
  <2>6. QED  BY <1>0, <1>1, <1>2, <2>1, <2>5
<1>4. CASE NestHead
  <2>2. PICK k \in Nat : k = response.heads + 1
    BY <1>1
  <2>3. response' = [response EXCEPT !.heads = k, !.status = 200] /\ upstream.state = "sent"
    BY <1>4, <2>2 DEF NestHead, WriteHead
  <2>4. /\ response' \in [heads : Nat, status : Nat, body : Nat, ended : BOOLEAN, open : BOOLEAN]
        /\ response'.heads = 1
    <3>1. k = 1
      BY <1>1, <2>2, <2>3
    <3>2. response \in [heads : Nat, status : Nat, body : Nat, ended : BOOLEAN, open : BOOLEAN]
      BY DEF HttpInv, HttpTyped
    <3>3. response \in AnswerRecord
      BY <3>2 DEF AnswerRecord
    <3>4. response' = HeadOf(response, k)
      BY <2>3 DEF HeadOf
    <3>5. response' \in AnswerRecord /\ response'.heads = k
      BY <3>3, <3>4, HeadGiven
    <3>6. QED  BY <3>1, <3>5 DEF AnswerRecord
  <2>5. /\ upstream' \in [state : {"none", "sent", "body", "ended", "aborted", "destroyed"}, size : Nat, read : Nat]
        /\ upstream'.state = "body" /\ UNCHANGED handler
    BY <1>4 DEF NestHead, HttpInv, HttpTyped
  <2>6. QED  BY <1>0, <1>2, <2>4, <2>5
<1>5. CASE NestEnd \/ NestResponseError
  <2>1. /\ upstream' \in [state : {"none", "sent", "body", "ended", "aborted", "destroyed"}, size : Nat, read : Nat]
        /\ handler' = [handler EXCEPT !.pc = "done"] /\ handler'.pc = "done"
    BY <1>5 DEF NestEnd, NestResponseError, HttpInv, HttpTyped
  <2>2. /\ response' \in [heads : Nat, status : Nat, body : Nat, ended : BOOLEAN, open : BOOLEAN]
        /\ response'.heads = response.heads /\ response.heads = 1
    BY <1>1, <1>5 DEF NestEnd, NestResponseError, HttpInv, HttpTyped
  <2>3. QED  BY <1>2, <2>1, <2>2
<1>6. CASE NestError
  <2>1. /\ upstream' \in [state : {"none", "sent", "body", "ended", "aborted", "destroyed"}, size : Nat, read : Nat]
        /\ handler' = [handler EXCEPT !.pc = "done"] /\ handler'.pc = "done"
    BY <1>6 DEF NestError, HttpInv, HttpTyped
  <2>2. /\ response' \in [heads : Nat, status : Nat, body : Nat, ended : BOOLEAN, open : BOOLEAN]
        /\ response'.heads = 1
    <3>1. CASE response.heads = 0
      <4>1. response' = Answer(502)
        BY <1>6, <3>1 DEF NestError, NestErrorAnswer
      <4>2. QED  BY <3>1, <4>1, AnswerFields DEF HttpInv
    <3>2. CASE response.heads # 0
      BY ZenonT(60), <1>1, <1>6, <3>2 DEF NestError, NestErrorAnswer, HttpInv, HttpTyped
    <3>3. QED  BY <3>1, <3>2
  <2>3. QED  BY <1>2, <2>1, <2>2
<1>7. CASE NestClientGone
  <2>1. /\ upstream' \in [state : {"none", "sent", "body", "ended", "aborted", "destroyed"}, size : Nat, read : Nat]
        /\ upstream'.state = "aborted" /\ UNCHANGED handler
    BY <1>7 DEF NestClientGone, HttpInv, HttpTyped
  <2>2. /\ response' \in [heads : Nat, status : Nat, body : Nat, ended : BOOLEAN, open : BOOLEAN]
        /\ response'.heads = response.heads
    BY <1>7 DEF NestClientGone, HttpInv, HttpTyped
  <2>3. QED  BY <1>0, <1>1, <1>2, <2>1, <2>2
<1>8. QED  BY <1>3, <1>4, <1>5, <1>6, <1>7

\* Every event of an exchange keeps what is known of it.
LEMMA HttpStep == HttpInv /\ [HttpNext]_httpVars => HttpInv'
<1> SUFFICES ASSUME HttpInv, [HttpNext]_httpVars PROVE HttpInv'
  OBVIOUS
<1>1. CASE UNCHANGED httpVars
  BY <1>1 DEF httpVars, HttpInv, HttpTyped, HeadsInv, BodyInv, FetchInv
<1>2. CASE HttpNext
  <2>1. CASE \E m \in Method, p \in Path, size \in 0..MaxBytes, url \in {"ok", "missing", "bad"},
                enabled \in BOOLEAN, mount \in Mount : Receive(m, p, size, url, enabled, mount)
    BY <2>1, ReceiveKeeps
  <2>2. CASE (\E n \in 1..MaxBytes : OnData(n)) \/ OnEnd \/ OnError
    BY <2>2, ReadBodyKeeps
  <2>3. CASE HandleSync \/ \E size \in 0..MaxBytes : HandleNest(size) \/ \E allowed \in BOOLEAN : HandleProxy(allowed, size)
    BY <2>3, HandleKeeps
  <2>4. CASE \/ \E n \in 1..MaxBytes : FetchData(n)
             \/ FetchHead \/ FetchEnd \/ FetchTimeout \/ FetchError \/ FetchAnswer
    BY <2>4, FetchKeeps
  <2>5. CASE \/ \E n \in 1..MaxBytes : NestData(n)
             \/ NestHead \/ NestEnd \/ NestError \/ NestResponseError \/ NestClientGone
    BY <2>5, NestKeeps
  <2>6. QED  BY <1>2, <2>1, <2>2, <2>3, <2>4, <2>5 DEF HttpNext
<1>3. QED  BY <1>1, <1>2

\* A handler acts on a whole body within the limit or on none, a 200 of the proxy has all
\* bytes of the upstream answer, and a finished exchange wrote one head, for any limits
\* (index.node.ts 298-433, http-util.node.ts 24-61, signalFetch.node.ts 60-117,
\* nest-proxy.node.ts 199-236).
THEOREM AnswersAreWhole == HttpSpec => []OneWholeAnswer
<1>1. HttpInv /\ [HttpNext]_httpVars => HttpInv'
  BY HttpStep
<1>2. HttpInv => OneWholeAnswer
  BY DEF HttpInv, HttpTyped, HeadsInv, BodyInv, FetchInv, OneWholeAnswer
<1>3. QED  BY HttpStart, <1>1, <1>2, PTL DEF HttpSpec

----------------------------------------------------------------------------
(***************************************************************************)
(* Attachments: what a request is promised and what its answer says, over   *)
(* files that change, a cache that forgets and decryptions that are         *)
(* shared.                                                                  *)
(***************************************************************************)

RequestRecord ==
  [state : {"none", "stat", "stream", "decrypt", "done"}, status : Nat, q : Query \cup {{}},
   key : Key \cup {<<>>}, length : Int, body : SUBSET Int, promised : BOOLEAN, steady : BOOLEAN]
FlightRecord == [size : PlainSizes, whole : BOOLEAN, settled : BOOLEAN, waiters : SUBSET Request]

\* What a 206 or a 200 says of a body of `total` bytes.
BodyIsRight(h, total) ==
  /\ Cardinality(h.body) = h.length
  /\ h.status = 200 => h.length = total
  /\ h.status = 206 => /\ h.body # {}
                       /\ \A b \in h.body : b >= h.q.range.start
                       /\ h.q.range.end # -1 => \A b \in h.body : b <= h.q.range.end

\* The head of a v1 answer, until the bytes follow.
HeadIsRight(h, total) ==
  /\ total # -1
  /\ h.status = 200 => h.length = total
  /\ h.status = 206 => BodyIsRight(h, total) /\ h.body \subseteq 0..total - 1

\* What holds of a request, on the files as they are.
RequestIsRight(h, files) ==
  /\ h \in RequestRecord
  /\ h.state \in {"stat", "stream", "decrypt"} => h.q \in Query /\ h.key \in Key
  /\ h.state \in {"none", "stat"} => ~h.promised
  /\ h.state = "stream" => /\ h.q.version = "v1" /\ h.status \in {200, 206} /\ ~h.promised
                           /\ h.steady => HeadIsRight(h, files[h.key[1]])
  /\ h.state = "decrypt" => h.q.version = "v2"
  /\ h.state = "done" /\ h.promised => h.status \in {200, 206}
  /\ h.state = "done" /\ h.status \in {200, 206} /\ h.q.method = "GET" =>
       /\ h.q.version = "v2" => BodyIsRight(h, h.key[2])
       /\ h.q.version # "v2" /\ h.steady => \E total \in Int : BodyIsRight(h, total)

AttachTyped ==
  /\ onDisk \in [File -> -1..FileBytes]
  /\ http \in [Request -> RequestRecord]
  /\ inFlight \in [DOMAIN inFlight -> FlightRecord]
  /\ DOMAIN inFlight \subseteq Key /\ DOMAIN decrypted \subseteq Key

RequestsRight == \A r \in Request : RequestIsRight(http[r], onDisk)

\* Who awaits a decryption asked for its key, and who was promised it will see it end well.
FlightsRight ==
  \A k \in DOMAIN inFlight :
    /\ inFlight[k].size = k[2] /\ ~inFlight[k].settled
    /\ \A r \in inFlight[k].waiters :
         /\ http[r].state = "decrypt" /\ http[r].key = k
         /\ http[r].promised => inFlight[k].whole

CacheRight == \A k \in DOMAIN decrypted : decrypted[k] = k[2]

AttachInv == AttachTyped /\ RequestsRight /\ FlightsRight /\ CacheRight
----------------------------------------------------------------------------
\* The bytes of a file are bounded.
LEMMA BytesOfKey ==
  ASSUME NEW k \in Key
  PROVE  k[1] \in File /\ k[2] \in PlainSizes /\ k[2] \in 0..FileBytes
<1>1. k[1] \in File /\ k[2] \in PlainSizes
  BY DEF Key
<1>2. QED  BY <1>1, AttachmentAssumption

\* A request that has not come is a request record that promises nothing.
LEMMA IdleTyped ==
  /\ Idle \in RequestRecord /\ Idle.state = "none" /\ ~Idle.promised /\ ~Idle.steady /\ Idle.q = {}
BY DEF Idle, RequestRecord

\* The range a header selects lies in the body and in the range asked for.
LEMMA RangeInBody ==
  ASSUME NEW range \in [start : -1..FileBytes + 1, end : -1..FileBytes + 1], NEW total \in -1..FileBytes,
         parseRange(range, total) # NoRange
  PROVE  \E a, b \in Int :
           /\ parseRange(range, total) = [start |-> a, end |-> b]
           /\ 0 <= a /\ a <= b /\ b <= total - 1 /\ a = range.start
           /\ range.end # -1 => b <= range.end
<1>1. range.start \in Int /\ range.end \in Int /\ total \in Int /\ FileBytes \in Int
  BY AttachmentAssumption
<1>2. PICK b \in Int : b = IF range.end = -1 \/ range.end > total - 1 THEN total - 1 ELSE range.end
  BY <1>1
<1>3. range.start >= 0 /\ range.start <= b /\ parseRange(range, total) = [start |-> range.start, end |-> b]
  BY <1>1, <1>2 DEF parseRange
<1>4. b <= total - 1 /\ (range.end # -1 => b <= range.end)
  BY <1>1, <1>2
<1>5. QED  BY <1>1, <1>3, <1>4

\* An answered request has its status, length and body and is otherwise what it was.
LEMMA AnsweredFields ==
  ASSUME NEW h \in RequestRecord, NEW status \in Nat, NEW length \in Int, NEW body \in SUBSET Int,
         NEW a, a = Answered(h, status, length, body)
  PROVE  /\ a \in RequestRecord /\ a.state = "done" /\ a.status = status /\ a.length = length
         /\ a.body = body /\ a.q = h.q /\ a.key = h.key
         /\ a.promised = h.promised /\ a.steady = h.steady
<1>1. a = [h EXCEPT !.state = "done", !.status = status, !.length = length, !.body = body]
  BY DEF Answered
<1>2. a \in RequestRecord
  BY <1>1 DEF RequestRecord
<1>3. QED  BY <1>1, <1>2 DEF RequestRecord

\* What serveBuffer answers is a part or the whole of the file, as asked.
LEMMA ServedRight ==
  ASSUME NEW h \in RequestRecord, h.q \in Query, NEW total \in 0..FileBytes,
         NEW a, a = serveBuffer(h, total)
  PROVE  /\ a \in RequestRecord /\ a.state = "done" /\ a.status \in {200, 206}
         /\ a.q = h.q /\ a.key = h.key /\ a.promised = h.promised /\ a.steady = h.steady
         /\ h.q.method = "GET" => BodyIsRight(a, total)
<1>1. total \in Int /\ total >= 0 /\ FileBytes \in Nat /\ total \in -1..FileBytes
  BY AttachmentAssumption
<1>2. h.q.range \in [start : -1..FileBytes + 1, end : -1..FileBytes + 1]
  BY DEF Query
<1>3. CASE h.q.method = "HEAD"
  <2>1. a = Answered(h, 200, total, {})
    BY <1>3 DEF serveBuffer
  <2>2. PICK none \in SUBSET Int : none = {}
    OBVIOUS
  <2>3. a = Answered(h, 200, total, none)
    BY <2>1, <2>2
  <2>4. /\ a \in RequestRecord /\ a.state = "done" /\ a.status = 200
        /\ a.q = h.q /\ a.key = h.key /\ a.promised = h.promised /\ a.steady = h.steady
    <3>1. h \in RequestRecord /\ 200 \in Nat /\ total \in Int /\ none \in SUBSET Int
      BY <1>1
    <3>2. QED  BY <2>3, <3>1, AnsweredFields
  <2>5. QED  BY <1>3, <2>4
<1>4. CASE h.q.method # "HEAD" /\ parseRange(h.q.range, total) = NoRange
  <2>1. PICK body \in SUBSET Int : body = 0..total - 1
    BY <1>1
  <2>2. Cardinality(body) = total
    BY <1>1, <2>1, FS_Interval
  <2>3. a = Answered(h, 200, total, body)
    BY <1>4, <2>1 DEF serveBuffer
  <2>4. /\ a \in RequestRecord /\ a.state = "done" /\ a.status = 200 /\ a.length = total /\ a.body = body
        /\ a.q = h.q /\ a.key = h.key /\ a.promised = h.promised /\ a.steady = h.steady
    <3>1. PICK status \in Nat : status = 200
      OBVIOUS
    <3>2. PICK length \in Int : length = total
      BY <1>1
    <3>3. a = Answered(h, status, length, body)
      BY <2>3, <3>1, <3>2
    <3>4. /\ a \in RequestRecord /\ a.state = "done" /\ a.status = status /\ a.length = length
          /\ a.body = body /\ a.q = h.q /\ a.key = h.key /\ a.promised = h.promised /\ a.steady = h.steady
      BY <3>3, AnsweredFields
    <3>5. QED  BY <3>1, <3>2, <3>4
  <2>5. BodyIsRight(a, total)
    BY <2>2, <2>4 DEF BodyIsRight
  <2>6. QED  BY <2>4, <2>5
<1>5. CASE h.q.method # "HEAD" /\ parseRange(h.q.range, total) # NoRange
  <2>1. PICK s, e \in Int :
          /\ parseRange(h.q.range, total) = [start |-> s, end |-> e]
          /\ 0 <= s /\ s <= e /\ e <= total - 1 /\ s = h.q.range.start
          /\ h.q.range.end # -1 => e <= h.q.range.end
    BY <1>1, <1>2, <1>5, RangeInBody
  <2>2. PICK body \in SUBSET Int : body = s..e
    OBVIOUS
  <2>3. Cardinality(body) = e - s + 1
    <3>1. Cardinality(s..e) = IF s > e THEN 0 ELSE e - s + 1
      BY FS_Interval
    <3>2. QED  BY <2>1, <2>2, <3>1
  <2>4. a = Answered(h, 206, e - s + 1, body)
    <3>1. body \cap (0..total - 1) = body
      BY <1>1, <2>1, <2>2
    <3>2. a = Answered(h, 206, e - s + 1, (s..e) \cap (0..total - 1))
      BY <1>5, <2>1 DEF serveBuffer
    <3>3. QED  BY <2>2, <3>1, <3>2
  <2>5. /\ a \in RequestRecord /\ a.state = "done" /\ a.status = 206 /\ a.length = e - s + 1 /\ a.body = body
        /\ a.q = h.q /\ a.key = h.key /\ a.promised = h.promised /\ a.steady = h.steady
    <3>1. h \in RequestRecord /\ 206 \in Nat /\ e - s + 1 \in Int /\ body \in SUBSET Int
      OBVIOUS
    <3>2. PICK length \in Int : length = e - s + 1
      BY <3>1
    <3>3. a = Answered(h, 206, length, body)
      BY <2>4, <3>2
    <3>4. /\ a \in RequestRecord /\ a.state = "done" /\ a.status = 206 /\ a.length = length /\ a.body = body
          /\ a.q = h.q /\ a.key = h.key /\ a.promised = h.promised /\ a.steady = h.steady
      BY <3>1, <3>3, AnsweredFields
    <3>5. QED  BY <3>2, <3>4
  <2>6. /\ body # {} /\ \A b \in body : b >= h.q.range.start
        /\ h.q.range.end # -1 => \A b \in body : b <= h.q.range.end
    <3>1. s \in body
      BY <2>1, <2>2
    <3>2. \A b \in body : b >= h.q.range.start
      BY <2>1, <2>2
    <3>3. h.q.range.end \in Int
      BY <1>2
    <3>4. h.q.range.end # -1 => \A b \in body : b <= h.q.range.end
      BY <2>1, <2>2, <3>3
    <3>5. QED  BY <3>1, <3>2, <3>4
  <2>7. BodyIsRight(a, total)
    <3>1. Cardinality(a.body) = a.length /\ a.body # {} /\ \A b \in a.body : b >= a.q.range.start
      BY <2>3, <2>5, <2>6
    <3>2. a.q.range.end # -1 => \A b \in a.body : b <= a.q.range.end
      BY <2>5, <2>6
    <3>3. QED  BY <2>5, <3>1, <3>2 DEF BodyIsRight
  <2>8. QED  BY <2>5, <2>7
<1>6. QED  BY <1>3, <1>4, <1>5

\* At the start no request has come and nothing is being decrypted.
LEMMA AttachStart == AttachInit => AttachInv
<1> SUFFICES ASSUME AttachInit PROVE AttachInv
  OBVIOUS
<1>1. onDisk \in [File -> -1..FileBytes]
  BY AttachmentAssumption DEF AttachInit
<1>2. http \in [Request -> RequestRecord]
  BY IdleTyped DEF AttachInit
<1>3. DOMAIN inFlight = {} /\ DOMAIN decrypted = {} /\ inFlight \in [DOMAIN inFlight -> FlightRecord]
  BY DEF AttachInit
<1>4. AttachTyped
  BY <1>1, <1>2, <1>3 DEF AttachTyped
<1>5. RequestsRight
  BY IdleTyped DEF AttachInit, RequestsRight, RequestIsRight
<1>6. FlightsRight /\ CacheRight
  BY <1>3 DEF FlightsRight, CacheRight
<1>7. QED  BY <1>4, <1>5, <1>6 DEF AttachInv

\* A request that awaits no decryption moves on, and nothing else does.
LEMMA RequestMoves ==
  ASSUME AttachInv, NEW r \in Request, http[r].state # "decrypt", NEW h, RequestIsRight(h, onDisk),
         http' = [http EXCEPT ![r] = h], UNCHANGED <<onDisk, inFlight, decrypted>>
  PROVE  AttachInv'
<1>1. h \in RequestRecord
  BY DEF RequestIsRight
<1>2. http \in [Request -> RequestRecord]
  BY DEF AttachInv, AttachTyped
<1>3. /\ http' \in [Request -> RequestRecord] /\ http'[r] = h
      /\ \A s \in Request \ {r} : http'[s] = http[s]
  BY <1>1, <1>2
<1>4. AttachTyped'
  BY <1>3 DEF AttachInv, AttachTyped
<1>5. RequestsRight'
  BY <1>3 DEF AttachInv, RequestsRight
<1>6. FlightsRight'
  <2>1. ASSUME NEW k \in DOMAIN inFlight, NEW s \in inFlight[k].waiters
        PROVE  s \in Request \ {r}
    <3>1. inFlight[k] \in FlightRecord
      BY DEF AttachInv, AttachTyped
    <3>2. s \in Request /\ http[s].state = "decrypt"
      BY <3>1 DEF AttachInv, FlightsRight, FlightRecord
    <3>3. QED  BY <3>2
  <2>2. QED  BY <1>3, <2>1 DEF AttachInv, FlightsRight
<1>7. CacheRight'
  BY DEF AttachInv, CacheRight
<1>8. QED  BY <1>4, <1>5, <1>6, <1>7 DEF AttachInv

\* An answer without a body to be right about.
LEMMA RefusedRight ==
  ASSUME NEW h \in RequestRecord, ~h.promised, NEW status \in Nat \ {200, 206}, NEW files
  PROVE  RequestIsRight(Answered(h, status, 0, {}), files)
<1>1. PICK none \in SUBSET Int : none = {}
  OBVIOUS
<1>2. PICK a : a = Answered(h, status, 0, none)
  OBVIOUS
<1>3. a \in RequestRecord /\ a.state = "done" /\ a.status = status /\ a.promised = h.promised
  <2>1. h \in RequestRecord /\ status \in Nat /\ 0 \in Int /\ none \in SUBSET Int
    OBVIOUS
  <2>2. QED  BY <1>2, <2>1, AnsweredFields
<1>4. RequestIsRight(a, files)
  BY <1>3 DEF RequestIsRight
<1>5. QED  BY <1>1, <1>2, <1>4

\* A request that arrives waits for the size of its file.
LEMMA ArriveKeeps ==
  ASSUME AttachInv, NEW r \in Request, Arrive(r)
  PROVE  AttachInv'
<1>1. PICK q \in Queries, key \in Key :
        http' = [http EXCEPT ![r] =
          IF Refusal(q) # 0 THEN Answered(Idle, Refusal(q), 0, {})
          ELSE [Idle EXCEPT !.state = "stat", !.q = q, !.key = key]]
  BY DEF Arrive
<1>2. UNCHANGED <<onDisk, inFlight, decrypted>> /\ http[r].state # "decrypt"
  BY DEF Arrive
<1>3. q \in Query
  BY QueriesAssumption
<1>4. CASE Refusal(q) # 0
  <2>1. Refusal(q) \in Nat \ {200, 206}
    BY <1>4 DEF Refusal
  <2>2. PICK h : h = Answered(Idle, Refusal(q), 0, {})
    OBVIOUS
  <2>3. RequestIsRight(h, onDisk)
    BY <2>1, <2>2, IdleTyped, RefusedRight
  <2>4. http' = [http EXCEPT ![r] = h]
    BY <1>1, <1>4, <2>2
  <2>5. QED  BY <1>2, <2>3, <2>4, RequestMoves
<1>5. CASE Refusal(q) = 0
  <2>1. PICK h : h = [Idle EXCEPT !.state = "stat", !.q = q, !.key = key]
    OBVIOUS
  <2>2. h \in RequestRecord /\ h.state = "stat" /\ h.q = q /\ h.key = key /\ ~h.promised
    <3>1. Idle \in RequestRecord /\ ~Idle.promised /\ q \in Query \cup {{}} /\ key \in Key \cup {<<>>}
      BY <1>3, IdleTyped
    <3>2. [Idle EXCEPT !.state = "stat", !.q = q, !.key = key] \in RequestRecord
      BY <3>1 DEF RequestRecord
    <3>3. QED  BY <2>1, <3>1, <3>2 DEF RequestRecord
  <2>3. RequestIsRight(h, onDisk)
    BY <1>3, <2>2 DEF RequestIsRight
  <2>4. http' = [http EXCEPT ![r] = h]
    BY <1>1, <1>5, <2>1
  <2>5. QED  BY <1>2, <2>3, <2>4, RequestMoves
<1>6. QED  BY <1>4, <1>5

Streaming(h, total) == [h EXCEPT !.state = "stream", !.status = 200, !.length = total]
StreamingPart(h, length, body) ==
  [h EXCEPT !.state = "stream", !.status = 206, !.length = length, !.body = body]

\* A streaming answer is a request record with the status and length it was given.
LEMMA StreamFields ==
  ASSUME NEW h \in RequestRecord, NEW length \in Int, NEW body \in SUBSET Int
  PROVE  /\ Streaming(h, length) \in RequestRecord
         /\ Streaming(h, length).state = "stream" /\ Streaming(h, length).status = 200
         /\ Streaming(h, length).length = length
         /\ Streaming(h, length).q = h.q /\ Streaming(h, length).key = h.key
         /\ Streaming(h, length).promised = h.promised
         /\ StreamingPart(h, length, body) \in RequestRecord
         /\ StreamingPart(h, length, body).state = "stream" /\ StreamingPart(h, length, body).status = 206
         /\ StreamingPart(h, length, body).length = length /\ StreamingPart(h, length, body).body = body
         /\ StreamingPart(h, length, body).q = h.q /\ StreamingPart(h, length, body).key = h.key
         /\ StreamingPart(h, length, body).promised = h.promised
<1>1. PICK a : a = Streaming(h, length)
  OBVIOUS
<1>2. a \in RequestRecord
  BY ZenonT(60), <1>1 DEF Streaming, RequestRecord
<1>3. a.state = "stream" /\ a.status = 200 /\ a.length = length /\ a.q = h.q /\ a.key = h.key
      /\ a.promised = h.promised
  BY <1>1, <1>2 DEF Streaming, RequestRecord
<1>4. PICK b : b = StreamingPart(h, length, body)
  OBVIOUS
<1>5. b \in RequestRecord
  BY ZenonT(60), <1>4 DEF StreamingPart, RequestRecord
<1>6. b.state = "stream" /\ b.status = 206 /\ b.length = length /\ b.body = body
      /\ b.q = h.q /\ b.key = h.key /\ b.promised = h.promised
  BY <1>4, <1>5 DEF StreamingPart, RequestRecord
<1>7. QED  BY <1>1, <1>2, <1>3, <1>4, <1>5, <1>6

\* A plain file's answer is decided from the size that was read.
LEMMA PlainStatKeeps ==
  ASSUME AttachInv, NEW r \in Request, PlainStat(r)
  PROVE  AttachInv'
<1>1. PICK total : total = onDisk[http[r].key[1]]
  OBVIOUS
<1>2. PICK h : h = [http[r] EXCEPT !.steady = TRUE]
  OBVIOUS
<1>3. PICK range : range = parseRange(http[r].q.range, total)
  OBVIOUS
<1>4. http[r] \in RequestRecord /\ http[r].state = "stat" /\ http[r].q \in Query /\ http[r].key \in Key
      /\ ~http[r].promised /\ http[r].q.version = "v1"
  BY DEF AttachInv, RequestsRight, RequestIsRight, PlainStat
<1>5. total \in -1..FileBytes /\ total \in Int /\ FileBytes \in Nat
  <2>1. total \in -1..FileBytes
    BY <1>1, <1>4, BytesOfKey DEF AttachInv, AttachTyped
  <2>2. QED  BY <2>1, AttachmentAssumption
<1>6. h \in RequestRecord /\ h.q = http[r].q /\ h.key = http[r].key /\ ~h.promised /\ h.steady
  BY <1>2, <1>4 DEF RequestRecord
<1>7. /\ UNCHANGED <<onDisk, inFlight, decrypted>> /\ http[r].state # "decrypt"
      /\ http' = [http EXCEPT ![r] =
           IF total = -1 THEN Answered(h, 404, 0, {})
           ELSE IF h.q.method = "HEAD" THEN Answered(h, 200, total, {})
           ELSE IF range = NoRange THEN [h EXCEPT !.state = "stream", !.status = 200, !.length = total]
           ELSE [h EXCEPT !.state = "stream", !.status = 206,
                          !.length = range.end - range.start + 1, !.body = range.start..range.end]]
  BY <1>1, <1>2, <1>3, <1>4 DEF PlainStat
<1>8. CASE total = -1
  <2>1. PICK a : a = Answered(h, 404, 0, {})
    OBVIOUS
  <2>2. RequestIsRight(a, onDisk)
    BY <1>6, <2>1, RefusedRight
  <2>3. http' = [http EXCEPT ![r] = a]
    BY <1>7, <1>8, <2>1
  <2>4. QED  BY <1>7, <2>2, <2>3, RequestMoves
<1>9. CASE total # -1 /\ h.q.method = "HEAD"
  <2>1. PICK none \in SUBSET Int : none = {}
    OBVIOUS
  <2>2. PICK a : a = Answered(h, 200, total, none)
    OBVIOUS
  <2>3. a \in RequestRecord /\ a.state = "done" /\ a.q = h.q /\ a.promised = h.promised
    BY <1>5, <1>6, <2>2, AnsweredFields
  <2>4. RequestIsRight(a, onDisk)
    BY <1>6, <1>9, <2>3 DEF RequestIsRight
  <2>5. http' = [http EXCEPT ![r] = a]
    BY <1>7, <1>9, <2>1, <2>2
  <2>6. QED  BY <1>7, <2>4, <2>5, RequestMoves
<1>10. CASE total # -1 /\ h.q.method # "HEAD" /\ range = NoRange
  <2>1. PICK a : a = [h EXCEPT !.state = "stream", !.status = 200, !.length = total]
    OBVIOUS
  <2>2. /\ a \in RequestRecord /\ a.state = "stream" /\ a.status = 200 /\ a.length = total
        /\ a.q = h.q /\ a.key = h.key /\ a.promised = h.promised
    <3>2. a = Streaming(h, total)
      BY <2>1 DEF Streaming
    <3>3. QED  BY <1>5, <1>6, <3>2, StreamFields
  <2>3. RequestIsRight(a, onDisk)
    BY <1>1, <1>4, <1>6, <1>10, <2>2 DEF RequestIsRight, HeadIsRight
  <2>4. http' = [http EXCEPT ![r] = a]
    BY <1>7, <1>10, <2>1
  <2>5. QED  BY <1>7, <2>3, <2>4, RequestMoves
<1>11. CASE total # -1 /\ h.q.method # "HEAD" /\ range # NoRange
  <2>1. h.q.range \in [start : -1..FileBytes + 1, end : -1..FileBytes + 1]
    BY <1>4, <1>6 DEF Query
  <2>2. PICK s, e \in Int :
          /\ range = [start |-> s, end |-> e]
          /\ 0 <= s /\ s <= e /\ e <= total - 1 /\ s = h.q.range.start
          /\ h.q.range.end # -1 => e <= h.q.range.end
    BY <1>3, <1>5, <1>6, <1>11, <2>1, RangeInBody
  <2>3. PICK body \in SUBSET Int : body = s..e
    OBVIOUS
  <2>4. PICK a : a = [h EXCEPT !.state = "stream", !.status = 206, !.length = e - s + 1, !.body = body]
    OBVIOUS
  <2>5. e - s + 1 \in Int
    OBVIOUS
  <2>6. /\ a \in RequestRecord /\ a.state = "stream" /\ a.status = 206 /\ a.length = e - s + 1
        /\ a.body = body /\ a.q = h.q /\ a.key = h.key /\ a.promised = h.promised
    <3>1. PICK length \in Int : length = e - s + 1
      BY <2>5
    <3>2. a = StreamingPart(h, length, body)
      BY <2>4, <3>1 DEF StreamingPart
    <3>3. QED  BY <1>6, <3>1, <3>2, StreamFields
  <2>7. Cardinality(body) = e - s + 1
    <3>1. Cardinality(s..e) = IF s > e THEN 0 ELSE e - s + 1
      BY FS_Interval
    <3>2. QED  BY <2>2, <2>3, <3>1
  <2>8. body # {} /\ body \subseteq 0..total - 1
    <3>1. s \in body
      BY <2>2, <2>3
    <3>2. QED  BY <1>5, <2>2, <2>3, <3>1
  <2>9. h.q.range.end \in Int
    BY <2>1
  <2>10. \A b \in body : b >= h.q.range.start /\ (h.q.range.end # -1 => b <= h.q.range.end)
    BY <2>2, <2>3, <2>9
  <2>11. BodyIsRight(a, total)
    <3>1. Cardinality(a.body) = a.length /\ a.body # {} /\ \A b \in a.body : b >= a.q.range.start
      BY <2>6, <2>7, <2>8, <2>10
    <3>2. a.q.range.end # -1 => \A b \in a.body : b <= a.q.range.end
      BY <2>6, <2>10
    <3>3. QED  BY <2>6, <3>1, <3>2 DEF BodyIsRight
  <2>12. HeadIsRight(a, total)
    BY <1>11, <2>6, <2>8, <2>11 DEF HeadIsRight
  <2>13. RequestIsRight(a, onDisk)
    BY <1>1, <1>4, <1>6, <2>6, <2>12 DEF RequestIsRight
  <2>14. http' = [http EXCEPT ![r] = a]
    BY <1>7, <1>11, <2>2, <2>3, <2>4
  <2>15. QED  BY <1>7, <2>13, <2>14, RequestMoves
<1>12. QED  BY <1>8, <1>9, <1>10, <1>11

\* A plain file is streamed under the headers that were sent.
LEMMA PlainStreamKeeps ==
  ASSUME AttachInv, NEW r \in Request, PlainStream(r)
  PROVE  AttachInv'
<1>1. PICK h : h = http[r]
  OBVIOUS
<1>2. PICK total : total = onDisk[h.key[1]]
  OBVIOUS
<1>3. /\ h \in RequestRecord /\ h.state = "stream" /\ h.q \in Query /\ h.key \in Key
      /\ ~h.promised /\ h.q.version = "v1" /\ h.status \in {200, 206}
      /\ h.steady => HeadIsRight(h, total)
  BY <1>1, <1>2 DEF AttachInv, RequestsRight, RequestIsRight, PlainStream
<1>4. total \in -1..FileBytes /\ total \in Int /\ FileBytes \in Nat
  <2>1. total \in -1..FileBytes
    BY <1>2, <1>3, BytesOfKey DEF AttachInv, AttachTyped
  <2>2. QED  BY <2>1, AttachmentAssumption
<1>5. PICK sent : sent = IF h.status = 200 THEN 0..total - 1 ELSE h.body \cap 0..total - 1
  OBVIOUS
<1>6. sent \in SUBSET Int /\ h.length \in Int /\ h.status \in Nat
  BY <1>3, <1>4, <1>5 DEF RequestRecord
<1>7. /\ UNCHANGED <<onDisk, inFlight, decrypted>> /\ http[r].state # "decrypt"
      /\ http' = [http EXCEPT ![r] = IF total = -1 THEN Answered(h, 0, 0, {})
                                     ELSE Answered(h, h.status, h.length, sent)]
  BY <1>1, <1>2, <1>3, <1>5 DEF PlainStream
<1>8. CASE total = -1
  <2>1. PICK a : a = Answered(h, 0, 0, {})
    OBVIOUS
  <2>2. RequestIsRight(a, onDisk)
    BY <1>3, <2>1, RefusedRight
  <2>3. http' = [http EXCEPT ![r] = a]
    BY <1>7, <1>8, <2>1
  <2>4. QED  BY <1>7, <2>2, <2>3, RequestMoves
<1>9. CASE total # -1
  <2>1. PICK a : a = Answered(h, h.status, h.length, sent)
    OBVIOUS
  <2>2. /\ a \in RequestRecord /\ a.state = "done" /\ a.status = h.status /\ a.length = h.length
        /\ a.body = sent /\ a.q = h.q /\ a.promised = h.promised /\ a.steady = h.steady
    BY <1>3, <1>6, <2>1, AnsweredFields
  <2>3. ASSUME h.steady PROVE BodyIsRight(a, total)
    <3>1. HeadIsRight(h, total)
      BY <1>3, <2>3
    <3>2. CASE h.status = 200
      <4>1. Cardinality(0..total - 1) = IF 0 > total - 1 THEN 0 ELSE total - 1 - 0 + 1
        BY <1>4, FS_Interval
      <4>2. Cardinality(sent) = total
        BY <1>4, <1>5, <1>9, <3>2, <4>1
      <4>3. QED  BY <2>2, <3>1, <3>2, <4>2 DEF BodyIsRight, HeadIsRight
    <3>3. CASE h.status = 206
      <4>1. sent = h.body
        BY <1>5, <3>1, <3>3 DEF HeadIsRight
      <4>2. BodyIsRight(h, total)
        BY <3>1, <3>3 DEF HeadIsRight
      <4>3. QED  BY <2>2, <3>3, <4>1, <4>2 DEF BodyIsRight
    <3>4. QED  BY <1>3, <3>2, <3>3
  <2>4. RequestIsRight(a, onDisk)
    BY <1>3, <1>4, <2>2, <2>3 DEF RequestIsRight
  <2>5. http' = [http EXCEPT ![r] = a]
    BY <1>7, <1>9, <2>1
  <2>6. QED  BY <1>7, <2>4, <2>5, RequestMoves
<1>10. QED  BY <1>8, <1>9

\* A waiting request is one of the requests, and waits for one key only.
LEMMA WaitersApart ==
  ASSUME AttachInv, NEW k \in DOMAIN inFlight, NEW r \in inFlight[k].waiters
  PROVE  /\ r \in Request /\ http[r].state = "decrypt" /\ http[r].key = k
         /\ http[r].promised => inFlight[k].whole
<1>1. inFlight[k] \in FlightRecord
  BY DEF AttachInv, AttachTyped
<1>2. QED  BY <1>1 DEF AttachInv, FlightsRight, FlightRecord

\* An encrypted file is served from the cache, joins a decryption under way or starts one.
LEMMA EncryptedStatKeeps ==
  ASSUME AttachInv, NEW r \in Request, EncryptedStat(r)
  PROVE  AttachInv'
<1>1. PICK key : key = http[r].key
  OBVIOUS
<1>2. /\ http[r] \in RequestRecord /\ http[r].state = "stat" /\ http[r].q \in Query /\ key \in Key
      /\ ~http[r].promised /\ http[r].q.version = "v2"
  BY <1>1 DEF AttachInv, RequestsRight, RequestIsRight, EncryptedStat
<1>3. PICK whole \in BOOLEAN : whole = (onDisk[key[1]] = FileBytes)
  OBVIOUS
<1>4. UNCHANGED <<onDisk, decrypted>>
  BY DEF EncryptedStat
<1>5. \/ http' = [http EXCEPT ![r] = Answered(http[r], 404, 0, {})] /\ UNCHANGED inFlight
      \/ /\ key \in DOMAIN decrypted /\ UNCHANGED inFlight
         /\ http' = [http EXCEPT ![r] = serveBuffer(http[r], decrypted[key])]
      \/ /\ key \in DOMAIN inFlight
         /\ http' = [http EXCEPT ![r] = [http[r] EXCEPT !.state = "decrypt",
                       !.promised = whole /\ (inFlight[key].whole \/ inFlight[key].settled)]]
         /\ inFlight' = [inFlight EXCEPT ![key].waiters = @ \cup {r}]
      \/ /\ key \notin DOMAIN inFlight
         /\ http' = [http EXCEPT ![r] = [http[r] EXCEPT !.state = "decrypt", !.promised = whole]]
         /\ inFlight' = [k \in DOMAIN inFlight \cup {key} |->
              IF k = key THEN [size |-> key[2], whole |-> whole, settled |-> FALSE, waiters |-> {r}]
              ELSE inFlight[k]]
  BY <1>1, <1>3 DEF EncryptedStat, cacheKey
<1>6. CASE http' = [http EXCEPT ![r] = Answered(http[r], 404, 0, {})] /\ UNCHANGED inFlight
  <2>1. PICK a : a = Answered(http[r], 404, 0, {})
    OBVIOUS
  <2>2. RequestIsRight(a, onDisk)
    BY <1>2, <2>1, RefusedRight
  <2>3. http' = [http EXCEPT ![r] = a] /\ http[r].state # "decrypt"
    BY <1>2, <1>6, <2>1
  <2>4. QED  BY <1>4, <1>6, <2>2, <2>3, RequestMoves
<1>7. CASE /\ key \in DOMAIN decrypted /\ UNCHANGED inFlight
           /\ http' = [http EXCEPT ![r] = serveBuffer(http[r], decrypted[key])]
  <2>1. PICK total \in 0..FileBytes : total = decrypted[key] /\ total = key[2]
    BY <1>2, <1>7, BytesOfKey DEF AttachInv, CacheRight
  <2>2. PICK a : a = serveBuffer(http[r], total)
    OBVIOUS
  <2>3. /\ a \in RequestRecord /\ a.state = "done" /\ a.status \in {200, 206}
        /\ a.q = http[r].q /\ a.key = key /\ a.promised = http[r].promised
        /\ http[r].q.method = "GET" => BodyIsRight(a, total)
    BY <1>1, <1>2, <2>2, ServedRight
  <2>4. RequestIsRight(a, onDisk)
    BY <1>2, <2>1, <2>3 DEF RequestIsRight
  <2>5. http' = [http EXCEPT ![r] = a] /\ http[r].state # "decrypt"
    BY <1>2, <1>7, <2>1, <2>2
  <2>6. QED  BY <1>4, <1>7, <2>4, <2>5, RequestMoves
<1>8. ASSUME NEW promised \in BOOLEAN,
             http' = [http EXCEPT ![r] = [http[r] EXCEPT !.state = "decrypt", !.promised = promised]],
             inFlight' \in [DOMAIN inFlight' -> FlightRecord], DOMAIN inFlight' \subseteq Key,
             \A k \in DOMAIN inFlight \ {key} : inFlight'[k] = inFlight[k],
             DOMAIN inFlight' = DOMAIN inFlight \cup {key},
             inFlight'[key].size = key[2], ~inFlight'[key].settled,
             promised => inFlight'[key].whole,
             \A s \in inFlight'[key].waiters \ {r} :
               s \in Request /\ http[s].state = "decrypt" /\ http[s].key = key
               /\ (http[s].promised => inFlight'[key].whole)
      PROVE  AttachInv'
  <2>1. PICK a \in RequestRecord : a = [http[r] EXCEPT !.state = "decrypt", !.promised = promised]
    BY <1>2 DEF RequestRecord
  <2>2. /\ a.state = "decrypt" /\ a.promised = promised /\ a.q = http[r].q /\ a.key = key
    BY <1>1, <1>2, <2>1 DEF RequestRecord
  <2>3. /\ http' \in [Request -> RequestRecord] /\ http'[r] = a
        /\ \A s \in Request \ {r} : http'[s] = http[s]
    BY <1>8, <2>1 DEF AttachInv, AttachTyped
  <2>4. AttachTyped'
    BY <1>4, <1>8, <2>3 DEF AttachInv, AttachTyped
  <2>5. RequestIsRight(a, onDisk)
    BY <1>2, <2>2 DEF RequestIsRight
  <2>6. RequestsRight'
    BY <1>4, <2>3, <2>5 DEF AttachInv, RequestsRight
  <2>7. FlightsRight'
    <3>1. SUFFICES ASSUME NEW k \in DOMAIN inFlight'
                   PROVE  /\ inFlight'[k].size = k[2] /\ ~inFlight'[k].settled
                          /\ \A s \in inFlight'[k].waiters :
                               /\ http'[s].state = "decrypt" /\ http'[s].key = k
                               /\ http'[s].promised => inFlight'[k].whole
      BY DEF FlightsRight
    <3>2. CASE k = key
      BY <1>8, <2>2, <2>3, <3>2
    <3>3. CASE k # key
      <4>1. k \in DOMAIN inFlight /\ inFlight'[k] = inFlight[k]
        BY <1>8, <3>3
      <4>2. ASSUME NEW s \in inFlight[k].waiters
            PROVE  /\ http'[s] = http[s] /\ http[s].state = "decrypt" /\ http[s].key = k
                   /\ http[s].promised => inFlight[k].whole
        BY <1>2, <2>3, <4>1, <4>2, WaitersApart
      <4>3. QED  BY <4>1, <4>2 DEF AttachInv, FlightsRight
    <3>4. QED  BY <3>2, <3>3
  <2>8. CacheRight'
    BY <1>4 DEF AttachInv, CacheRight
  <2>9. QED  BY <2>4, <2>6, <2>7, <2>8 DEF AttachInv
<1>9. CASE /\ key \in DOMAIN inFlight
           /\ http' = [http EXCEPT ![r] = [http[r] EXCEPT !.state = "decrypt",
                         !.promised = whole /\ (inFlight[key].whole \/ inFlight[key].settled)]]
           /\ inFlight' = [inFlight EXCEPT ![key].waiters = @ \cup {r}]
  <2>1. inFlight[key] \in FlightRecord /\ inFlight[key].size = key[2] /\ inFlight[key].settled = FALSE
    BY <1>9 DEF AttachInv, AttachTyped, FlightsRight, FlightRecord
  <2>2. PICK promised \in BOOLEAN : promised = (whole /\ (inFlight[key].whole \/ inFlight[key].settled))
    OBVIOUS
  <2>3. PICK waiters \in SUBSET Request : waiters = inFlight[key].waiters \cup {r}
    BY <2>1 DEF FlightRecord
  <2>4. PICK flight \in FlightRecord : flight = [inFlight[key] EXCEPT !.waiters = waiters]
    BY <2>1 DEF FlightRecord
  <2>5. inFlight' = [inFlight EXCEPT ![key] = flight]
    BY <1>9, <2>3, <2>4
  <2>6. /\ flight.size = inFlight[key].size /\ flight.whole = inFlight[key].whole
        /\ flight.settled = inFlight[key].settled /\ flight.waiters = waiters
    BY <2>1, <2>4 DEF FlightRecord
  <2>7. inFlight \in [DOMAIN inFlight -> FlightRecord] /\ DOMAIN inFlight \subseteq Key
    BY DEF AttachInv, AttachTyped
  <2>8. /\ DOMAIN inFlight' = DOMAIN inFlight /\ inFlight'[key] = flight
        /\ inFlight' \in [DOMAIN inFlight' -> FlightRecord]
        /\ \A k \in DOMAIN inFlight \ {key} : inFlight'[k] = inFlight[k]
    BY <1>9, <2>5, <2>7
  <2>9. \A s \in waiters \ {r} : /\ s \in Request /\ http[s].state = "decrypt" /\ http[s].key = key
                                 /\ http[s].promised => flight.whole
    BY <1>9, <2>3, <2>6, WaitersApart
  <2>10. http' = [http EXCEPT ![r] = [http[r] EXCEPT !.state = "decrypt", !.promised = promised]]
    BY <1>9, <2>2
  <2>11. promised => flight.whole
    BY <2>1, <2>2, <2>6
  <2>12. DOMAIN inFlight' \subseteq Key /\ DOMAIN inFlight' = DOMAIN inFlight \cup {key}
    BY <1>9, <2>7, <2>8
  <2>13. inFlight'[key].size = key[2] /\ ~inFlight'[key].settled /\ inFlight'[key].waiters = waiters
    BY <2>1, <2>6, <2>8
  <2>14. QED  BY <1>8, <2>8, <2>9, <2>10, <2>11, <2>12, <2>13
<1>10. CASE /\ key \notin DOMAIN inFlight
            /\ http' = [http EXCEPT ![r] = [http[r] EXCEPT !.state = "decrypt", !.promised = whole]]
            /\ inFlight' = [k \in DOMAIN inFlight \cup {key} |->
                 IF k = key THEN [size |-> key[2], whole |-> whole, settled |-> FALSE, waiters |-> {r}]
                 ELSE inFlight[k]]
  <2>1. PICK flight : flight = [size |-> key[2], whole |-> whole, settled |-> FALSE, waiters |-> {r}]
    OBVIOUS
  <2>2. /\ flight \in FlightRecord /\ flight.size = key[2] /\ flight.whole = whole /\ ~flight.settled
        /\ flight.waiters = {r}
    BY <1>2, <2>1, BytesOfKey DEF FlightRecord
  <2>3. inFlight' = [k \in DOMAIN inFlight \cup {key} |-> IF k = key THEN flight ELSE inFlight[k]]
    BY <1>10, <2>1
  <2>4. inFlight \in [DOMAIN inFlight -> FlightRecord] /\ DOMAIN inFlight \subseteq Key
    BY DEF AttachInv, AttachTyped
  <2>5. /\ DOMAIN inFlight' = DOMAIN inFlight \cup {key} /\ inFlight'[key] = flight
        /\ \A k \in DOMAIN inFlight \ {key} : inFlight'[k] = inFlight[k]
    BY <2>3
  <2>6. inFlight' \in [DOMAIN inFlight' -> FlightRecord] /\ DOMAIN inFlight' \subseteq Key
    BY <1>2, <2>2, <2>3, <2>4, <2>5
  <2>7. QED  BY <1>8, <1>10, <2>2, <2>5, <2>6
<1>11. QED  BY <1>5, <1>6, <1>7, <1>9, <1>10

\* A decryption ends: its requests are answered, and the promise is gone.
LEMMA FlightEnds ==
  ASSUME AttachInv, NEW ck \in DOMAIN inFlight, UNCHANGED onDisk, inFlight' = Finally(ck),
         http' \in [Request -> RequestRecord],
         \A r \in inFlight[ck].waiters : RequestIsRight(http'[r], onDisk),
         \A r \in Request \ inFlight[ck].waiters : http'[r] = http[r],
         DOMAIN decrypted' \subseteq Key, CacheRight'
  PROVE  AttachInv'
<1>1. DOMAIN inFlight' = DOMAIN inFlight \ {ck} /\ \A k \in DOMAIN inFlight' : inFlight'[k] = inFlight[k]
  BY DEF Finally
<1>2. inFlight' = [k \in DOMAIN inFlight \ {ck} |-> inFlight[k]]
  BY DEF Finally
<1>3. inFlight' \in [DOMAIN inFlight' -> FlightRecord] /\ DOMAIN inFlight' \subseteq Key
  BY <1>1, <1>2 DEF AttachInv, AttachTyped
<1>4. AttachTyped'
  BY <1>3 DEF AttachInv, AttachTyped
<1>5. RequestsRight'
  BY DEF AttachInv, RequestsRight
<1>6. ASSUME NEW k \in DOMAIN inFlight', NEW s \in inFlight[k].waiters
      PROVE  /\ http'[s] = http[s] /\ http[s].state = "decrypt" /\ http[s].key = k
             /\ http[s].promised => inFlight[k].whole
  <2>1. k \in DOMAIN inFlight /\ k # ck
    BY <1>1
  <2>2. /\ s \in Request /\ http[s].state = "decrypt" /\ http[s].key = k
        /\ http[s].promised => inFlight[k].whole
    BY <1>6, <2>1, WaitersApart
  <2>3. s \notin inFlight[ck].waiters
    BY <2>1, <2>2, WaitersApart
  <2>4. QED  BY <2>2, <2>3
<1>7. FlightsRight'
  BY <1>1, <1>6 DEF AttachInv, FlightsRight
<1>8. QED  BY <1>4, <1>5, <1>7 DEF AttachInv

\* A decryption that succeeds answers all who wait for it.
LEMMA DecryptOkKeeps ==
  ASSUME AttachInv, NEW ck \in DOMAIN inFlight, DecryptOk(ck)
  PROVE  AttachInv'
<1>1. inFlight[ck] \in FlightRecord /\ ck \in Key /\ inFlight[ck].size = ck[2]
  BY DEF AttachInv, AttachTyped, FlightsRight
<1>2. PICK total \in 0..FileBytes : total = ck[2]
  BY <1>1, BytesOfKey
<1>3. /\ UNCHANGED onDisk /\ inFlight' = Finally(ck)
      /\ http' = [r \in Request |-> IF r \in inFlight[ck].waiters THEN serveBuffer(http[r], total) ELSE http[r]]
      /\ decrypted' \in cacheSet(ck, total)
  BY <1>1, <1>2 DEF DecryptOk
<1>4. ASSUME NEW r \in inFlight[ck].waiters
      PROVE  /\ r \in Request /\ http'[r] \in RequestRecord
             /\ RequestIsRight(http'[r], onDisk)
  <2>1. r \in Request /\ http[r].state = "decrypt" /\ http[r].key = ck
    BY <1>4, WaitersApart
  <2>2. http[r] \in RequestRecord /\ http[r].q \in Query /\ http[r].q.version = "v2"
    BY <2>1 DEF AttachInv, RequestsRight, RequestIsRight
  <2>3. PICK a : a = serveBuffer(http[r], total)
    OBVIOUS
  <2>4. /\ a \in RequestRecord /\ a.state = "done" /\ a.status \in {200, 206}
        /\ a.q = http[r].q /\ a.key = ck
        /\ http[r].q.method = "GET" => BodyIsRight(a, total)
    BY <2>1, <2>2, <2>3, ServedRight
  <2>5. RequestIsRight(a, onDisk)
    BY <1>2, <2>2, <2>4 DEF RequestIsRight
  <2>6. http'[r] = a
    BY <1>3, <1>4, <2>1, <2>3
  <2>7. QED  BY <2>1, <2>4, <2>5, <2>6
<1>5. \A r \in Request \ inFlight[ck].waiters : http'[r] = http[r]
  BY <1>3
<1>6. http' \in [Request -> RequestRecord]
  <2>1. \A r \in Request : http'[r] \in RequestRecord
    BY <1>4, <1>5 DEF AttachInv, AttachTyped
  <2>2. QED  BY <1>3, <2>1
<1>7. DOMAIN decrypted' \subseteq Key /\ CacheRight'
  <2>1. \/ decrypted' = decrypted
        \/ \E kept \in SUBSET (DOMAIN decrypted \ {ck}) :
             decrypted' = [k \in kept \cup {ck} |-> IF k = ck THEN total ELSE decrypted[k]]
    BY <1>3 DEF cacheSet
  <2>2. CASE decrypted' = decrypted
    BY <2>2 DEF AttachInv, AttachTyped, CacheRight
  <2>3. ASSUME NEW kept \in SUBSET (DOMAIN decrypted \ {ck}),
               decrypted' = [k \in kept \cup {ck} |-> IF k = ck THEN total ELSE decrypted[k]]
        PROVE  DOMAIN decrypted' \subseteq Key /\ CacheRight'
    BY <1>1, <1>2, <2>3 DEF AttachInv, AttachTyped, CacheRight
  <2>4. QED  BY <2>1, <2>2, <2>3
<1>8. QED  BY <1>3, <1>4, <1>5, <1>6, <1>7, FlightEnds

\* One that fails refuses all who wait for it.
LEMMA DecryptFailureKeeps ==
  ASSUME AttachInv, NEW ck \in DOMAIN inFlight, DecryptFailure(ck)
  PROVE  AttachInv'
<1>1. /\ UNCHANGED <<onDisk, decrypted>> /\ inFlight' = Finally(ck) /\ ~inFlight[ck].whole
      /\ http' = [r \in Request |-> IF r \in inFlight[ck].waiters THEN Answered(http[r], 500, 0, {}) ELSE http[r]]
  BY DEF DecryptFailure
<1>2. ASSUME NEW r \in inFlight[ck].waiters
      PROVE  /\ r \in Request /\ http'[r] \in RequestRecord
             /\ RequestIsRight(http'[r], onDisk)
  <2>1. r \in Request /\ ~http[r].promised
    BY <1>1, <1>2, WaitersApart
  <2>2. http[r] \in RequestRecord
    BY <2>1 DEF AttachInv, AttachTyped
  <2>3. PICK a : a = Answered(http[r], 500, 0, {})
    OBVIOUS
  <2>4. RequestIsRight(a, onDisk)
    BY <2>1, <2>2, <2>3, RefusedRight
  <2>5. a \in RequestRecord
    BY <2>4 DEF RequestIsRight
  <2>6. http'[r] = a
    BY <1>1, <1>2, <2>1, <2>3
  <2>7. QED  BY <2>1, <2>4, <2>5, <2>6
<1>3. \A r \in Request \ inFlight[ck].waiters : http'[r] = http[r]
  BY <1>1
<1>4. http' \in [Request -> RequestRecord]
  <2>1. \A r \in Request : http'[r] \in RequestRecord
    BY <1>2, <1>3 DEF AttachInv, AttachTyped
  <2>2. QED  BY <1>1, <2>1
<1>5. DOMAIN decrypted' \subseteq Key /\ CacheRight'
  BY <1>1 DEF AttachInv, AttachTyped, CacheRight
<1>6. QED  BY <1>1, <1>2, <1>3, <1>4, <1>5, FlightEnds

\* A file that changes on disk unsettles the requests it belongs to.
LEMMA FileChangesKeeps ==
  ASSUME AttachInv, NEW f \in File, NEW bytes \in -1..FileBytes, FileChanges(f, bytes)
  PROVE  AttachInv'
<1> DEFINE Disturbed(r) == http[r].state \in {"decrypt", "stream"} /\ http[r].key[1] = f
<1>1. PICK there \in BOOLEAN : there = (bytes # -1)
  OBVIOUS
<1>2. /\ onDisk' = [onDisk EXCEPT ![f] = bytes] /\ UNCHANGED decrypted
      /\ http' = [r \in Request |->
           IF Disturbed(r) THEN [http[r] EXCEPT !.steady = FALSE, !.promised = @ /\ there] ELSE http[r]]
      /\ inFlight' = [k \in DOMAIN inFlight |->
           IF k[1] = f /\ ~there THEN [inFlight[k] EXCEPT !.whole = FALSE] ELSE inFlight[k]]
  BY <1>1 DEF FileChanges
<1>3. onDisk' \in [File -> -1..FileBytes] /\ \A g \in File \ {f} : onDisk'[g] = onDisk[g]
  BY <1>2 DEF AttachInv, AttachTyped
<1>4. ASSUME NEW r \in Request
      PROVE  /\ RequestIsRight(http'[r], onDisk')
             /\ http'[r].state = http[r].state /\ http'[r].key = http[r].key
             /\ http'[r].promised => http[r].promised /\ (Disturbed(r) => there)
  <2>1. http[r] \in RequestRecord /\ RequestIsRight(http[r], onDisk)
    BY DEF AttachInv, AttachTyped, RequestsRight
  <2>2. CASE Disturbed(r)
    <3>1. PICK promised \in BOOLEAN : promised = (http[r].promised /\ there)
      OBVIOUS
    <3>2. PICK h \in RequestRecord : h = [http[r] EXCEPT !.steady = FALSE, !.promised = promised]
      BY <2>1 DEF RequestRecord
    <3>3. http'[r] = h
      BY <1>2, <2>2, <3>1, <3>2
    <3>4. /\ h.state = http[r].state /\ h.key = http[r].key /\ h.q = http[r].q /\ h.status = http[r].status
          /\ h.promised = promised /\ ~h.steady
      BY <2>1, <3>2 DEF RequestRecord
    <3>5. promised => http[r].promised /\ there
      BY <3>1
    <3>6. RequestIsRight(h, onDisk')
      BY <2>1, <2>2, <3>4, <3>5 DEF RequestIsRight
    <3>7. QED  BY <3>3, <3>4, <3>5, <3>6
  <2>3. CASE ~Disturbed(r)
    <3>1. http'[r] = http[r]
      BY <1>2, <2>3
    <3>2. ASSUME http[r].state = "stream" PROVE onDisk'[http[r].key[1]] = onDisk[http[r].key[1]]
      <4>1. http[r].key \in Key /\ http[r].key[1] # f
        BY <2>1, <2>3, <3>2 DEF RequestIsRight
      <4>2. QED  BY <1>3, <4>1, BytesOfKey
    <3>3. RequestIsRight(http[r], onDisk')
      BY <2>1, <3>2 DEF RequestIsRight
    <3>4. QED  BY <2>3, <3>1, <3>3
  <2>4. QED  BY <2>2, <2>3
<1>5. ASSUME NEW k \in DOMAIN inFlight
      PROVE  /\ inFlight'[k] \in FlightRecord
             /\ inFlight'[k].size = inFlight[k].size /\ inFlight'[k].settled = inFlight[k].settled
             /\ inFlight'[k].waiters = inFlight[k].waiters
             /\ inFlight[k].whole => inFlight'[k].whole \/ (k[1] = f /\ ~there)
  <2>1. inFlight[k] \in FlightRecord
    BY DEF AttachInv, AttachTyped
  <2>2. CASE k[1] = f /\ ~there
    <3>1. inFlight'[k] = [inFlight[k] EXCEPT !.whole = FALSE]
      BY <1>2, <2>2
    <3>2. QED  BY <2>1, <2>2, <3>1 DEF FlightRecord
  <2>3. CASE ~(k[1] = f /\ ~there)
    BY <1>2, <2>1, <2>3
  <2>4. QED  BY <2>2, <2>3
<1>6. DOMAIN inFlight' = DOMAIN inFlight /\ inFlight' \in [DOMAIN inFlight' -> FlightRecord]
  BY <1>2, <1>5
<1>7. \A r \in Request : http'[r] \in RequestRecord
  BY <1>4 DEF RequestIsRight
<1>8. AttachTyped'
  BY <1>2, <1>3, <1>6, <1>7 DEF AttachInv, AttachTyped
<1>9. RequestsRight'
  BY <1>4 DEF RequestsRight
<1>10. FlightsRight'
  <2>1. ASSUME NEW k \in DOMAIN inFlight, NEW r \in inFlight[k].waiters
        PROVE  /\ http'[r].state = "decrypt" /\ http'[r].key = k
               /\ http'[r].promised => inFlight'[k].whole
    <3>1. /\ r \in Request /\ http[r].state = "decrypt" /\ http[r].key = k
          /\ http[r].promised => inFlight[k].whole
      BY <2>1, WaitersApart
    <3>2. /\ http'[r].state = "decrypt" /\ http'[r].key = k
          /\ http'[r].promised => http[r].promised /\ (k[1] = f => there)
      BY <1>4, <3>1
    <3>3. QED  BY <1>5, <3>1, <3>2
  <2>2. \A k \in DOMAIN inFlight : inFlight[k].size = k[2] /\ ~inFlight[k].settled
    BY DEF AttachInv, FlightsRight
  <2>3. QED  BY <1>5, <1>6, <2>1, <2>2 DEF FlightsRight
<1>11. CacheRight'
  BY <1>2 DEF AttachInv, CacheRight
<1>12. QED  BY <1>8, <1>9, <1>10, <1>11 DEF AttachInv

\* A cache entry that expires takes no answer back.
LEMMA ExpireKeeps ==
  ASSUME AttachInv, NEW ck \in DOMAIN decrypted, Expire(ck)
  PROVE  AttachInv'
<1>1. UNCHANGED <<onDisk, http, inFlight>> /\ decrypted' = [k \in DOMAIN decrypted \ {ck} |-> decrypted[k]]
  BY DEF Expire, Without
<1>2. AttachTyped' /\ CacheRight'
  BY <1>1 DEF AttachInv, AttachTyped, CacheRight
<1>3. RequestsRight' /\ FlightsRight'
  BY <1>1 DEF AttachInv, RequestsRight, FlightsRight
<1>4. QED  BY <1>2, <1>3 DEF AttachInv

\* The invariant of attachment serving holds throughout.
LEMMA AttachInvHolds == AttachSpec => []AttachInv
<1>1. AttachInv /\ [AttachNext]_attachVars => AttachInv'
  <2> SUFFICES ASSUME AttachInv, [AttachNext]_attachVars PROVE AttachInv'
    OBVIOUS
  <2>1. ASSUME NEW r \in Request, Arrive(r) \/ PlainStat(r) \/ PlainStream(r) \/ EncryptedStat(r)
        PROVE  AttachInv'
    BY <2>1, ArriveKeeps, PlainStatKeeps, PlainStreamKeeps, EncryptedStatKeeps
  <2>2. ASSUME NEW ck \in DOMAIN inFlight, DecryptOk(ck) \/ DecryptFailure(ck) PROVE AttachInv'
    BY <2>2, DecryptOkKeeps, DecryptFailureKeeps
  <2>3. ASSUME NEW ck \in DOMAIN decrypted, Expire(ck) PROVE AttachInv'
    BY <2>3, ExpireKeeps
  <2>4. ASSUME NEW f \in File, NEW bytes \in -1..FileBytes, FileChanges(f, bytes) PROVE AttachInv'
    BY <2>4, FileChangesKeeps
  <2>5. CASE UNCHANGED attachVars
    BY <2>5 DEF attachVars, AttachInv, AttachTyped, RequestsRight, FlightsRight, CacheRight
  <2>6. QED  BY <2>1, <2>2, <2>3, <2>4, <2>5 DEF AttachNext
<1>2. QED  BY AttachStart, <1>1, PTL DEF AttachSpec

\* Sharing a decryption, or the failure of an earlier one, costs no request of a whole
\* file its answer (attachments.node.ts 396-422).
THEOREM WholeFilesAreServed == AttachSpec => []CompleteFileIsServed
<1>1. AttachInv => CompleteFileIsServed
  BY DEF AttachInv, RequestsRight, RequestIsRight, CompleteFileIsServed
<1>2. QED  BY AttachInvHolds, <1>1, PTL

\* The body of an answer is what its head says, and within the range that was asked for,
\* whatever the range and whatever happens to the cache meanwhile (145-171, 197-290).
THEOREM AnswersMatchHeads == AttachSpec => []BodyMatchesHeaders
<1>1. AttachInv => BodyMatchesHeaders
  <2>1. SUFFICES ASSUME AttachInv, NEW r \in Request, NEW h, h = http[r],
                        h.state = "done", h.status \in {200, 206}, h.q.method = "GET",
                        h.q.version = "v2" \/ h.steady
                 PROVE  /\ Cardinality(h.body) = h.length
                        /\ h.q.version = "v2" /\ h.status = 200 => h.length = h.key[2]
                        /\ h.status = 206 => /\ h.body # {}
                                             /\ \A b \in h.body : b >= h.q.range.start
                                             /\ h.q.range.end # -1 => \A b \in h.body : b <= h.q.range.end
    BY DEF BodyMatchesHeaders
  <2>2. RequestIsRight(h, onDisk)
    BY <2>1 DEF AttachInv, RequestsRight
  <2>3. CASE h.q.version = "v2"
    <3>1. BodyIsRight(h, h.key[2])
      BY <2>1, <2>2, <2>3 DEF RequestIsRight
    <3>2. QED  BY <3>1 DEF BodyIsRight
  <2>4. CASE h.q.version # "v2"
    <3>1. PICK total \in Int : BodyIsRight(h, total)
      BY <2>1, <2>2, <2>4 DEF RequestIsRight
    <3>2. QED  BY <2>4, <3>1 DEF BodyIsRight
  <2>5. QED  BY <2>3, <2>4
<1>2. QED  BY AttachInvHolds, <1>1, PTL

(***************************************************************************)
(* The nest's streams, for any bodies, chunks, streams, aborts and links.  *)
(* FlattenSeq puts every line of a body at its place on the wire; the loop *)
(* over the bytes of a buffer is followed one byte at a time: a stream has *)
(* given the lines up to some n and holds a part of line n + 1. Only the   *)
(* newest stream, and only if it is younger than the last unlink, can read *)
(* on; a stream that has ended keeps what it gave.                         *)
(***************************************************************************)

Byte  == Nat \X Nat
\* Where the lines of a body end on the wire.
Offsets(off, body) ==
  /\ off \in [0..Len(body) -> Nat] /\ off[0] = 0 /\ off[Len(body)] = Len(Wire(body))
  /\ \A i \in 1..Len(body) : off[i] = off[i - 1] + Len(LineBytes(body[i], i))
  /\ \A i \in 1..Len(body) : \A k \in 1..Len(LineBytes(body[i], i)) :
       Wire(body)[off[i - 1] + k] = LineBytes(body[i], i)[k]

\* Only the last byte of a line is a newline.
LEMMA LineEndsOnce ==
  ASSUME NEW kind \in LineKind, NEW i \in Nat
  PROVE  /\ LineBytes(kind, i) \in Seq(Byte) /\ Len(LineBytes(kind, i)) \in Nat \ {0}
         /\ \A k \in 1..Len(LineBytes(kind, i)) :
              LineBytes(kind, i)[k][2] = 0 <=> k = Len(LineBytes(kind, i))
<1>1. CASE kind = "blank"
  <2>1. PICK b \in Byte : b = <<i, 0>>
    BY DEF Byte
  <2>2. LineBytes(kind, i) = <<b>> /\ b[2] = 0
    BY <1>1, <2>1 DEF LineBytes
  <2>3. QED  BY <2>2
<1>2. CASE kind = "bad"
  <2>1. PICK a \in Byte, b \in Byte : a = <<i, 1>> /\ b = <<i, 0>>
    BY DEF Byte
  <2>2. LineBytes(kind, i) = <<a, b>> /\ a[2] = 1 /\ b[2] = 0
    BY <1>2, <2>1 DEF LineBytes
  <2>3. QED  BY <2>2
<1>3. CASE kind # "blank" /\ kind # "bad"
  <2>1. PICK a \in Byte, b \in Byte, c \in Byte : a = <<i, 1>> /\ b = <<i, 2>> /\ c = <<i, 0>>
    BY DEF Byte
  <2>2. LineBytes(kind, i) = <<a, b, c>> /\ a[2] = 1 /\ b[2] = 2 /\ c[2] = 0
    BY <1>3, <2>1 DEF LineBytes
  <2>3. QED  BY <2>2
<1>4. QED  BY <1>1, <1>2, <1>3

\* Each line of a body has its place on the wire.
LEMMA LinesOnTheWire ==
  ASSUME NEW body \in Seq(LineKind)
  PROVE  Wire(body) \in Seq(Byte) /\ \E off : Offsets(off, body)
<1>1. PICK n \in Nat : n = Len(body)
  OBVIOUS
<1>2. PICK s : s = [i \in 1..n |-> LineBytes(body[i], i)]
  OBVIOUS
<1>3. Wire(body) = FlattenSeq(s)
  BY <1>1, <1>2 DEF Wire
<1>4. PICK B : B = Byte
  OBVIOUS
<1>5. s \in [1..n -> Seq(B)]
  <2>1. \A i \in 1..n : LineBytes(body[i], i) \in Seq(Byte)
    BY <1>1, LineEndsOnce
  <2>2. QED  BY <1>2, <1>4, <2>1
<1>6. FlattenSeq(s) \in Seq(B) /\ \E off : PartsAt(off, n, s)
  BY <1>5, FlattenParts
<1>7. PICK off : PartsAt(off, n, s)
  BY <1>6
<1>8. \A i \in 1..n : s[i] = LineBytes(body[i], i)
  BY <1>2
<1>9. Offsets(off, body)
  <2>1. off \in [0..n -> Nat] /\ off[0] = 0 /\ off[n] = Len(FlattenSeq(s))
    BY <1>7 DEF PartsAt
  <2>2. ASSUME NEW i \in 1..n PROVE off[i] = off[i - 1] + Len(LineBytes(body[i], i))
    BY <1>7, <1>8 DEF PartsAt
  <2>3. ASSUME NEW i \in 1..n, NEW k \in 1..Len(LineBytes(body[i], i))
        PROVE FlattenSeq(s)[off[i - 1] + k] = LineBytes(body[i], i)[k]
    <3>1. s[i] = LineBytes(body[i], i)
      BY <1>8
    <3>2. FlattenSeq(s)[off[i - 1] + k] = s[i][k]
      BY <1>7, <3>1 DEF PartsAt
    <3>3. QED  BY <3>1, <3>2
  <2>4. QED  BY <1>1, <1>3, <2>1, <2>2, <2>3 DEF Offsets
<1>10. QED  BY <1>3, <1>4, <1>6, <1>9

EventType == LineKind \cup {"parse-error", "stream-end", "stream-aborted", "stream-error"}
Event == [line : Nat, type : EventType, again : BOOLEAN]
\* What onEvent gets for line i, and gets again if it throws.
EventOf(body, i) ==
  [line |-> i, type |-> IF body[i] = "bad" THEN "parse-error" ELSE body[i], again |-> FALSE]
Thrown(i) == [line |-> i, type |-> "parse-error", again |-> TRUE]

\* The events given are those of the first n lines.
LinesGiven(body, n, events) ==
  /\ \A j \in DOMAIN events : events[j].line \in 1..n /\ IsOfLine(events[j], body)
  /\ \A j \in DOMAIN events :
       IF events[j].again
       THEN j > 1 /\ events[j - 1].line = events[j].line /\ ~events[j - 1].again
       ELSE \A i \in 1..(j - 1) : events[i].line < events[j].line
  /\ \A l \in 1..n : body[l] # "blank" =>
       \E j \in DOMAIN events : events[j].line = l /\ ~events[j].again

\* An event is appended.
LEMMA EventAppended ==
  ASSUME NEW events \in Seq(Event), NEW e \in Event
  PROVE  LET new == Append(events, e) IN
         /\ new \in Seq(Event) /\ Len(new) = Len(events) + 1 /\ new[Len(new)] = e
         /\ \A j \in 1..Len(events) : new[j] = events[j]
OBVIOUS

\* A blank line gives nothing.
LEMMA BlankGives ==
  ASSUME NEW body, NEW n \in Nat, NEW events \in Seq(Event), LinesGiven(body, n, events),
         body[n + 1] = "blank"
  PROVE  LinesGiven(body, n + 1, events)
<1>1. ASSUME NEW l \in 1..(n + 1), body[l] # "blank" PROVE l \in 1..n
  BY <1>1
<1>2. ASSUME NEW j \in DOMAIN events PROVE events[j].line \in 1..(n + 1)
  <2>1. events[j].line \in 1..n
    BY DEF LinesGiven
  <2>2. QED  BY <2>1
<1>3. QED  BY <1>1, <1>2 DEF LinesGiven

\* Any other line gives one event.
LEMMA LineGives ==
  ASSUME NEW body, NEW n \in Nat, NEW events \in Seq(Event), LinesGiven(body, n, events),
         n + 1 \in DOMAIN body, body[n + 1] # "blank", EventOf(body, n + 1) \in Event
  PROVE  LinesGiven(body, n + 1, Append(events, EventOf(body, n + 1)))
<1>1. PICK e \in Event : e = EventOf(body, n + 1)
  OBVIOUS
<1>2. e.line = n + 1 /\ ~e.again /\ IsOfLine(e, body)
  BY <1>1 DEF EventOf, IsOfLine
<1>3. PICK new : new = Append(events, e)
  OBVIOUS
<1>4. /\ new \in Seq(Event) /\ Len(new) = Len(events) + 1 /\ new[Len(new)] = e
      /\ \A j \in 1..Len(events) : new[j] = events[j]
  BY <1>3, EventAppended
<1>5. \A j \in 1..Len(events) : events[j].line \in 1..n /\ IsOfLine(events[j], body)
  BY DEF LinesGiven
<1>6. ASSUME NEW j \in DOMAIN new
      PROVE  /\ new[j].line \in 1..(n + 1) /\ IsOfLine(new[j], body)
             /\ IF new[j].again
                THEN j > 1 /\ new[j - 1].line = new[j].line /\ ~new[j - 1].again
                ELSE \A i \in 1..(j - 1) : new[i].line < new[j].line
  <2>1. CASE j = Len(new)
    <3>1. \A i \in 1..(j - 1) : new[i].line < n + 1
      BY <1>4, <1>5, <2>1
    <3>2. QED  BY <1>2, <1>4, <2>1, <3>1
  <2>2. CASE j # Len(new)
    <3>1. j \in 1..Len(events) /\ \A i \in 1..j : new[i] = events[i]
      BY <1>4, <2>2
    <3>2. /\ events[j].line \in 1..n /\ IsOfLine(events[j], body)
          /\ IF events[j].again
             THEN j > 1 /\ events[j - 1].line = events[j].line /\ ~events[j - 1].again
             ELSE \A i \in 1..(j - 1) : events[i].line < events[j].line
      BY <3>1 DEF LinesGiven
    <3>3. new[j] = events[j] /\ (j > 1 => new[j - 1] = events[j - 1])
      BY <3>1
    <3>4. \A i \in 1..(j - 1) : new[i] = events[i]
      BY <3>1
    <3>5. new[j].line \in 1..(n + 1)
      BY <3>2, <3>3
    <3>6. QED  BY <3>2, <3>3, <3>4, <3>5
  <2>3. QED  BY <2>1, <2>2
<1>7. ASSUME NEW l \in 1..(n + 1), body[l] # "blank"
      PROVE  \E j \in DOMAIN new : new[j].line = l /\ ~new[j].again
  <2>1. CASE l = n + 1
    BY <1>2, <1>4, <2>1
  <2>2. CASE l # n + 1
    <3>1. l \in 1..n
      BY <2>2
    <3>2. PICK j \in 1..Len(events) : events[j].line = l /\ ~events[j].again
      BY <1>7, <3>1 DEF LinesGiven
    <3>3. j \in DOMAIN new /\ new[j] = events[j]
      BY <1>4
    <3>4. QED  BY <3>2, <3>3
  <2>3. QED  BY <2>1, <2>2
<1>8. LinesGiven(body, n + 1, new)
  BY <1>6, <1>7 DEF LinesGiven
<1>9. QED  BY <1>1, <1>3, <1>8

\* An event that onEvent throws on is given again.
LEMMA LineGivesAgain ==
  ASSUME NEW body, NEW n \in Nat \ {0}, NEW events \in Seq(Event), LinesGiven(body, n, events),
         n \in DOMAIN body, body[n] # "blank",
         Len(events) > 0, events[Len(events)].line = n, ~events[Len(events)].again
  PROVE  LinesGiven(body, n, Append(events, Thrown(n)))
<1>1. PICK e \in Event : e = Thrown(n)
  BY DEF Event, EventType, Thrown
<1>2. e.line = n /\ e.again /\ IsOfLine(e, body)
  BY <1>1 DEF Thrown, IsOfLine
<1>3. PICK new : new = Append(events, e)
  OBVIOUS
<1>4. /\ new \in Seq(Event) /\ Len(new) = Len(events) + 1 /\ new[Len(new)] = e
      /\ \A j \in 1..Len(events) : new[j] = events[j]
  BY <1>3, EventAppended
<1>5. ASSUME NEW j \in DOMAIN new
      PROVE  /\ new[j].line \in 1..n /\ IsOfLine(new[j], body)
             /\ IF new[j].again
                THEN j > 1 /\ new[j - 1].line = new[j].line /\ ~new[j - 1].again
                ELSE \A i \in 1..(j - 1) : new[i].line < new[j].line
  <2>1. CASE j = Len(new)
    <3>1. j - 1 = Len(events) /\ new[j - 1] = events[Len(events)] /\ new[j] = e /\ j > 1
      BY <1>4, <2>1
    <3>2. QED  BY <1>2, <3>1
  <2>2. CASE j # Len(new)
    <3>1. j \in 1..Len(events) /\ \A i \in 1..j : new[i] = events[i]
      BY <1>4, <2>2
    <3>2. /\ events[j].line \in 1..n /\ IsOfLine(events[j], body)
          /\ IF events[j].again
             THEN j > 1 /\ events[j - 1].line = events[j].line /\ ~events[j - 1].again
             ELSE \A i \in 1..(j - 1) : events[i].line < events[j].line
      BY <3>1 DEF LinesGiven
    <3>3. new[j] = events[j] /\ (j > 1 => new[j - 1] = events[j - 1])
      BY <3>1
    <3>4. \A i \in 1..(j - 1) : new[i] = events[i]
      BY <3>1
    <3>5. QED  BY <3>2, <3>3, <3>4
  <2>3. QED  BY <2>1, <2>2
<1>6. ASSUME NEW l \in 1..n, body[l] # "blank"
      PROVE  \E j \in DOMAIN new : new[j].line = l /\ ~new[j].again
  <2>1. PICK j \in 1..Len(events) : events[j].line = l /\ ~events[j].again
    BY <1>6 DEF LinesGiven
  <2>2. j \in DOMAIN new /\ new[j] = events[j]
    BY <1>4
  <2>3. QED  BY <2>1, <2>2
<1>7. LinesGiven(body, n, new)
  BY <1>5, <1>6 DEF LinesGiven
<1>8. QED  BY <1>1, <1>3, <1>7

\* A line of a body gives what its kind says, and again if onEvent throws.
LEMMA EventsOfLine ==
  ASSUME NEW body \in Seq(LineKind), NEW i \in DOMAIN body, NEW throws, NEW buffer \in Seq(Byte),
         Len(buffer) = Len(LineBytes(body[i], i)) - 1,
         \A k \in DOMAIN buffer : buffer[k] = LineBytes(body[i], i)[k]
  PROVE  /\ EventOf(body, i) \in Event /\ Thrown(i) \in Event
         /\ \/ body[i] = "blank" /\ EventsOf(buffer, body, throws) = <<>>
            \/ body[i] # "blank" /\ EventsOf(buffer, body, throws) = <<EventOf(body, i)>>
            \/ body[i] # "blank" /\ EventsOf(buffer, body, throws) = <<EventOf(body, i), Thrown(i)>>
<1>1. PICK kind \in LineKind : kind = body[i]
  OBVIOUS
<1>2. i \in Nat
  OBVIOUS
<1>3. EventOf(body, i) \in Event /\ Thrown(i) \in Event
  BY <1>1, <1>2 DEF EventOf, Thrown, Event, EventType, LineKind
<1>4. CASE kind = "blank"
  <2>1. buffer = <<>>
    BY <1>1, <1>4 DEF LineBytes
  <2>2. QED  BY <1>1, <1>3, <1>4, <2>1 DEF EventsOf
<1>5. CASE kind = "bad"
  <2>1. buffer = <<<<i, 1>>>>
    <3>1. PICK a, b : a = <<i, 1>> /\ b = <<i, 0>>
      OBVIOUS
    <3>2. LineBytes(kind, i) = <<a, b>>
      BY <1>5, <3>1 DEF LineBytes
    <3>3. Len(buffer) = 1 /\ buffer[1] = a
      BY <1>1, <3>2
    <3>4. buffer = <<a>>
      BY <3>3
    <3>5. QED  BY <3>1, <3>4
  <2>2. buffer # <<>> /\ buffer[1][1] = i /\ buffer # <<<<i, 1>>, <<i, 2>>>>
    BY <2>1
  <2>3. Parse(buffer, body) = "parse-error"
    BY <2>2 DEF Parse
  <2>4. EventsOf(buffer, body, throws) = <<EventOf(body, i)>>
    BY <1>1, <1>5, <2>2, <2>3 DEF EventsOf, EventOf
  <2>5. QED  BY <1>1, <1>3, <1>5, <2>4
<1>6. CASE kind # "blank" /\ kind # "bad"
  <2>1. buffer = <<<<i, 1>>, <<i, 2>>>>
    <3>1. PICK a, b, c : a = <<i, 1>> /\ b = <<i, 2>> /\ c = <<i, 0>>
      OBVIOUS
    <3>2. LineBytes(kind, i) = <<a, b, c>>
      BY <1>6, <3>1 DEF LineBytes
    <3>3. Len(buffer) = 2 /\ buffer[1] = a /\ buffer[2] = b
      BY <1>1, <3>2
    <3>4. buffer = <<a, b>>
      BY <3>3
    <3>5. QED  BY <3>1, <3>4
  <2>2. buffer # <<>> /\ buffer[1][1] = i
    BY <2>1
  <2>3. Parse(buffer, body) = kind
    BY <1>1, <2>1, <2>2 DEF Parse
  <2>4. EventOf(body, i) = [line |-> i, type |-> kind, again |-> FALSE] /\ kind # "parse-error"
    BY <1>1, <1>6 DEF EventOf, LineKind
  <2>5. Thrown(i) = [line |-> i, type |-> "parse-error", again |-> TRUE]
    BY DEF Thrown
  <2>6. CASE i \notin throws
    <3>1. EventsOf(buffer, body, throws) = <<EventOf(body, i)>>
      BY <2>2, <2>3, <2>4, <2>6 DEF EventsOf
    <3>2. QED  BY <1>1, <1>3, <1>6, <3>1
  <2>7. CASE i \in throws
    <3>1. EventsOf(buffer, body, throws) = <<EventOf(body, i), Thrown(i)>>
      BY <2>2, <2>3, <2>4, <2>5, <2>7 DEF EventsOf
    <3>2. QED  BY <1>1, <1>3, <1>6, <3>1
  <2>8. QED  BY <2>6, <2>7
<1>7. QED  BY <1>4, <1>5, <1>6

\* A stream has read the lines that it gave, and of the next one what is in its buffer.
ReadUpTo(off, n, body, read, buffer, events) ==
  /\ Offsets(off, body) /\ n \in 0..Len(body)
  /\ LinesGiven(body, n, events)
  /\ read = off[n] + Len(buffer)
  /\ n = Len(body) => buffer = <<>>
  /\ n < Len(body) => Len(buffer) < Len(LineBytes(body[n + 1], n + 1))
  /\ \A k \in DOMAIN buffer : buffer[k] = LineBytes(body[n + 1], n + 1)[k]
Reading(body, read, buffer, events) == \E off, n : ReadUpTo(off, n, body, read, buffer, events)

\* The lines given, when the one in the buffer is whole.
LEMMA LineIsWhole ==
  ASSUME NEW body \in Seq(LineKind), NEW n \in Nat, n + 1 \in DOMAIN body, NEW throws,
         NEW buffer \in Seq(Byte), NEW events \in Seq(Event), LinesGiven(body, n, events),
         Len(buffer) = Len(LineBytes(body[n + 1], n + 1)) - 1,
         \A k \in DOMAIN buffer : buffer[k] = LineBytes(body[n + 1], n + 1)[k]
  PROVE  /\ EventsOf(buffer, body, throws) \in Seq(Event)
         /\ LinesGiven(body, n + 1, events \o EventsOf(buffer, body, throws))
<1>1. PICK i \in DOMAIN body : i = n + 1 /\ i \in Nat \ {0}
  OBVIOUS
<1>2. PICK given : given = EventsOf(buffer, body, throws)
  OBVIOUS
<1>3. /\ EventOf(body, i) \in Event /\ Thrown(i) \in Event
      /\ \/ body[i] = "blank" /\ given = <<>>
         \/ body[i] # "blank" /\ given = <<EventOf(body, i)>>
         \/ body[i] # "blank" /\ given = <<EventOf(body, i), Thrown(i)>>
  BY <1>1, <1>2, EventsOfLine
<1>4. CASE body[i] = "blank" /\ given = <<>>
  <2>1. LinesGiven(body, i, events)
    BY <1>1, <1>4, BlankGives
  <2>2. events \o given = events /\ given \in Seq(Event)
    BY <1>4
  <2>3. QED  BY <1>1, <1>2, <2>1, <2>2
<1>5. ASSUME body[i] # "blank"
      PROVE  LinesGiven(body, i, Append(events, EventOf(body, i)))
  BY <1>1, <1>3, <1>5, LineGives
<1>6. PICK e \in Event : e = EventOf(body, i)
  BY <1>3
<1>7. e.line = i /\ ~e.again
  BY <1>6 DEF EventOf
<1>8. CASE body[i] # "blank" /\ given = <<EventOf(body, i)>>
  <2>1. events \o <<e>> = Append(events, e) /\ <<e>> \in Seq(Event)
    OBVIOUS
  <2>2. QED  BY <1>1, <1>2, <1>5, <1>6, <1>8, <2>1
<1>9. CASE body[i] # "blank" /\ given = <<EventOf(body, i), Thrown(i)>>
  <2>1. PICK f \in Event : f = Thrown(i)
    BY <1>3
  <2>2. PICK new : new = Append(events, e)
    OBVIOUS
  <2>3. new \in Seq(Event) /\ Len(new) > 0 /\ new[Len(new)] = e
    BY <2>2, EventAppended
  <2>4. LinesGiven(body, i, new)
    BY <1>5, <1>6, <1>9, <2>2
  <2>5. LinesGiven(body, i, Append(new, f))
    BY <1>1, <1>7, <1>9, <2>1, <2>3, <2>4, LineGivesAgain
  <2>6. events \o <<e, f>> = Append(new, f) /\ <<e, f>> \in Seq(Event)
    BY <2>2
  <2>7. QED  BY <1>1, <1>2, <1>6, <1>9, <2>1, <2>5, <2>6
<1>10. QED  BY <1>3, <1>4, <1>8, <1>9

\* The place of a byte that comes behind c others.
LEMMA NextPlace ==
  \A o, c \in Nat : (o + c) + 1 = o + (c + 1)
OBVIOUS

\* A byte that is no newline goes into the buffer; a newline makes its line whole.
LEMMA ByteRead ==
  ASSUME NEW body \in Seq(LineKind), NEW read \in Nat, NEW throws,
         NEW buffer \in Seq(Byte), NEW events \in Seq(Event),
         Reading(body, read, buffer, events), read < Len(Wire(body)),
         NEW b, b = Wire(body)[read + 1]
  PROVE  /\ b \in Byte
         /\ b[2] # 0 => Reading(body, read + 1, Append(buffer, b), events)
         /\ b[2] = 0 => /\ EventsOf(buffer, body, throws) \in Seq(Event)
                        /\ Reading(body, read + 1, <<>>, events \o EventsOf(buffer, body, throws))
<1>1. PICK off, n : ReadUpTo(off, n, body, read, buffer, events)
  BY DEF Reading
<1>2. /\ Offsets(off, body) /\ n \in 0..Len(body)
      /\ LinesGiven(body, n, events)
      /\ read = off[n] + Len(buffer)
      /\ n = Len(body) => buffer = <<>>
      /\ n < Len(body) => Len(buffer) < Len(LineBytes(body[n + 1], n + 1))
      /\ \A k \in DOMAIN buffer : buffer[k] = LineBytes(body[n + 1], n + 1)[k]
  BY <1>1 DEF ReadUpTo
<1>3. off \in [0..Len(body) -> Nat] /\ off[Len(body)] = Len(Wire(body))
  BY <1>2 DEF Offsets
<1>4. PICK o \in Nat, c \in Nat : o = off[n] /\ c = Len(buffer) /\ read = o + c
  <2>1. off[n] \in Nat /\ Len(buffer) \in Nat
    BY <1>2, <1>3
  <2>2. QED  BY <1>2, <2>1
<1>5. n \in Nat /\ n < Len(body) /\ n + 1 \in 1..Len(body) /\ n + 1 \in DOMAIN body
  <2>1. n # Len(body)
    BY <1>2, <1>3
  <2>2. QED  BY <1>2, <2>1
<1>6. PICK i \in DOMAIN body : i = n + 1 /\ i \in 1..Len(body) /\ i \in 0..Len(body)
  BY <1>5
<1>7. PICK line : line = LineBytes(body[i], i)
  OBVIOUS
<1>8. /\ line \in Seq(Byte) /\ Len(line) \in Nat \ {0}
      /\ \A k \in 1..Len(line) : line[k][2] = 0 <=> k = Len(line)
  <2>1. body[i] \in LineKind /\ i \in Nat
    BY <1>6
  <2>2. QED  BY <1>7, <2>1, LineEndsOnce
<1>9. Len(buffer) < Len(line) /\ \A k \in DOMAIN buffer : buffer[k] = line[k]
  BY <1>2, <1>5, <1>6, <1>7
<1>10. PICK k \in Nat : k \in 1..Len(line) /\ k = Len(buffer) + 1 /\ read + 1 = o + k
  <2>1. PICK k \in Nat : k \in 1..Len(line) /\ k = Len(buffer) + 1
    BY <1>8, <1>9
  <2>2. k = c + 1
    BY <1>4, <2>1
  <2>3. (o + c) + 1 = o + (c + 1)
    BY <1>4, NextPlace, Zenon
  <2>4. read + 1 = o + k
    BY <1>4, <2>2, <2>3, Zenon
  <2>5. QED  BY <2>1, <2>4
<1>11. b = line[k] /\ off[i] = off[n] + Len(line)
  <2>1. Wire(body)[off[i - 1] + k] = line[k] /\ off[i] = off[i - 1] + Len(line)
    <3>1. k \in 1..Len(LineBytes(body[i], i))
      BY <1>7, <1>10
    <3>2. Offsets(off, body)
      BY <1>2
    <3>3. /\ Wire(body)[off[i - 1] + k] = LineBytes(body[i], i)[k]
          /\ off[i] = off[i - 1] + Len(LineBytes(body[i], i))
      BY <1>6, <3>1, <3>2 DEF Offsets
    <3>4. QED  BY <1>7, <3>3
  <2>2. i - 1 = n
    BY <1>5, <1>6
  <2>3. off[i - 1] + k = read + 1
    <3>1. off[i - 1] = o
      BY <1>4, <2>2, Zenon
    <3>2. QED  BY <1>10, <3>1, Zenon
  <2>4. QED  BY <2>1, <2>2, <2>3
<1>12. b \in Byte
  BY <1>8, <1>10, <1>11
<1>13. ASSUME b[2] # 0 PROVE Reading(body, read + 1, Append(buffer, b), events)
  <2>1. k < Len(line)
    BY <1>8, <1>10, <1>11, <1>13
  <2>2. PICK more : more = Append(buffer, b)
    OBVIOUS
  <2>3. Len(more) = k /\ \A j \in DOMAIN more : more[j] = line[j]
    BY <1>9, <1>10, <1>11, <1>12, <2>2
  <2>4. read + 1 = off[n] + Len(more)
    BY <1>4, <1>10, <2>3, Zenon
  <2>5. ReadUpTo(off, n, body, read + 1, more, events)
    BY <1>2, <1>5, <1>6, <1>7, <2>1, <2>3, <2>4 DEF ReadUpTo
  <2>6. QED  BY <2>2, <2>5 DEF Reading
<1>14. ASSUME b[2] = 0
       PROVE  /\ EventsOf(buffer, body, throws) \in Seq(Event)
              /\ Reading(body, read + 1, <<>>, events \o EventsOf(buffer, body, throws))
  <2>1. k = Len(line)
    BY <1>8, <1>10, <1>11, <1>14
  <2>2. Len(buffer) = Len(line) - 1
    BY <1>10, <2>1
  <2>3. PICK given : given = EventsOf(buffer, body, throws)
    OBVIOUS
  <2>4. given \in Seq(Event) /\ LinesGiven(body, i, events \o given)
    BY <1>2, <1>5, <1>6, <1>7, <1>9, <2>2, <2>3, LineIsWhole
  <2>5. read + 1 = off[i] + Len(<<>>)
    <3>1. off[i] = o + k
      BY <1>4, <1>11, <2>1, Zenon
    <3>2. PICK q \in Nat : q = off[i] /\ q = read + 1
      BY <1>10, <3>1
    <3>3. q = q + Len(<<>>)
      OBVIOUS
    <3>4. QED  BY <3>2, <3>3, Zenon
  <2>6. i < Len(body) => Len(<<>>) < Len(LineBytes(body[i + 1], i + 1))
    <3>1. SUFFICES ASSUME i < Len(body) PROVE Len(LineBytes(body[i + 1], i + 1)) \in Nat \ {0}
      OBVIOUS
    <3>2. body[i + 1] \in LineKind /\ i + 1 \in Nat
      BY <1>6, <3>1
    <3>3. QED  BY <3>2, LineEndsOnce
  <2>7. \A j \in DOMAIN <<>> : <<>>[j] = LineBytes(body[i + 1], i + 1)[j]
    OBVIOUS
  <2>8. ReadUpTo(off, i, body, read + 1, <<>>, events \o given)
    BY <1>2, <1>6, <2>4, <2>5, <2>6, <2>7 DEF ReadUpTo
  <2>9. QED  BY <2>3, <2>4, <2>8 DEF Reading
<1>15. QED  BY <1>12, <1>13, <1>14

\* What may be given for any line at all.
LEMMA SomeEvents ==
  ASSUME NEW body, NEW throws
  PROVE  \E E : \A line \in Seq(Byte) : EventsOf(line, body, throws) \in Seq(E)
<1>1. PICK E : E = [line : {l[1][1] : l \in Seq(Byte)}, again : BOOLEAN,
                    type : {Parse(l, body) : l \in Seq(Byte)} \cup {"parse-error"}]
  OBVIOUS
<1>2. SUFFICES ASSUME NEW line \in Seq(Byte) PROVE EventsOf(line, body, throws) \in Seq(E)
  OBVIOUS
<1>3. PICK e : e = [line |-> line[1][1], type |-> Parse(line, body), again |-> FALSE]
  OBVIOUS
<1>4. PICK t : t = [line |-> line[1][1], type |-> "parse-error", again |-> TRUE]
  OBVIOUS
<1>5. e \in E /\ t \in E
  <2>1. line[1][1] \in {l[1][1] : l \in Seq(Byte)} /\ Parse(line, body) \in {Parse(l, body) : l \in Seq(Byte)}
    OBVIOUS
  <2>2. QED  BY <1>1, <1>3, <1>4, <2>1
<1>6. <<>> \in Seq(E) /\ <<e>> \in Seq(E) /\ <<e, t>> \in Seq(E)
  BY <1>5
<1>7. EventsOf(line, body, throws) \in {<<>>, <<e>>, <<e, t>>}
  BY <1>3, <1>4 DEF EventsOf
<1>8. QED  BY <1>6, <1>7

\* What the loop over the bytes of a text leaves after each of them.
ByBytes(f, text, body, throws) ==
  f = [k \in 0..Len(text) |->
         IF k = 0 THEN [given |-> <<>>, rest |-> <<>>]
         ELSE IF text[k][2] = 0
         THEN [given |-> f[k - 1].given \o EventsOf(f[k - 1].rest, body, throws), rest |-> <<>>]
         ELSE [given |-> f[k - 1].given, rest |-> Append(f[k - 1].rest, text[k])]]

\* The loop ends.
LEMMA LoopEnds ==
  ASSUME NEW text \in Seq(Byte), NEW body, NEW throws
  PROVE  \E f : ByBytes(f, text, body, throws)
<1>1. PICK E : \A line \in Seq(Byte) : EventsOf(line, body, throws) \in Seq(E)
  BY SomeEvents
<1>2. PICK m \in Nat : m = Len(text)
  OBVIOUS
<1>3. PICK T : T = [given : Seq(E), rest : Seq(Byte)]
  OBVIOUS
<1> DEFINE After(r, k) ==
      IF text[k][2] = 0 THEN [given |-> r.given \o EventsOf(r.rest, body, throws), rest |-> <<>>]
      ELSE [given |-> r.given, rest |-> Append(r.rest, text[k])]
<1>4. ASSUME NEW k \in 1..m, NEW r \in T PROVE After(r, k) \in T
  <2>1. r.given \in Seq(E) /\ r.rest \in Seq(Byte) /\ text[k] \in Byte
    BY <1>2, <1>3
  <2>2. EventsOf(r.rest, body, throws) \in Seq(E)
    BY <1>1, <2>1
  <2>3. /\ r.given \o EventsOf(r.rest, body, throws) \in Seq(E) /\ <<>> \in Seq(Byte)
        /\ Append(r.rest, text[k]) \in Seq(Byte)
    BY <2>1, <2>2
  <2>4. QED  BY <1>3, <2>1, <2>3
<1>5. PICK x \in T : x = [given |-> <<>>, rest |-> <<>>]
  <2>1. <<>> \in Seq(E) /\ <<>> \in Seq(Byte)
    OBVIOUS
  <2>2. QED  BY <1>3, <2>1
<1> HIDE DEF After
<1>6. PICK step : step = [k \in 1..m |-> [r \in T |-> After(r, k)]]
  OBVIOUS
<1>7. step \in [1..m -> [T -> T]] /\ \A k \in 1..m : \A r \in T : step[k][r] = After(r, k)
  BY <1>4, <1>6
<1>8. PICK g : Made(g, T, x, m, step)
  BY <1>7, StepByStep
<1>9. g \in [0..m -> T] /\ g[0] = x /\ \A k \in 1..m : g[k] = step[k][g[k - 1]]
  BY <1>8 DEF Made
<1>10. ASSUME NEW k \in 1..m PROVE g[k] = After(g[k - 1], k)
  <2>1. k - 1 \in 0..m
    OBVIOUS
  <2>2. g[k - 1] \in T
    BY <1>9, <2>1
  <2>3. QED  BY <1>7, <1>9, <2>2
<1>11. g = [k \in 0..m |-> IF k = 0 THEN x ELSE After(g[k - 1], k)]
  <2>1. ASSUME NEW k \in 0..m PROVE g[k] = IF k = 0 THEN x ELSE After(g[k - 1], k)
    <3>1. CASE k = 0
      BY <1>9, <3>1
    <3>2. CASE k # 0
      <4>1. k \in 1..m
        BY <3>2
      <4>2. QED  BY <1>10, <3>2, <4>1
    <3>3. QED  BY <3>1, <3>2
  <2>2. QED  BY <1>9, <2>1
<1>12. ByBytes(g, text, body, throws)
  BY <1>2, <1>5, <1>11, Zenon DEF ByBytes, After
<1>13. QED  BY <1>12

Regrouped(a, b, c) == (a \o b) \o c = a \o (b \o c)
\* Events are given in any number of pieces.
LEMMA EventsJoined ==
  \A a, b, c \in Seq(Event) : Regrouped(a, b, c)
BY DEF Regrouped

\* A text that starts where a line does gives its lines.
LEMMA TextRead ==
  ASSUME NEW body \in Seq(LineKind), NEW start \in Nat, NEW throws, NEW text \in Seq(Byte),
         NEW events \in Seq(Event), Reading(body, start, <<>>, events),
         start + Len(text) <= Len(Wire(body)),
         \A j \in DOMAIN text : text[j] = Wire(body)[start + j]
  PROVE  LET lines == LinesOf(text, body, throws) IN
         /\ lines.given \in Seq(Event) /\ lines.rest \in Seq(Byte)
         /\ Reading(body, start + Len(text), lines.rest, events \o lines.given)
<1>1. PICK m \in Nat : m = Len(text)
  OBVIOUS
<1>2. PICK f : ByBytes(f, text, body, throws) /\ LinesOf(text, body, throws) = f[m]
  <2> DEFINE upTo == CHOOSE f : ByBytes(f, text, body, throws)
  <2>1. ByBytes(upTo, text, body, throws)
    BY LoopEnds
  <2>2. LinesOf(text, body, throws) = upTo[Len(text)]
    BY DEF LinesOf, ByBytes
  <2> HIDE DEF upTo
  <2>3. QED  BY <1>1, <2>1, <2>2
<1>3. f = [k \in 0..m |->
             IF k = 0 THEN [given |-> <<>>, rest |-> <<>>]
             ELSE IF text[k][2] = 0
             THEN [given |-> f[k - 1].given \o EventsOf(f[k - 1].rest, body, throws), rest |-> <<>>]
             ELSE [given |-> f[k - 1].given, rest |-> Append(f[k - 1].rest, text[k])]]
  BY <1>1, <1>2 DEF ByBytes
<1>4. \A k \in 0..m : f[k] =
             IF k = 0 THEN [given |-> <<>>, rest |-> <<>>]
             ELSE IF text[k][2] = 0
             THEN [given |-> f[k - 1].given \o EventsOf(f[k - 1].rest, body, throws), rest |-> <<>>]
             ELSE [given |-> f[k - 1].given, rest |-> Append(f[k - 1].rest, text[k])]
  BY <1>3, Zenon
<1> DEFINE Good(k) == /\ f[k].given \in Seq(Event) /\ f[k].rest \in Seq(Byte)
                      /\ Reading(body, start + k, f[k].rest, events \o f[k].given)
<1>5. Good(0)
  <2>1. f[0].given = <<>> /\ f[0].rest = <<>>
    <3>1. 0 \in 0..m
      OBVIOUS
    <3>2. f[0] = [given |-> <<>>, rest |-> <<>>]
      BY <1>4, <3>1
    <3>3. QED  BY <3>2
  <2>2. start + 0 = start /\ events \o <<>> = events /\ <<>> \in Seq(Event) /\ <<>> \in Seq(Byte)
    OBVIOUS
  <2>3. QED  BY <2>1, <2>2
<1> HIDE DEF Good
<1>6. ASSUME NEW k \in 1..m, Good(k - 1) PROVE Good(k)
  <2>1. PICK given \in Seq(Event), rest \in Seq(Byte) : given = f[k - 1].given /\ rest = f[k - 1].rest
    BY <1>6 DEF Good
  <2>2. PICK read \in Nat : read = start + (k - 1) /\ read + 1 = start + k /\ read < Len(Wire(body))
    BY <1>1
  <2>3. PICK told \in Seq(Event) : told = events \o given
    <3>1. given \in Seq(Event)
      BY <2>1
    <3>2. events \o given \in Seq(Event)
      BY <3>1
    <3>3. QED  BY <3>2
  <2>4. Reading(body, read, rest, told)
    BY <1>6, <2>1, <2>2, <2>3 DEF Good
  <2>5. PICK b : b = text[k] /\ b = Wire(body)[read + 1]
    <3>1. k \in DOMAIN text
      BY <1>1
    <3>2. text[k] = Wire(body)[start + k]
      BY <3>1
    <3>3. QED  BY <2>2, <3>2
  <2>6. /\ b \in Byte
        /\ b[2] # 0 => Reading(body, read + 1, Append(rest, b), told)
        /\ b[2] = 0 => /\ EventsOf(rest, body, throws) \in Seq(Event)
                       /\ Reading(body, read + 1, <<>>, told \o EventsOf(rest, body, throws))
    BY <2>2, <2>4, <2>5, ByteRead
  <2>7. f[k] = IF b[2] = 0 THEN [given |-> given \o EventsOf(rest, body, throws), rest |-> <<>>]
               ELSE [given |-> given, rest |-> Append(rest, b)]
    <3>1. k \in 0..m /\ k # 0
      OBVIOUS
    <3>2. QED  BY <1>4, <2>1, <2>5, <3>1
  <2>8. CASE b[2] = 0
    <3>1. PICK more \in Seq(Event) : more = EventsOf(rest, body, throws)
      BY <2>6, <2>8
    <3>2. f[k].given = given \o more /\ f[k].rest = <<>>
      BY <2>7, <2>8, <3>1
    <3>3. told \o more = events \o (given \o more) /\ given \o more \in Seq(Event) /\ <<>> \in Seq(Byte)
      <4>1. given \in Seq(Event) /\ <<>> \in Seq(Byte)
        BY <2>1
      <4>2. more \in Seq(Event) /\ events \in Seq(Event)
        BY <3>1
      <4>3. given \o more \in Seq(Event)
        BY <4>1, <4>2
      <4>4. (events \o given) \o more = events \o (given \o more)
        <5>1. Regrouped(events, given, more)
          BY <4>1, <4>2, EventsJoined, Zenon
        <5>2. QED  BY <5>1 DEF Regrouped
      <4>5. QED  BY <2>3, <4>1, <4>3, <4>4
    <3>4. Reading(body, start + k, <<>>, told \o more)
      BY <2>2, <2>6, <2>8, <3>1
    <3>5. QED  BY <3>2, <3>3, <3>4 DEF Good
  <2>9. CASE b[2] # 0
    <3>1. f[k].given = given /\ f[k].rest = Append(rest, b)
      BY <2>7, <2>9
    <3>2. Append(rest, b) \in Seq(Byte)
      BY <2>6
    <3>3. Reading(body, start + k, Append(rest, b), told)
      BY <2>2, <2>6, <2>9
    <3>4. QED  BY <2>3, <3>1, <3>2, <3>3 DEF Good
  <2>10. QED  BY <2>8, <2>9
<1>7. \A k \in 0..m : Good(k)
  <2> DEFINE Bad == {k \in Nat : k \in 0..m /\ ~Good(k)}
  <2>1. SUFFICES ASSUME NEW i \in Nat, i \in 0..m, ~Good(i) PROVE FALSE
    <3>1. \A i \in 0..m : i \in Nat
      OBVIOUS
    <3>2. QED  BY <2>1, <3>1, Zenon
  <2>2. PICK k \in Bad : \A j \in Bad : k <= j
    <3>1. i \in Bad
      BY <2>1
    <3>2. QED  BY <3>1, NatLeast
  <2>3. k \in 0..m /\ ~Good(k)
    BY <2>2
  <2>4. k # 0
    BY <1>5, <2>3
  <2>5. k \in 1..m /\ k - 1 \in Nat /\ k - 1 \in 0..m /\ ~(k <= k - 1)
    BY <2>3, <2>4
  <2>6. Good(k - 1)
    BY <2>2, <2>5
  <2>7. QED  BY <1>6, <2>3, <2>5, <2>6
<1>8. Good(m)
  BY <1>7
<1>9. QED  BY <1>1, <1>2, <1>8 DEF Good

\* What is in the buffer is what was read of its line.
LEMMA BufferIsOfLine ==
  ASSUME NEW body \in Seq(LineKind), NEW read \in Nat, NEW buffer \in Seq(Byte), NEW events,
         Reading(body, read, buffer, events)
  PROVE  \E start \in Nat : /\ read = start + Len(buffer) /\ Reading(body, start, <<>>, events)
                            /\ \A j \in DOMAIN buffer : buffer[j] = Wire(body)[start + j]
<1>1. PICK off, n : ReadUpTo(off, n, body, read, buffer, events)
  BY DEF Reading
<1>2. /\ Offsets(off, body) /\ n \in 0..Len(body) /\ LinesGiven(body, n, events)
      /\ read = off[n] + Len(buffer)
      /\ n = Len(body) => buffer = <<>>
      /\ n < Len(body) => Len(buffer) < Len(LineBytes(body[n + 1], n + 1))
      /\ \A k \in DOMAIN buffer : buffer[k] = LineBytes(body[n + 1], n + 1)[k]
  BY <1>1 DEF ReadUpTo
<1>3. PICK start \in Nat : start = off[n]
  BY <1>2 DEF Offsets
<1>4. Reading(body, start, <<>>, events)
  <2>1. n < Len(body) => Len(<<>>) < Len(LineBytes(body[n + 1], n + 1))
    <3>1. SUFFICES ASSUME n < Len(body) PROVE Len(LineBytes(body[n + 1], n + 1)) \in Nat \ {0}
      OBVIOUS
    <3>2. body[n + 1] \in LineKind /\ n + 1 \in Nat
      BY <1>2, <3>1
    <3>3. QED  BY <3>2, LineEndsOnce
  <2>2. \A j \in DOMAIN <<>> : <<>>[j] = LineBytes(body[n + 1], n + 1)[j]
    OBVIOUS
  <2>3. start = off[n] + Len(<<>>)
    BY <1>3
  <2>4. ReadUpTo(off, n, body, start, <<>>, events)
    BY <1>2, <2>1, <2>2, <2>3 DEF ReadUpTo
  <2>5. QED  BY <2>4 DEF Reading
<1>5. ASSUME NEW j \in DOMAIN buffer PROVE buffer[j] = Wire(body)[start + j]
  <2>1. n # Len(body)
    BY <1>2
  <2>2. PICK i \in 1..Len(body) : i = n + 1 /\ i - 1 = n
    BY <1>2, <2>1
  <2>3. j \in 1..Len(LineBytes(body[i], i)) /\ buffer[j] = LineBytes(body[i], i)[j]
    <3>1. Len(buffer) < Len(LineBytes(body[i], i))
      BY <1>2, <2>1, <2>2
    <3>2. body[i] \in LineKind /\ i \in Nat
      BY <2>2
    <3>3. Len(LineBytes(body[i], i)) \in Nat
      BY <3>2, LineEndsOnce
    <3>4. j \in 1..Len(LineBytes(body[i], i))
      BY <3>1, <3>3
    <3>5. QED  BY <1>2, <2>2, <3>4
  <2>4. Wire(body)[off[i - 1] + j] = LineBytes(body[i], i)[j]
    BY <1>2, <2>2, <2>3 DEF Offsets
  <2>5. off[i - 1] = start
    BY <1>3, <2>2
  <2>6. QED  BY <2>3, <2>4, <2>5
<1>6. read = start + Len(buffer)
  BY <1>2, <1>3
<1>7. QED  BY <1>4, <1>5, <1>6

\* A chunk comes behind what is in the buffer.
LEMMA BytesJoined ==
  \A a, b \in Seq(Byte) :
    /\ a \o b \in Seq(Byte) /\ Len(a \o b) = Len(a) + Len(b)
    /\ \A j \in 1..Len(a) : (a \o b)[j] = a[j]
    /\ \A j \in 1..Len(b) : (a \o b)[Len(a) + j] = b[j]
OBVIOUS

OnWire(text, at, wire) == \A j \in 1..Len(text) : text[j] = wire[at + j]

\* The buffer and the chunk stand on the wire one behind the other.
LEMMA TextOnWire ==
  ASSUME NEW wire, NEW buffer \in Seq(Byte), NEW chunk \in Seq(Byte), NEW start \in Nat,
         OnWire(buffer, start, wire), OnWire(chunk, start + Len(buffer), wire)
  PROVE  OnWire(buffer \o chunk, start, wire)
<1>1. Len(buffer \o chunk) = Len(buffer) + Len(chunk)
  BY BytesJoined, Zenon
<1>2. SUFFICES ASSUME NEW j \in 1..(Len(buffer) + Len(chunk))
               PROVE  (buffer \o chunk)[j] = wire[start + j]
  BY <1>1 DEF OnWire
<1>3. /\ \A i \in 1..Len(buffer) : buffer[i] = wire[start + i]
      /\ \A i \in 1..Len(chunk) : chunk[i] = wire[(start + Len(buffer)) + i]
  BY DEF OnWire
<1>4. CASE j <= Len(buffer)
  BY <1>4, <1>3
<1>5. CASE j > Len(buffer)
  <2>1. PICK i \in 1..Len(chunk) : j = Len(buffer) + i
    <3>1. j - Len(buffer) \in 1..Len(chunk) /\ j = Len(buffer) + (j - Len(buffer))
      BY <1>5
    <3>2. QED  BY <3>1
  <2>2. (buffer \o chunk)[Len(buffer) + i] = chunk[i]
    BY BytesJoined, Zenon
  <2>3. (start + Len(buffer)) + i = start + (Len(buffer) + i)
    OBVIOUS
  <2>4. QED  BY <1>3, <2>1, <2>2, <2>3
<1>6. QED  BY <1>4, <1>5

\* The bytes of a chunk.
LEMMA ChunkOfWire ==
  ASSUME NEW wire \in Seq(Byte), NEW read \in Nat, NEW k \in Nat, read + k <= Len(wire)
  PROVE  LET chunk == SubSeq(wire, read + 1, read + k) IN
         /\ chunk \in Seq(Byte) /\ Len(chunk) = k
         /\ \A j \in 1..k : chunk[j] = wire[read + j]
OBVIOUS

\* A chunk is read.
LEMMA ChunkRead ==
  ASSUME NEW body \in Seq(LineKind), NEW read \in Nat, NEW k \in Nat, NEW throws,
         NEW buffer \in Seq(Byte), NEW events \in Seq(Event), Reading(body, read, buffer, events),
         read + k <= Len(Wire(body)),
         NEW lines, lines = LinesOf(buffer \o SubSeq(Wire(body), read + 1, read + k), body, throws)
  PROVE  /\ lines.given \in Seq(Event) /\ lines.rest \in Seq(Byte)
         /\ Reading(body, read + k, lines.rest, events \o lines.given)
<1>1. PICK start \in Nat : /\ read = start + Len(buffer) /\ Reading(body, start, <<>>, events)
                           /\ \A j \in DOMAIN buffer : buffer[j] = Wire(body)[start + j]
  BY BufferIsOfLine
<1>2. PICK wire : wire = Wire(body) /\ wire \in Seq(Byte)
  BY LinesOnTheWire
<1>3. PICK chunk : chunk = SubSeq(wire, read + 1, read + k)
  OBVIOUS
<1>4. /\ chunk \in Seq(Byte) /\ Len(chunk) = k
      /\ \A j \in 1..k : chunk[j] = wire[read + j]
  <2>1. wire \in Seq(Byte) /\ read + k <= Len(wire)
    BY <1>2
  <2>2. QED  BY <1>3, <2>1, ChunkOfWire
<1>5. PICK text : text = buffer \o chunk
  OBVIOUS
<1>6. text \in Seq(Byte) /\ Len(text) = Len(buffer) + Len(chunk)
  <2>1. chunk \in Seq(Byte)
    BY <1>4
  <2>2. buffer \o chunk \in Seq(Byte) /\ Len(buffer \o chunk) = Len(buffer) + Len(chunk)
    BY <2>1, BytesJoined, Zenon
  <2>3. QED  BY <1>5, <2>2
<1>7. \A j \in DOMAIN text : text[j] = wire[start + j]
  <2>1. chunk \in Seq(Byte)
    BY <1>4
  <2>2. OnWire(chunk, start + Len(buffer), wire)
    BY <1>1, <1>4 DEF OnWire
  <2>3. OnWire(buffer, start, wire)
    BY <1>1, <1>2 DEF OnWire
  <2>4. OnWire(text, start, wire)
    BY <1>5, <2>1, <2>2, <2>3, TextOnWire
  <2>5. QED  BY <1>6, <2>4 DEF OnWire
<1>8. start + Len(text) = read + k
  BY <1>1, <1>4, <1>6
<1>9. lines = LinesOf(text, body, throws)
  BY <1>2, <1>3, <1>5
<1>10. /\ lines.given \in Seq(Event) /\ lines.rest \in Seq(Byte)
       /\ Reading(body, start + Len(text), lines.rest, events \o lines.given)
  <2>1. start + Len(text) <= Len(Wire(body))
    BY <1>8
  <2>2. text \in Seq(Byte) /\ \A j \in DOMAIN text : text[j] = Wire(body)[start + j]
    BY <1>2, <1>6, <1>7
  <2>3. Reading(body, start, <<>>, events)
    BY <1>1
  <2>4. LET told == LinesOf(text, body, throws) IN
        /\ told.given \in Seq(Event) /\ told.rest \in Seq(Byte)
        /\ Reading(body, start + Len(text), told.rest, events \o told.given)
    BY <2>1, <2>2, <2>3, TextRead
  <2>5. QED  BY <1>9, <2>4
<1>11. QED  BY <1>8, <1>10

\* A stream has read nothing when it is opened.
LEMMA NothingRead ==
  ASSUME NEW body \in Seq(LineKind)
  PROVE  Reading(body, 0, <<>>, <<>>)
<1>1. PICK off : Offsets(off, body)
  BY LinesOnTheWire
<1>2. 0 = off[0] + Len(<<>>) /\ 0 \in 0..Len(body)
  BY <1>1 DEF Offsets
<1>3. LinesGiven(body, 0, <<>>)
  BY DEF LinesGiven
<1>4. 0 < Len(body) => Len(<<>>) < Len(LineBytes(body[0 + 1], 0 + 1))
  <2>1. SUFFICES ASSUME 0 < Len(body) PROVE Len(LineBytes(body[1], 1)) \in Nat \ {0}
    OBVIOUS
  <2>2. body[1] \in LineKind /\ 1 \in Nat
    BY <2>1
  <2>3. QED  BY <2>2, LineEndsOnce
<1>5. ReadUpTo(off, 0, body, 0, <<>>, <<>>)
  BY <1>1, <1>2, <1>3, <1>4 DEF ReadUpTo
<1>6. QED  BY <1>5 DEF Reading

\* Every line ends within the body.
LEMMA OffsetsBounded ==
  ASSUME NEW body \in Seq(LineKind), NEW off, Offsets(off, body), NEW i \in 0..Len(body)
  PROVE  off[i] <= Len(Wire(body))
<1>1. PICK n \in Nat, w \in Nat : n = Len(body) /\ w = Len(Wire(body))
  <2>1. Wire(body) \in Seq(Byte)
    BY LinesOnTheWire
  <2>2. QED  BY <2>1
<1>2. off \in [0..n -> Nat] /\ off[n] = w
  BY <1>1 DEF Offsets
<1> DEFINE Bad == {d \in Nat : d \in 0..n /\ ~(off[n - d] <= w)}
<1>3. Bad = {}
  <2>1. SUFFICES ASSUME Bad # {} PROVE FALSE
    OBVIOUS
  <2>2. PICK d \in Bad : \A e \in Bad : d <= e
    BY <2>1, NatLeast
  <2>3. d \in 0..n /\ ~(off[n - d] <= w)
    BY <2>2
  <2>4. d # 0
    BY <1>2, <2>3
  <2>5. d - 1 \in Nat /\ d - 1 \in 0..n /\ ~(d <= d - 1)
    BY <2>3, <2>4
  <2>6. off[n - (d - 1)] <= w
    BY <2>2, <2>5
  <2>7. PICK j \in 1..n : j = n - (d - 1) /\ j - 1 = n - d
    BY <2>3, <2>4
  <2>8. off[j] = off[j - 1] + Len(LineBytes(body[j], j))
    BY <1>1, <2>7 DEF Offsets
  <2>9. Len(LineBytes(body[j], j)) \in Nat
    <3>1. body[j] \in LineKind /\ j \in Nat
      BY <1>1
    <3>2. QED  BY <3>1, LineEndsOnce
  <2>10. off[j - 1] \in Nat /\ off[j] \in Nat
    BY <1>2, <2>7
  <2>11. off[j - 1] <= w
    BY <1>1, <2>6, <2>7, <2>8, <2>9, <2>10
  <2>12. QED  BY <2>3, <2>7, <2>11
<1>4. PICK d \in 0..n : n - d = i
  <2>1. n - i \in 0..n /\ n - (n - i) = i
    BY <1>1
  <2>2. QED  BY <2>1
<1>5. QED  BY <1>1, <1>3, <1>4

\* A stream that read every byte gave every line.
LEMMA AllRead ==
  ASSUME NEW body \in Seq(LineKind), NEW read \in Nat, NEW buffer \in Seq(Byte), NEW events,
         NEW off, NEW n, ReadUpTo(off, n, body, read, buffer, events), read = Len(Wire(body))
  PROVE  n = Len(body)
<1>1. SUFFICES ASSUME n # Len(body) PROVE FALSE
  OBVIOUS
<1>2. Offsets(off, body) /\ n \in 0..Len(body) /\ read = off[n] + Len(buffer)
  BY DEF ReadUpTo
<1>3. PICK i \in 1..Len(body) : i = n + 1 /\ i - 1 = n /\ i \in 0..Len(body)
  BY <1>1, <1>2
<1>4. Len(buffer) < Len(LineBytes(body[i], i))
  BY <1>1, <1>2, <1>3 DEF ReadUpTo
<1>5. off[i] = off[n] + Len(LineBytes(body[i], i)) /\ off[n] \in Nat
  BY <1>2, <1>3 DEF Offsets
<1>6. off[i] <= read
  BY <1>2, <1>3, OffsetsBounded
<1>7. Len(LineBytes(body[i], i)) \in Nat
  <2>1. body[i] \in LineKind /\ i \in Nat
    BY <1>3
  <2>2. QED  BY <2>1, LineEndsOnce
<1>8. QED  BY <1>2, <1>4, <1>5, <1>6, <1>7

\* What a stream gave is right, whether it goes on or has ended.
LEMMA ReadIsTold ==
  ASSUME NEW s, s.body \in Seq(LineKind), s.read \in Nat, s.buffer \in Seq(Byte), s.events \in Seq(Event),
         Reading(s.body, s.read, s.buffer, s.events)
  PROVE  LinesTold(s)
<1>1. PICK off, n : ReadUpTo(off, n, s.body, s.read, s.buffer, s.events)
  BY DEF Reading
<1>2. n \in 0..Len(s.body) /\ LinesGiven(s.body, n, s.events)
  BY <1>1 DEF ReadUpTo
<1>3. \A j \in DOMAIN s.events : s.events[j].line \in 1..n /\ IsOfLine(s.events[j], s.body)
  BY <1>2 DEF LinesGiven
<1>4. \A j \in DOMAIN s.events :
        IF s.events[j].again
        THEN j > 1 /\ s.events[j - 1].line = s.events[j].line /\ ~s.events[j - 1].again
        ELSE \A i \in 1..(j - 1) : s.events[i].line < s.events[j].line
  BY <1>2 DEF LinesGiven
<1>5. ASSUME NEW l \in DOMAIN s.body, s.body[l] # "blank",
             s.read = Len(Wire(s.body)) \/ \E j \in DOMAIN s.events : s.events[j].line >= l
      PROVE  \E j \in DOMAIN s.events : s.events[j].line = l /\ ~s.events[j].again
  <2>1. CASE s.read = Len(Wire(s.body))
    <3>1. n = Len(s.body)
      BY <1>1, <2>1, AllRead
    <3>2. l \in 1..n
      BY <3>1
    <3>3. QED  BY <1>2, <1>5, <3>2 DEF LinesGiven
  <2>2. CASE \E j \in DOMAIN s.events : s.events[j].line >= l
    <3>1. PICK j \in DOMAIN s.events : s.events[j].line >= l
      BY <2>2
    <3>2. s.events[j].line \in 1..n
      BY <1>3
    <3>3. l \in 1..n
      BY <1>2, <3>1, <3>2
    <3>4. QED  BY <1>2, <1>5, <3>3 DEF LinesGiven
  <2>3. QED  BY <1>5, <2>1, <2>2
<1>6. \A j \in DOMAIN s.events : s.events[j].line # 0
  BY <1>2, <1>3
<1>7. QED  BY <1>3, <1>4, <1>5, <1>6 DEF LinesTold

\* The end is told last.
LEMMA EndIsTold ==
  ASSUME NEW s, s.body \in Seq(LineKind), s.read \in Nat, s.buffer \in Seq(Byte), s.events \in Seq(Event),
         Reading(s.body, s.read, s.buffer, s.events), LinesTold(s),
         NEW type \in EventType, NEW t, t.body = s.body, t.read = s.read,
         t.events = Append(s.events, Final(type))
  PROVE  LinesTold(t)
<1>1. PICK e \in Event : e = Final(type) /\ e.line = 0 /\ e.again = FALSE
  <2>1. [line |-> 0, type |-> type, again |-> FALSE] \in Event
    BY DEF Event
  <2>2. Final(type).line = 0 /\ Final(type).again = FALSE
    BY DEF Final
  <2>3. QED  BY <2>1, <2>2 DEF Final
<1>2. PICK old \in Seq(Event) : old = s.events
  OBVIOUS
<1>3. PICK new : new = t.events
  OBVIOUS
<1>4. /\ new \in Seq(Event) /\ Len(new) = Len(old) + 1 /\ new[Len(new)] = e
      /\ \A j \in 1..Len(old) : new[j] = old[j]
  BY <1>1, <1>2, <1>3, EventAppended
<1>5. \A j \in 1..Len(old) : old[j].line # 0 /\ IsOfLine(old[j], s.body)
  <2>1. PICK off, n : ReadUpTo(off, n, s.body, s.read, s.buffer, old)
    BY <1>2 DEF Reading
  <2>2. n \in 0..Len(s.body) /\ LinesGiven(s.body, n, old)
    BY <2>1 DEF ReadUpTo
  <2>3. \A j \in DOMAIN old : old[j].line \in 1..n /\ IsOfLine(old[j], s.body)
    BY <2>2 DEF LinesGiven
  <2>4. QED  BY <2>2, <2>3
<1>6. \A j \in 1..Len(old) :
        IF old[j].again
        THEN j > 1 /\ old[j - 1].line = old[j].line /\ ~old[j - 1].again
        ELSE \A i \in 1..(j - 1) : old[i].line < old[j].line
  <2>1. \A j \in DOMAIN old :
          IF old[j].again
          THEN j > 1 /\ old[j - 1].line = old[j].line /\ ~old[j - 1].again
          ELSE old[j].line # 0 => \A i \in 1..(j - 1) : old[i].line < old[j].line
    BY <1>2 DEF LinesTold
  <2>2. SUFFICES ASSUME NEW j \in 1..Len(old)
                 PROVE IF old[j].again
                       THEN j > 1 /\ old[j - 1].line = old[j].line /\ ~old[j - 1].again
                       ELSE \A i \in 1..(j - 1) : old[i].line < old[j].line
    OBVIOUS
  <2>3. j \in DOMAIN old /\ old[j].line # 0
    BY <1>5
  <2>4. QED  BY <2>1, <2>3, Zenon
<1>7. \A l \in DOMAIN s.body :
        /\ s.body[l] # "blank"
        /\ s.read = Len(Wire(s.body)) \/ \E j \in DOMAIN old : old[j].line >= l
        => \E j \in DOMAIN old : old[j].line = l /\ ~old[j].again
  BY <1>2 DEF LinesTold
<1>8. ASSUME NEW j \in DOMAIN new
      PROVE  IF new[j].line = 0 THEN j = Len(new) ELSE IsOfLine(new[j], s.body)
  <2>1. CASE j = Len(new)
    BY <1>1, <1>4, <2>1
  <2>2. CASE j # Len(new)
    <3>1. j \in 1..Len(old)
      BY <1>4, <2>2
    <3>2. QED  BY <1>4, <1>5, <3>1
  <2>3. QED  BY <2>1, <2>2
<1>9. ASSUME NEW j \in DOMAIN new
      PROVE  IF new[j].again
             THEN j > 1 /\ new[j - 1].line = new[j].line /\ ~new[j - 1].again
             ELSE new[j].line # 0 => \A i \in 1..(j - 1) : new[i].line < new[j].line
  <2>1. CASE j = Len(new)
    BY <1>1, <1>4, <2>1
  <2>2. CASE j # Len(new)
    <3>1. j \in 1..Len(old) /\ \A i \in 1..j : new[i] = old[i]
      <4>1. PICK a \in Nat : a = Len(old) /\ Len(new) = a + 1 /\ j \in 1..(a + 1)
        BY <1>4
      <4>2. j \in 1..a /\ \A i \in 1..j : i \in 1..a
        BY <2>2, <4>1
      <4>3. QED  BY <1>4, <4>1, <4>2, Zenon
    <3>2. IF old[j].again
          THEN j > 1 /\ old[j - 1].line = old[j].line /\ ~old[j - 1].again
          ELSE \A i \in 1..(j - 1) : old[i].line < old[j].line
      BY <1>6, <3>1
    <3>3. new[j] = old[j]
      <4>1. j \in 1..j
        BY <3>1
      <4>2. QED  BY <3>1, <4>1, Zenon
    <3>4. ASSUME j > 1 PROVE new[j - 1] = old[j - 1]
      <4>1. j - 1 \in 1..j
        BY <3>1, <3>4
      <4>2. QED  BY <3>1, <4>1, Zenon
    <3>5. ASSUME NEW i \in 1..(j - 1) PROVE new[i] = old[i]
      <4>1. i \in 1..j
        BY <3>1
      <4>2. QED  BY <3>1, <4>1
    <3>6. CASE old[j].again
      BY <3>2, <3>3, <3>4, <3>6
    <3>7. CASE ~old[j].again
      BY <3>2, <3>3, <3>5, <3>7
    <3>8. QED  BY <3>6, <3>7
  <2>3. QED  BY <2>1, <2>2
<1>10. ASSUME NEW l \in DOMAIN s.body, s.body[l] # "blank",
              s.read = Len(Wire(s.body)) \/ \E j \in DOMAIN new : new[j].line >= l
       PROVE  \E j \in DOMAIN new : new[j].line = l /\ ~new[j].again
  <2>1. s.read = Len(Wire(s.body)) \/ \E j \in DOMAIN old : old[j].line >= l
    <3>1. SUFFICES ASSUME NEW j \in DOMAIN new, new[j].line >= l PROVE \E i \in DOMAIN old : old[i].line >= l
      BY <1>10
    <3>2. j # Len(new)
      BY <1>1, <1>4, <3>1
    <3>3. j \in 1..Len(old)
      BY <1>4, <3>2
    <3>4. new[j] = old[j] /\ j \in DOMAIN old
      BY <1>4, <3>3
    <3>5. QED  BY <3>1, <3>4
  <2>2. PICK j \in DOMAIN old : old[j].line = l /\ ~old[j].again
    BY <1>7, <1>10, <2>1
  <2>3. j \in 1..Len(old) /\ j \in 1..Len(new)
    BY <1>4
  <2>4. new[j] = old[j]
    BY <1>4, <2>3
  <2>5. QED  BY <1>4, <2>2, <2>3, <2>4
<1>11. t.events = new /\ t.body = s.body /\ t.read = s.read
  BY <1>3
<1>12. ASSUME NEW l \in DOMAIN s.body
       PROVE  /\ s.body[l] # "blank"
              /\ s.read = Len(Wire(s.body)) \/ \E j \in DOMAIN new : new[j].line >= l
              => \E j \in DOMAIN new : new[j].line = l /\ ~new[j].again
  BY <1>10
<1>13. \A j \in DOMAIN t.events :
         IF t.events[j].line = 0 THEN j = Len(t.events) ELSE IsOfLine(t.events[j], t.body)
  BY <1>8, <1>11
<1>14. \A j \in DOMAIN t.events :
         IF t.events[j].again
         THEN j > 1 /\ t.events[j - 1].line = t.events[j].line /\ ~t.events[j - 1].again
         ELSE t.events[j].line # 0 => \A i \in 1..(j - 1) : t.events[i].line < t.events[j].line
  BY <1>9, <1>11
<1>15. \A l \in DOMAIN t.body :
         /\ t.body[l] # "blank"
         /\ t.read = Len(Wire(t.body)) \/ \E j \in DOMAIN t.events : t.events[j].line >= l
         => \E j \in DOMAIN t.events : t.events[j].line = l /\ ~t.events[j].again
  BY <1>11, <1>12
<1>16. QED  BY <1>13, <1>14, <1>15 DEF LinesTold

StreamRec == [state : Active \cup {"done"}, body : Seq(LineKind), read : Nat,
              buffer : Seq(Byte), events : Seq(Event), aborted : BOOLEAN]
NestRec == [linked : BOOLEAN, stored : BOOLEAN, sessionId : Nat, abort : Nat]

\* Invariant: only the newest stream, opened since the last unlink, can read on.
OneActive ==
  /\ nest.abort # 0 => nest.abort = Len(streams)
  /\ \A n \in DOMAIN streams :
       streams[n].state \in Active /\ ~streams[n].aborted => n = nest.abort /\ n > unlinkedAt
\* A stream that has not ended gave the lines that it read.
StreamsRead ==
  \A n \in DOMAIN streams : streams[n].state \in Active =>
    Reading(streams[n].body, streams[n].read, streams[n].buffer, streams[n].events)
NestShape == streams \in Seq(StreamRec) /\ nest \in NestRec /\ unlinkedAt \in 0..Len(streams)
NestInv == NestShape /\ OneActive /\ StreamsRead /\ EventsAreTheLines /\ SessionOfNewestStream

\* What a stream has read and given is as it was.
SameRead(s, t) == t.body = s.body /\ t.read = s.read /\ t.buffer = s.buffer /\ t.events = s.events

\* What was told is judged by the body, what is read of it and the events.
LEMMA SameTold ==
  ASSUME NEW s, NEW t, SameRead(s, t), LinesTold(s)
  PROVE  LinesTold(t)
<1>1. t.body = s.body /\ t.read = s.read /\ t.events = s.events
  BY DEF SameRead
<1>2. /\ \A j \in DOMAIN t.events :
          IF t.events[j].line = 0 THEN j = Len(t.events) ELSE IsOfLine(t.events[j], t.body)
      /\ \A j \in DOMAIN t.events :
          IF t.events[j].again
          THEN j > 1 /\ t.events[j - 1].line = t.events[j].line /\ ~t.events[j - 1].again
          ELSE t.events[j].line # 0 => \A i \in 1..(j - 1) : t.events[i].line < t.events[j].line
      /\ \A l \in DOMAIN t.body :
          /\ t.body[l] # "blank"
          /\ t.read = Len(Wire(t.body)) \/ \E j \in DOMAIN t.events : t.events[j].line >= l
          => \E j \in DOMAIN t.events : t.events[j].line = l /\ ~t.events[j].again
  BY <1>1 DEF LinesTold
<1>3. QED  BY <1>2 DEF LinesTold

\* A stream is answered or ends.
LEMMA StateChanges ==
  ASSUME NEW s \in StreamRec, NEW state \in Active \cup {"done"}, NEW t, t = [s EXCEPT !.state = state]
  PROVE  t \in StreamRec /\ SameRead(s, t) /\ t.state = state /\ t.aborted = s.aborted
<1>1. DOMAIN s = {"state", "body", "read", "buffer", "events", "aborted"}
  BY DEF StreamRec
<1>2. QED  BY <1>1 DEF StreamRec, SameRead

\* A stream is aborted.
LEMMA AbortChanges ==
  ASSUME NEW s \in StreamRec, NEW t, t = [s EXCEPT !.aborted = TRUE]
  PROVE  t \in StreamRec /\ SameRead(s, t) /\ t.state = s.state /\ t.aborted = TRUE
<1>1. DOMAIN s = {"state", "body", "read", "buffer", "events", "aborted"}
  BY DEF StreamRec
<1>2. QED  BY <1>1 DEF StreamRec, SameRead

\* Abort stops at most that one stream.
LEMMA AbortStops ==
  ASSUME streams \in Seq(StreamRec), NEW k
  PROVE  /\ Abort(k) \in Seq(StreamRec) /\ Len(Abort(k)) = Len(streams)
         /\ \A m \in DOMAIN streams :
              /\ SameRead(streams[m], Abort(k)[m]) /\ Abort(k)[m].state = streams[m].state
              /\ ~Abort(k)[m].aborted => ~streams[m].aborted
              /\ ~Abort(k)[m].aborted /\ streams[m].state \in Active => m # k
<1>1. ASSUME NEW m \in DOMAIN streams
      PROVE  /\ Abort(k)[m] \in StreamRec
             /\ SameRead(streams[m], Abort(k)[m]) /\ Abort(k)[m].state = streams[m].state
             /\ ~Abort(k)[m].aborted => ~streams[m].aborted
             /\ ~Abort(k)[m].aborted /\ streams[m].state \in Active => m # k
  <2>1. streams[m] \in StreamRec
    OBVIOUS
  <2>2. CASE m = k /\ streams[m].state \in Active
    <3>1. Abort(k)[m] = [streams[m] EXCEPT !.aborted = TRUE]
      BY <2>2 DEF Abort
    <3>2. /\ Abort(k)[m] \in StreamRec /\ SameRead(streams[m], Abort(k)[m])
          /\ Abort(k)[m].state = streams[m].state /\ Abort(k)[m].aborted = TRUE
      BY <2>1, <3>1, AbortChanges, Zenon
    <3>3. QED  BY <3>2
  <2>3. CASE ~(m = k /\ streams[m].state \in Active)
    <3>1. Abort(k)[m] = streams[m]
      BY <2>3 DEF Abort
    <3>2. SameRead(streams[m], streams[m])
      BY DEF SameRead
    <3>3. QED  BY <2>1, <2>3, <3>1, <3>2
  <2>4. QED  BY <2>2, <2>3
<1>2. DOMAIN Abort(k) = 1..Len(streams)
  BY DEF Abort
<1>3. PICK n \in Nat : n = Len(streams) /\ DOMAIN streams = 1..n
  OBVIOUS
<1>4. Abort(k) = [m \in 1..n |-> Abort(k)[m]]
  BY <1>3 DEF Abort
<1>5. Abort(k) \in [1..n -> StreamRec]
  BY <1>1, <1>3, <1>4
<1>6. Abort(k) \in Seq(StreamRec) /\ Len(Abort(k)) = n
  <2>1. PICK f \in [1..n -> StreamRec] : f = Abort(k)
    BY <1>5
  <2>2. f \in Seq(StreamRec) /\ Len(f) = n
    OBVIOUS
  <2>3. QED  BY <2>1, <2>2
<1>7. QED  BY <1>1, <1>3, <1>6

\* A stream whose reading did not move is told of as before.
Unmoved(old, new) ==
  \A m \in DOMAIN old :
    /\ SameRead(old[m], new[m])
    /\ new[m].state \in Active => old[m].state \in Active

\* No stream reads: what they told stays right, and the session with it.
LEMMA NothingMoves ==
  ASSUME NestInv, streams' \in Seq(StreamRec), Len(streams') = Len(streams), Unmoved(streams, streams')
  PROVE  /\ StreamsRead' /\ EventsAreTheLines'
         /\ nest'.sessionId = nest.sessionId /\ unlinkedAt' = unlinkedAt => SessionOfNewestStream'
<1>1. DOMAIN streams' = DOMAIN streams
  BY DEF NestInv, NestShape
<1>2. ASSUME NEW m \in DOMAIN streams'
      PROVE  /\ LinesTold(streams'[m]) /\ streams'[m].events = streams[m].events
             /\ streams'[m].state \in Active =>
                  Reading(streams'[m].body, streams'[m].read, streams'[m].buffer, streams'[m].events)
  <2>1. SameRead(streams[m], streams'[m]) /\ (streams'[m].state \in Active => streams[m].state \in Active)
    BY <1>1, <1>2 DEF Unmoved
  <2>2. LinesTold(streams[m])
    BY <1>1, <1>2 DEF NestInv, EventsAreTheLines
  <2>3. LinesTold(streams'[m])
    BY <2>1, <2>2, SameTold
  <2>4. streams[m].state \in Active =>
          Reading(streams[m].body, streams[m].read, streams[m].buffer, streams[m].events)
    BY <1>1, <1>2 DEF NestInv, StreamsRead
  <2>5. QED  BY <2>1, <2>3, <2>4 DEF SameRead
<1>3. StreamsRead'
  BY <1>2 DEF StreamsRead
<1>4. EventsAreTheLines'
  BY <1>2 DEF EventsAreTheLines
<1>5. ASSUME nest'.sessionId = nest.sessionId, unlinkedAt' = unlinkedAt PROVE SessionOfNewestStream'
  <2>1. SessionOfNewestStream
    BY DEF NestInv
  <2>2. \A m \in DOMAIN streams' : m \in DOMAIN streams /\ streams'[m].events = streams[m].events
    BY <1>1, <1>2
  <2>3. QED  BY <1>5, <2>1, <2>2 DEF SessionOfNewestStream
<1>6. QED  BY <1>3, <1>4, <1>5

\* No client state changes but what a link sets.
LEMMA LinkKeeps ==
  ASSUME NestInv, StartLink \/ EndLink
  PROVE  NestInv'
<1>1. streams' = streams /\ unlinkedAt' = unlinkedAt
  BY DEF StartLink, EndLink
<1>2. nest' \in NestRec /\ nest'.sessionId = nest.sessionId /\ nest'.abort = nest.abort
  <2>1. nest \in NestRec
    BY DEF NestInv, NestShape
  <2>2. CASE nest' = nest
    BY <2>1, <2>2
  <2>3. CASE nest' # nest
    <3>1. PICK stored \in BOOLEAN : nest' = [nest EXCEPT !.linked = TRUE, !.stored = @ \/ stored]
      BY <2>3 DEF StartLink, EndLink
    <3>2. QED  BY <2>1, <3>1 DEF NestRec
  <2>4. QED  BY <2>2, <2>3
<1>3. NestShape' /\ OneActive' /\ StreamsRead' /\ EventsAreTheLines'
  BY <1>1, <1>2 DEF NestInv, NestShape, OneActive, StreamsRead, EventsAreTheLines
<1>4. SessionOfNewestStream'
  BY <1>1, <1>2 DEF NestInv, SessionOfNewestStream
<1>5. QED  BY <1>3, <1>4 DEF NestInv

\* unlink aborts the one stream that could still read, and forgets the session.
LEMMA UnlinkKeeps ==
  ASSUME NestInv, unlink
  PROVE  NestInv'
<1>1. streams \in Seq(StreamRec) /\ unlinkedAt \in 0..Len(streams) /\ OneActive
  BY DEF NestInv, NestShape
<1>2. /\ streams' = Abort(nest.abort) /\ unlinkedAt' = Len(streams)
      /\ nest' = [linked |-> FALSE, stored |-> FALSE, sessionId |-> 0, abort |-> 0]
  BY DEF unlink
<1>3. /\ streams' \in Seq(StreamRec) /\ Len(streams') = Len(streams)
      /\ \A m \in DOMAIN streams :
           /\ SameRead(streams[m], streams'[m]) /\ streams'[m].state = streams[m].state
           /\ ~streams'[m].aborted => ~streams[m].aborted
           /\ ~streams'[m].aborted /\ streams[m].state \in Active => m # nest.abort
  BY <1>1, <1>2, AbortStops
<1>4. Unmoved(streams, streams')
  BY <1>3 DEF Unmoved
<1>5. StreamsRead' /\ EventsAreTheLines'
  BY <1>3, <1>4, NothingMoves
<1>6. NestShape'
  <2>1. nest' \in NestRec
    BY <1>2 DEF NestRec
  <2>2. Len(streams) \in Nat
    BY <1>1
  <2>3. QED  BY <1>2, <1>3, <2>1, <2>2 DEF NestShape
<1>7. OneActive'
  <2>1. nest'.abort = 0
    BY <1>2
  <2>2. DOMAIN streams' = DOMAIN streams
    BY <1>1, <1>3
  <2>3. \A m \in DOMAIN streams : ~(streams'[m].state \in Active /\ ~streams'[m].aborted)
    BY <1>1, <1>3 DEF OneActive
  <2>4. QED  BY <2>1, <2>2, <2>3 DEF OneActive
<1>8. SessionOfNewestStream'
  <2>1. nest'.sessionId = 0
    BY <1>2
  <2>2. QED  BY <2>1 DEF SessionOfNewestStream
<1>9. QED  BY <1>5, <1>6, <1>7, <1>8 DEF NestInv

\* openStream aborts the one stream that could still read, and its own has read nothing.
LEMMA OpenKeeps ==
  ASSUME NestInv, NEW body \in Seq(LineKind), OpenStream(body)
  PROVE  NestInv'
<1> DEFINE new == [state |-> "fetch", body |-> body, read |-> 0, buffer |-> <<>>, events |-> <<>>, aborted |-> FALSE]
<1>1. streams \in Seq(StreamRec) /\ unlinkedAt \in 0..Len(streams) /\ OneActive /\ nest \in NestRec
  BY DEF NestInv, NestShape
<1>2. PICK old : old = Abort(nest.abort)
  OBVIOUS
<1>3. /\ old \in Seq(StreamRec) /\ Len(old) = Len(streams)
      /\ \A m \in DOMAIN streams :
           /\ SameRead(streams[m], old[m]) /\ old[m].state = streams[m].state
           /\ ~old[m].aborted => ~streams[m].aborted
           /\ ~old[m].aborted /\ streams[m].state \in Active => m # nest.abort
  BY <1>1, <1>2, AbortStops
<1>4. PICK s \in StreamRec : s = new
  <2>1. <<>> \in Seq(Byte) /\ <<>> \in Seq(Event)
    OBVIOUS
  <2>2. new \in StreamRec
    BY <2>1 DEF StreamRec, Active
  <2>3. QED  BY <2>2
<1>5. /\ s.state = "fetch" /\ s.body = body /\ s.read = 0 /\ s.buffer = <<>> /\ s.events = <<>>
      /\ ~s.aborted
  BY <1>4
<1>6. streams' = Append(old, s) /\ unlinkedAt' = unlinkedAt
  BY <1>2, <1>4 DEF OpenStream
<1> HIDE DEF new
<1>7. /\ streams' \in Seq(StreamRec) /\ Len(streams') = Len(streams) + 1
      /\ streams'[Len(streams) + 1] = s /\ \A m \in DOMAIN streams : streams'[m] = old[m]
  BY <1>1, <1>3, <1>6
<1>8. DOMAIN streams' = DOMAIN streams \cup {Len(streams) + 1}
  BY <1>1, <1>7
<1>9. nest' \in NestRec /\ nest'.abort = Len(streams) + 1 /\ nest'.sessionId = nest.sessionId
  <2>1. nest' = [nest EXCEPT !.abort = Len(streams) + 1] /\ Len(streams) + 1 \in Nat
    BY <1>1 DEF OpenStream
  <2>2. QED  BY <1>1, <2>1 DEF NestRec
<1>10. NestShape'
  BY <1>1, <1>6, <1>7, <1>9 DEF NestShape
<1>11. ASSUME NEW m \in DOMAIN streams PROVE ~(streams'[m].state \in Active /\ ~streams'[m].aborted)
  BY <1>1, <1>3, <1>7, <1>11 DEF OneActive
<1>12. OneActive'
  <2>1. nest'.abort = Len(streams')
    BY <1>7, <1>9
  <2>2. Len(streams) + 1 > unlinkedAt'
    BY <1>1, <1>6
  <2>3. QED  BY <1>8, <1>9, <1>11, <2>1, <2>2 DEF OneActive
<1>13. Reading(s.body, s.read, s.buffer, s.events)
  BY <1>5, NothingRead
<1>14. LinesTold(s)
  <2>1. s.body \in Seq(LineKind) /\ s.read \in Nat /\ s.buffer \in Seq(Byte) /\ s.events \in Seq(Event)
    BY DEF StreamRec
  <2>2. QED  BY <1>13, <2>1, ReadIsTold
<1>15. ASSUME NEW m \in DOMAIN streams
       PROVE  /\ LinesTold(streams'[m]) /\ streams'[m].events = streams[m].events
              /\ streams'[m].state \in Active =>
                   Reading(streams'[m].body, streams'[m].read, streams'[m].buffer, streams'[m].events)
  <2>1. SameRead(streams[m], streams'[m]) /\ streams'[m].state = streams[m].state
    BY <1>3, <1>7
  <2>2. LinesTold(streams[m])
    BY DEF NestInv, EventsAreTheLines
  <2>3. LinesTold(streams'[m])
    BY <2>1, <2>2, SameTold
  <2>4. streams[m].state \in Active =>
          Reading(streams[m].body, streams[m].read, streams[m].buffer, streams[m].events)
    BY DEF NestInv, StreamsRead
  <2>5. QED  BY <2>1, <2>3, <2>4 DEF SameRead
<1>16. StreamsRead'
  BY <1>7, <1>8, <1>13, <1>15 DEF StreamsRead
<1>17. EventsAreTheLines'
  BY <1>7, <1>8, <1>14, <1>15 DEF EventsAreTheLines
<1>18. SessionOfNewestStream'
  <2>1. SessionOfNewestStream
    BY DEF NestInv
  <2>2. \A m \in DOMAIN streams' : m \in DOMAIN streams \/ streams'[m].events = <<>>
    BY <1>5, <1>7, <1>8
  <2>3. QED  BY <1>6, <1>9, <1>15, <2>1, <2>2 DEF SessionOfNewestStream
<1>19. QED  BY <1>10, <1>12, <1>16, <1>17, <1>18 DEF NestInv

\* The answer and the end of the body change a stream's state only.
LEMMA AnswerKeeps ==
  ASSUME NestInv, NEW n \in DOMAIN streams, StreamAnswer(n) \/ BodyEnds(n)
  PROVE  NestInv'
<1>1. streams \in Seq(StreamRec) /\ OneActive /\ streams[n] \in StreamRec
  BY DEF NestInv, NestShape
<1>2. nest' = nest /\ unlinkedAt' = unlinkedAt
  BY DEF StreamAnswer, BodyEnds
<1>3. PICK state \in Active \cup {"done"} : streams' = [streams EXCEPT ![n].state = state]
  BY DEF StreamAnswer, BodyEnds, Active
<1>4. streams[n].state \in Active
  BY DEF StreamAnswer, BodyEnds, Active
<1>5. PICK t : t = [streams[n] EXCEPT !.state = state]
  OBVIOUS
<1>6. t \in StreamRec /\ SameRead(streams[n], t) /\ t.aborted = streams[n].aborted
  BY <1>1, <1>5, StateChanges
<1>7. streams' = [streams EXCEPT ![n] = t]
  BY <1>3, <1>5
<1>8. /\ streams' \in Seq(StreamRec) /\ DOMAIN streams' = DOMAIN streams
      /\ streams'[n] = t /\ \A m \in DOMAIN streams \ {n} : streams'[m] = streams[m]
  BY <1>1, <1>6, <1>7, OneEntryChanges
<1>9. Len(streams') = Len(streams)
  BY <1>1, <1>8
<1>10. Unmoved(streams, streams')
  BY <1>4, <1>6, <1>8 DEF Unmoved, SameRead
<1>11. StreamsRead' /\ EventsAreTheLines' /\ SessionOfNewestStream'
  BY <1>2, <1>8, <1>9, <1>10, NothingMoves
<1>12. NestShape'
  BY <1>2, <1>8, <1>9 DEF NestInv, NestShape
<1>13. OneActive'
  BY <1>1, <1>2, <1>4, <1>6, <1>8, <1>9 DEF OneActive
<1>14. QED  BY <1>11, <1>12, <1>13 DEF NestInv

\* A chunk is read by the newest stream, and only by it.
LEMMA ReadKeeps ==
  ASSUME NestInv, NEW n \in DOMAIN streams, NEW k \in Nat, NEW throws, Read(n, k, throws)
  PROVE  NestInv'
<1>1. streams \in Seq(StreamRec) /\ OneActive /\ nest \in NestRec /\ unlinkedAt \in 0..Len(streams)
  BY DEF NestInv, NestShape
<1>2. PICK s \in StreamRec : s = streams[n]
  BY <1>1
<1>3. PICK lines : lines = LinesOf(Buffered(s, k), s.body, throws)
  OBVIOUS
<1>4. /\ s.state = "open" /\ ~s.aborted /\ s.read + k <= Len(Wire(s.body))
      /\ streams' = [streams EXCEPT ![n].read = @ + k, ![n].buffer = lines.rest,
                                    ![n].events = @ \o lines.given]
      /\ nest' = IF \E j \in DOMAIN lines.given : lines.given[j].type = "ready"
                 THEN [nest EXCEPT !.sessionId = n] ELSE nest
      /\ unlinkedAt' = unlinkedAt
  BY <1>2, <1>3 DEF Read
<1>5. n = nest.abort /\ n > unlinkedAt /\ n = Len(streams) /\ n \in Nat
  BY <1>1, <1>2, <1>4 DEF OneActive, Active
<1>6. s.body \in Seq(LineKind) /\ s.read \in Nat /\ s.buffer \in Seq(Byte) /\ s.events \in Seq(Event)
  BY DEF StreamRec
<1>7. Reading(s.body, s.read, s.buffer, s.events)
  BY <1>2, <1>4 DEF NestInv, StreamsRead, Active
<1>8. /\ lines.given \in Seq(Event) /\ lines.rest \in Seq(Byte)
      /\ Reading(s.body, s.read + k, lines.rest, s.events \o lines.given)
  <2>1. lines = LinesOf(s.buffer \o SubSeq(Wire(s.body), s.read + 1, s.read + k), s.body, throws)
    BY <1>3 DEF Buffered
  <2>2. QED  BY <1>4, <1>6, <1>7, <2>1, ChunkRead
<1>9. PICK t : t = [s EXCEPT !.read = @ + k, !.buffer = lines.rest, !.events = @ \o lines.given]
  OBVIOUS
<1>10. /\ t \in StreamRec /\ t.state = s.state /\ t.body = s.body /\ t.aborted = s.aborted
       /\ t.read = s.read + k /\ t.buffer = lines.rest /\ t.events = s.events \o lines.given
  <2>1. s.events \o lines.given \in Seq(Event) /\ s.read + k \in Nat
    BY <1>6, <1>8
  <2>2. QED  BY <1>8, <1>9, <2>1 DEF StreamRec
<1>11. streams' = [streams EXCEPT ![n] = t]
  BY <1>2, <1>4, <1>9
<1>12. /\ streams' \in Seq(StreamRec) /\ DOMAIN streams' = DOMAIN streams
       /\ streams'[n] = t /\ \A m \in DOMAIN streams \ {n} : streams'[m] = streams[m]
  BY <1>1, <1>10, <1>11, OneEntryChanges
<1>13. Len(streams') = Len(streams)
  BY <1>1, <1>12
<1>14. nest' \in NestRec /\ nest'.abort = nest.abort
  BY <1>1, <1>4, <1>5 DEF NestRec
<1>15. NestShape'
  BY <1>1, <1>4, <1>12, <1>13, <1>14 DEF NestShape
<1>16. OneActive'
  <2>1. \A m \in DOMAIN streams : streams'[m].state = streams[m].state /\ streams'[m].aborted = streams[m].aborted
    BY <1>2, <1>10, <1>12
  <2>2. QED  BY <1>1, <1>4, <1>12, <1>13, <1>14, <2>1 DEF OneActive
<1>17. Reading(t.body, t.read, t.buffer, t.events)
  BY <1>8, <1>10
<1>18. LinesTold(t)
  <2>1. t.body \in Seq(LineKind) /\ t.read \in Nat /\ t.buffer \in Seq(Byte) /\ t.events \in Seq(Event)
    BY <1>10 DEF StreamRec
  <2>2. QED  BY <1>17, <2>1, ReadIsTold
<1>19. StreamsRead'
  BY <1>12, <1>17 DEF NestInv, StreamsRead
<1>20. EventsAreTheLines'
  BY <1>12, <1>18 DEF NestInv, EventsAreTheLines
<1>21. SessionOfNewestStream'
  <2>1. CASE \E j \in DOMAIN lines.given : lines.given[j].type = "ready"
    <3>1. nest'.sessionId = n
      BY <1>1, <1>4, <2>1 DEF NestRec
    <3>2. \A m \in DOMAIN streams' : ~(m > n)
      BY <1>1, <1>5, <1>12
    <3>3. QED  BY <1>4, <1>5, <3>1, <3>2 DEF SessionOfNewestStream
  <2>2. CASE ~\E j \in DOMAIN lines.given : lines.given[j].type = "ready"
    <3>1. nest' = nest
      BY <1>4, <2>2
    <3>2. SUFFICES ASSUME nest.sessionId # 0, NEW m \in DOMAIN streams, m > nest.sessionId,
                          NEW j \in DOMAIN streams'[m].events
                   PROVE  streams'[m].events[j].type # "ready"
      BY <1>4, <1>12, <3>1 DEF NestInv, SessionOfNewestStream
    <3>3. \A i \in DOMAIN streams[m].events : streams[m].events[i].type # "ready"
      BY <3>2 DEF NestInv, SessionOfNewestStream
    <3>4. CASE m # n
      BY <1>12, <3>2, <3>3, <3>4
    <3>5. CASE m = n
      <4>1. PICK old \in Seq(Event), given \in Seq(Event) : old = s.events /\ given = lines.given
        BY <1>6, <1>8
      <4>2. t.events = old \o given /\ j \in 1..(Len(old) + Len(given))
        <5>1. t.events = old \o given
          BY <1>10, <4>1
        <5>2. j \in DOMAIN (old \o given)
          BY <1>12, <3>2, <3>5, <5>1
        <5>3. QED  BY <5>1, <5>2
      <4>3. CASE j <= Len(old)
        <5>1. t.events[j] = old[j] /\ j \in DOMAIN old
          BY <4>2, <4>3
        <5>2. QED  BY <1>2, <1>12, <3>3, <3>5, <4>1, <5>1
      <4>4. CASE j > Len(old)
        <5>1. t.events[j] = given[j - Len(old)] /\ j - Len(old) \in DOMAIN given
          BY <4>2, <4>4
        <5>2. QED  BY <1>12, <2>2, <3>5, <4>1, <5>1
      <4>5. QED  BY <4>2, <4>3, <4>4
    <3>6. QED  BY <3>4, <3>5
  <2>3. QED  BY <2>1, <2>2
<1>22. QED  BY <1>15, <1>16, <1>19, <1>20, <1>21 DEF NestInv

\* The end is told after all that was read, and it is no line.
LEMMA EndKeeps ==
  ASSUME NestInv, NEW n \in DOMAIN streams, ReaderEnds(n)
  PROVE  NestInv'
<1>1. streams \in Seq(StreamRec) /\ OneActive /\ nest \in NestRec
  BY DEF NestInv, NestShape
<1>2. PICK s \in StreamRec : s = streams[n]
  BY <1>1
<1>3. PICK type \in {"stream-end", "stream-aborted", "stream-error"} :
        streams' = [streams EXCEPT ![n].state = "done", ![n].events = Append(@, Final(type))]
  BY DEF ReaderEnds
<1>4. s.state \in Active /\ nest' = nest /\ unlinkedAt' = unlinkedAt
  BY <1>2 DEF ReaderEnds, Active
<1>5. s.body \in Seq(LineKind) /\ s.read \in Nat /\ s.buffer \in Seq(Byte) /\ s.events \in Seq(Event)
  BY DEF StreamRec
<1>6. Final(type) \in Event /\ Final(type).type = type /\ type \in EventType
  <2>1. type \in EventType
    BY DEF EventType
  <2>2. [line |-> 0, type |-> type, again |-> FALSE] \in Event
    BY <2>1 DEF Event
  <2>3. QED  BY <2>1, <2>2 DEF Final
<1>7. PICK t : t = [s EXCEPT !.state = "done", !.events = Append(@, Final(type))]
  OBVIOUS
<1>8. /\ t \in StreamRec /\ t.state = "done" /\ t.body = s.body
      /\ t.read = s.read /\ t.events = Append(s.events, Final(type))
  <2>1. Append(s.events, Final(type)) \in Seq(Event)
    BY <1>5, <1>6
  <2>2. QED  BY <1>7, <2>1 DEF StreamRec
<1>9. streams' = [streams EXCEPT ![n] = t]
  BY <1>2, <1>3, <1>7
<1>10. /\ streams' \in Seq(StreamRec) /\ DOMAIN streams' = DOMAIN streams
       /\ streams'[n] = t /\ \A m \in DOMAIN streams \ {n} : streams'[m] = streams[m]
  BY <1>1, <1>8, <1>9, OneEntryChanges
<1>11. Len(streams') = Len(streams)
  BY <1>1, <1>10
<1>12. NestShape'
  BY <1>4, <1>10, <1>11 DEF NestInv, NestShape
<1>13. OneActive'
  BY <1>1, <1>4, <1>8, <1>10, <1>11 DEF OneActive, Active
<1>14. StreamsRead'
  BY <1>8, <1>10 DEF NestInv, StreamsRead, Active
<1>15. LinesTold(t)
  <2>1. Reading(s.body, s.read, s.buffer, s.events) /\ LinesTold(s)
    BY <1>2, <1>4 DEF NestInv, StreamsRead, EventsAreTheLines
  <2>2. QED  BY <1>5, <1>6, <1>8, <2>1, EndIsTold
<1>16. EventsAreTheLines'
  BY <1>10, <1>15 DEF NestInv, EventsAreTheLines
<1>17. SessionOfNewestStream'
  <2>1. SUFFICES ASSUME nest.sessionId # 0, NEW m \in DOMAIN streams, m > nest.sessionId,
                        NEW j \in DOMAIN streams'[m].events
                 PROVE  streams'[m].events[j].type # "ready"
    BY <1>4, <1>10 DEF NestInv, SessionOfNewestStream
  <2>2. \A i \in DOMAIN streams[m].events : streams[m].events[i].type # "ready"
    BY <2>1 DEF NestInv, SessionOfNewestStream
  <2>3. CASE m # n
    BY <1>10, <2>1, <2>2, <2>3
  <2>4. CASE m = n
    <3>1. PICK old \in Seq(Event), e \in Event : old = s.events /\ e = Final(type)
      BY <1>5, <1>6
    <3>2. t.events = Append(old, e) /\ j \in 1..(Len(old) + 1)
      BY <1>8, <1>10, <2>1, <2>4, <3>1
    <3>3. CASE j <= Len(old)
      <4>1. t.events[j] = old[j] /\ j \in DOMAIN old
        BY <3>2, <3>3
      <4>2. QED  BY <1>2, <1>10, <2>2, <2>4, <3>1, <4>1
    <3>4. CASE j > Len(old)
      <4>1. t.events[j] = e
        BY <3>2, <3>4
      <4>2. QED  BY <1>6, <1>10, <2>4, <3>1, <4>1
    <3>5. QED  BY <3>2, <3>3, <3>4
  <2>5. QED  BY <2>3, <2>4
<1>18. QED  BY <1>12, <1>13, <1>14, <1>16, <1>17 DEF NestInv

\* Every step keeps the invariant.
LEMMA NestSafe == NestSpec => []NestInv
<1>1. ASSUME NestInit PROVE NestInv
  <2>1. streams = <<>> /\ unlinkedAt = 0 /\ nest.sessionId = 0 /\ nest.abort = 0 /\ nest \in NestRec
    BY <1>1 DEF NestInit, NestRec
  <2>2. <<>> \in Seq(StreamRec)
    OBVIOUS
  <2>3. NestShape
    BY <2>1, <2>2 DEF NestShape
  <2>4. OneActive /\ StreamsRead /\ EventsAreTheLines /\ SessionOfNewestStream
    BY <2>1 DEF OneActive, StreamsRead, EventsAreTheLines, SessionOfNewestStream
  <2>5. QED  BY <2>3, <2>4 DEF NestInv
<1>2. ASSUME NestInv, [NestNext]_nestVars PROVE NestInv'
  <2>1. CASE StartLink \/ EndLink
    BY <1>2, <2>1, LinkKeeps
  <2>2. CASE unlink
    BY <1>2, <2>2, UnlinkKeeps
  <2>3. CASE \E body \in Bodies : OpenStream(body)
    <3>1. PICK body \in Bodies : OpenStream(body)
      BY <2>3
    <3>2. body \in Seq(LineKind)
      BY NestAssumption
    <3>3. QED  BY <1>2, <3>1, <3>2, OpenKeeps
  <2>4. ASSUME NEW n \in DOMAIN streams, StreamAnswer(n) \/ BodyEnds(n) PROVE NestInv'
    BY <1>2, <2>4, AnswerKeeps
  <2>5. ASSUME NEW n \in DOMAIN streams, ReaderEnds(n) PROVE NestInv'
    BY <1>2, <2>5, EndKeeps
  <2>6. ASSUME NEW n \in DOMAIN streams, NEW k \in 1..Len(Wire(streams[n].body)), NEW throws, Read(n, k, throws)
        PROVE  NestInv'
    <3>1. streams[n].body \in Seq(LineKind)
      <4>1. streams[n] \in StreamRec
        BY <1>2 DEF NestInv, NestShape
      <4>2. QED  BY <4>1 DEF StreamRec
    <3>2. Wire(streams[n].body) \in Seq(Byte)
      BY <3>1, LinesOnTheWire
    <3>3. k \in Nat
      BY <3>2
    <3>4. QED  BY <1>2, <2>6, <3>3, ReadKeeps
  <2>7. CASE UNCHANGED nestVars
    <3>1. streams' = streams /\ nest' = nest /\ unlinkedAt' = unlinkedAt
      BY <2>7 DEF nestVars
    <3>2. QED  BY <1>2, <3>1 DEF NestInv, NestShape, OneActive, StreamsRead, EventsAreTheLines, SessionOfNewestStream
  <2>8. QED  BY <1>2, <2>1, <2>2, <2>3, <2>4, <2>5, <2>6, <2>7 DEF NestNext
<1>3. QED  BY <1>1, <1>2, PTL DEF NestSpec

\* The session that send() uses is that of the newest stream that said it is ready
\* (nest-client.web.ts 174-270).
THEOREM SessionIsNewest == NestSpec => []SessionOfNewestStream
<1>1. NestInv => SessionOfNewestStream
  BY DEF NestInv
<1>2. QED  BY <1>1, NestSafe, PTL

\* However the bodies are cut into chunks, onEvent gets their lines
\* (nest-client.web.ts 196-231).
THEOREM EventsAreRight == NestSpec => []EventsAreTheLines
<1>1. NestInv => EventsAreTheLines
  BY DEF NestInv
<1>2. QED  BY <1>1, NestSafe, PTL
----------------------------------------------------------------------------
(***************************************************************************)
(* The boot payload, for any trees of settings and lists of locales. What   *)
(* a merge has at a path comes from one of the two trees; below a key it is *)
(* what the code's recursion gives.                                         *)
(***************************************************************************)
\* A path leads through itself, and through all that what it leads through does.
LEMMA UpToIsOrder ==
  ASSUME NEW path \in Seq(STRING) \ {<<>>}
  PROVE  /\ path \in UpTo(path)
         /\ \A p \in UpTo(path) : UpTo(p) \subseteq UpTo(path) /\ p \in Seq(STRING) \ {<<>>}
<1>1. path = SubSeq(path, 1, Len(path)) /\ Len(path) \in 0..Len(path)
  OBVIOUS
<1>2. path \in UpTo(path)
  BY <1>1 DEF UpTo, Prefixes
<1>3. ASSUME NEW p \in UpTo(path) PROVE UpTo(p) \subseteq UpTo(path) /\ p \in Seq(STRING) \ {<<>>}
  <2>1. PICK l \in 0..Len(path) : p = SubSeq(path, 1, l)
    BY DEF UpTo, Prefixes
  <2>2. p \in Seq(STRING) /\ Len(p) = l
    BY <2>1
  <2>3. ASSUME NEW q \in UpTo(p) PROVE q \in UpTo(path)
    <3>1. PICK k \in 0..Len(p) : q = SubSeq(p, 1, k)
      BY DEF UpTo, Prefixes
    <3>2. q = SubSeq(path, 1, k) /\ k \in 0..Len(path)
      BY <2>1, <2>2, <3>1
    <3>3. QED  BY <2>3, <3>2 DEF UpTo, Prefixes
  <2>4. p # <<>>
    BY DEF UpTo
  <2>5. QED  BY <2>2, <2>3, <2>4
<1>4. QED  BY <1>2, <1>3

\* Which of the two a path's value comes from.
SourceOf(target, source, path) ==
  IF \E p \in UpTo(path) : Replaces(target, source, p) THEN source ELSE target

\* What is found at a path of a merge is found there in the one it comes from.
LEMMA MergedFrom ==
  ASSUME NEW target, NEW source, NEW path
  PROVE  /\ getConfigValue(deepMerge(target, source), path) = getConfigValue(SourceOf(target, source, path), path)
         /\ path \in DOMAIN deepMerge(target, source) <=> path \in DOMAIN SourceOf(target, source, path)
<1>1. DOMAIN deepMerge(target, source) =
        {p \in DOMAIN target \cup DOMAIN source : p \in DOMAIN SourceOf(target, source, p)}
  BY DEF deepMerge, SourceOf
<1>2. path \in DOMAIN deepMerge(target, source) <=> path \in DOMAIN SourceOf(target, source, path)
  BY <1>1 DEF SourceOf
<1>3. ASSUME path \in DOMAIN deepMerge(target, source)
      PROVE  deepMerge(target, source)[path] = SourceOf(target, source, path)[path]
  BY <1>1, <1>3 DEF deepMerge, SourceOf
<1>4. QED  BY <1>2, <1>3 DEF getConfigValue

\* Above what a configuration holds there are objects.
LEMMA ObjectsAbove ==
  ASSUME NEW cfg, IsConfig(cfg), NEW path \in Seq(STRING) \ {<<>>}, NEW p \in UpTo(path), p # path,
         path \in DOMAIN cfg
  PROVE  p \in DOMAIN cfg /\ cfg[p] = Object
BY DEF IsConfig

\* What is found at a path of a merge.
LEMMA MergedValue ==
  ASSUME NEW target, NEW source, IsConfig(target), IsConfig(source), NEW path \in Seq(STRING) \ {<<>>}
  PROVE  getConfigValue(deepMerge(target, source), path) =
           IF Speaks(source, path) \/ getConfigValue(source, path) = Object
           THEN getConfigValue(source, path) ELSE getConfigValue(target, path)
<1>1. getConfigValue(deepMerge(target, source), path) = getConfigValue(SourceOf(target, source, path), path)
  BY MergedFrom
<1>2. CASE Speaks(source, path)
  <2>1. \E p \in UpTo(path) : Replaces(target, source, p)
    BY <1>2 DEF Speaks, Replaces
  <2>2. QED  BY <1>1, <1>2, <2>1 DEF SourceOf
<1>3. CASE ~Speaks(source, path) /\ getConfigValue(source, path) = Object
  <2>1. path \in DOMAIN source /\ source[path] = Object
    BY <1>3 DEF getConfigValue, Object, Undefined, Plain
  <2>2. CASE \E p \in UpTo(path) : Replaces(target, source, p)
    BY <1>1, <1>3, <2>2 DEF SourceOf
  <2>3. CASE ~\E p \in UpTo(path) : Replaces(target, source, p)
    <3>1. ~Replaces(target, source, path)
      BY <2>3, UpToIsOrder
    <3>2. path \in DOMAIN target /\ target[path] = Object
      BY <2>1, <3>1 DEF Replaces
    <3>3. QED  BY <1>1, <1>3, <2>3, <3>2 DEF SourceOf, getConfigValue
  <2>4. QED  BY <2>2, <2>3
<1>4. CASE ~Speaks(source, path) /\ getConfigValue(source, path) # Object
  <2>1. path \notin DOMAIN source
    BY <1>4, UpToIsOrder DEF Speaks, getConfigValue
  <2>2. CASE \E p \in UpTo(path) : Replaces(target, source, p)
    <3>1. PICK p \in UpTo(path) : Replaces(target, source, p)
      BY <2>2
    <3>2. p \in DOMAIN source /\ source[p] = Object /\ p # path
      BY <1>4, <2>1, <3>1 DEF Replaces, Speaks
    <3>3. ~(p \in DOMAIN target /\ target[p] = Object)
      BY <3>1, <3>2 DEF Replaces
    <3>4. path \notin DOMAIN target
      BY <3>2, <3>3, ObjectsAbove
    <3>5. QED  BY <1>1, <1>4, <2>1, <2>2, <3>4 DEF SourceOf, getConfigValue
  <2>3. CASE ~\E p \in UpTo(path) : Replaces(target, source, p)
    BY <1>1, <1>4, <2>3 DEF SourceOf
  <2>4. QED  BY <2>2, <2>3
<1>5. QED  BY <1>2, <1>3, <1>4

\* A merge is a configuration.
LEMMA MergedIsConfig ==
  ASSUME NEW target, NEW source, IsConfig(target), IsConfig(source)
  PROVE  IsConfig(deepMerge(target, source))
<1>1. PICK cfg : cfg = deepMerge(target, source)
  OBVIOUS
<1>2. ASSUME NEW path \in DOMAIN cfg
      PROVE  /\ path \in Seq(STRING) \ {<<>>} /\ cfg[path] # Undefined
             /\ \A p \in UpTo(path) \ {path} : p \in DOMAIN cfg /\ cfg[p] = Object
  <2>1. PICK from : from = SourceOf(target, source, path)
    OBVIOUS
  <2>2. path \in DOMAIN from /\ getConfigValue(cfg, path) = getConfigValue(from, path) /\ IsConfig(from)
    BY <1>1, <2>1, MergedFrom DEF SourceOf
  <2>3. path \in Seq(STRING) \ {<<>>} /\ cfg[path] # Undefined
    BY <2>2 DEF IsConfig, getConfigValue
  <2>4. ASSUME NEW p \in UpTo(path) \ {path} PROVE p \in DOMAIN cfg /\ cfg[p] = Object
    <3>1. p \in DOMAIN from /\ from[p] = Object /\ p \in Seq(STRING) \ {<<>>} /\ UpTo(p) \subseteq UpTo(path)
      BY <2>2, <2>3, <2>4, ObjectsAbove, UpToIsOrder
    <3>2. getConfigValue(cfg, p) = Object
      <4>1. CASE from = source
        <5>1. getConfigValue(source, p) = Object
          BY <3>1, <4>1 DEF getConfigValue
        <5>2. QED  BY <1>1, <3>1, <5>1, MergedValue
      <4>2. CASE from # source
        <5>1. ~\E q \in UpTo(path) : Replaces(target, source, q)
          BY <2>1, <4>2 DEF SourceOf
        <5>2. SourceOf(target, source, p) = target /\ from = target
          BY <2>1, <3>1, <4>2, <5>1 DEF SourceOf
        <5>3. QED  BY <1>1, <3>1, <5>2, MergedFrom DEF getConfigValue
      <4>3. QED  BY <4>1, <4>2
    <3>3. QED  BY <3>2 DEF getConfigValue, Object, Undefined, Plain
  <2>5. QED  BY <2>3, <2>4
<1>3. QED  BY <1>1, <1>2 DEF IsConfig

\* What a configuration holds below a key.
Below(cfg, key) ==
  [path \in {p \in Seq(STRING) \ {<<>>} : <<key>> \o p \in DOMAIN cfg} |-> cfg[<<key>> \o path]]

\* A path below a key leads through the key, and through what the rest leads through.
LEMMA UpToBelow ==
  ASSUME NEW key \in STRING, NEW path \in Seq(STRING) \ {<<>>}
  PROVE  UpTo(<<key>> \o path) = {<<key>>} \cup {<<key>> \o p : p \in UpTo(path)}
<1>1. path \in Seq(STRING) /\ Len(path) \in Nat
  <2>1. path \in Seq(STRING)
    OBVIOUS
  <2>2. QED  BY <2>1
<1>2. PICK one : one = <<key>>
  OBVIOUS
<1>3. one \in Seq(STRING) /\ Len(one) = 1 /\ one # <<>> /\ one \o <<>> = one
  BY <1>1, <1>2, OneInFront
<1>4. PICK all : all = one \o path
  OBVIOUS
<1>5. /\ all \in Seq(STRING) /\ Len(all) = Len(one) + Len(path) /\ Len(path) \in Nat
      /\ \A l \in 0..Len(path) : SubSeq(all, 1, Len(one) + l) = one \o SubSeq(path, 1, l)
  BY <1>1, <1>3, <1>4, StartOfJoined
<1>6. SubSeq(path, 1, 0) = <<>>
  OBVIOUS
<1>7. \A l \in 0..Len(path) : SubSeq(path, 1, l) \in Seq(STRING) /\ Len(SubSeq(path, 1, l)) = l
  OBVIOUS
<1>8. UpTo(all) = {SubSeq(all, 1, l) : l \in 0..Len(all)} \ {<<>>}
  BY DEF UpTo, Prefixes
<1>9. UpTo(path) = {SubSeq(path, 1, l) : l \in 0..Len(path)} \ {<<>>}
  BY DEF UpTo, Prefixes
<1>10. ASSUME NEW p \in UpTo(all) PROVE p \in {one} \cup {one \o q : q \in UpTo(path)}
  <2>1. PICK l \in 0..Len(all) : p = SubSeq(all, 1, l)
    BY <1>8
  <2>2. l # 0
    <3>1. SubSeq(all, 1, 0) = <<>>
      OBVIOUS
    <3>2. QED  BY <1>8, <1>10, <2>1, <3>1
  <2>3. l - 1 \in 0..Len(path) /\ 1 + (l - 1) = l
    BY <1>3, <1>5, <2>1, <2>2
  <2>4. p = one \o SubSeq(path, 1, l - 1)
    BY <1>3, <1>5, <2>1, <2>3
  <2>5. CASE l - 1 = 0
    BY <1>3, <1>6, <2>4, <2>5
  <2>6. CASE l - 1 # 0
    <3>1. Len(<<>>) = 0
      OBVIOUS
    <3>2. SubSeq(path, 1, l - 1) # <<>>
      BY <1>7, <2>3, <2>6, <3>1
    <3>3. SubSeq(path, 1, l - 1) \in UpTo(path)
      BY <1>9, <2>3, <3>2
    <3>4. QED  BY <2>4, <3>3
  <2>7. QED  BY <2>5, <2>6
<1>11. one \in UpTo(all)
  <2>1. SubSeq(all, 1, 1 + 0) = one
    BY <1>3, <1>5, <1>6
  <2>2. 1 + 0 \in 0..Len(all)
    BY <1>3, <1>5
  <2>3. QED  BY <1>3, <1>8, <2>1, <2>2
<1>12. ASSUME NEW p \in UpTo(path) PROVE one \o p \in UpTo(all)
  <2>1. PICK l \in 0..Len(path) : p = SubSeq(path, 1, l)
    BY <1>9
  <2>2. one \o p = SubSeq(all, 1, 1 + l) /\ 1 + l \in 0..Len(all)
    BY <1>3, <1>5, <2>1
  <2>3. p \in Seq(STRING)
    BY <1>7, <2>1
  <2>4. one \o p # <<>>
    BY <1>2, <2>3, OneInFront
  <2>5. QED  BY <1>8, <2>2, <2>4
<1>13. UpTo(all) = {one} \cup {one \o p : p \in UpTo(path)}
  BY <1>10, <1>11, <1>12
<1>14. QED  BY <1>2, <1>4, <1>13

\* What is found below a key.
LEMMA FoundBelow ==
  ASSUME NEW cfg, NEW key, NEW path \in Seq(STRING) \ {<<>>}
  PROVE  /\ path \in DOMAIN Below(cfg, key) <=> <<key>> \o path \in DOMAIN cfg
         /\ path \in DOMAIN Below(cfg, key) => Below(cfg, key)[path] = cfg[<<key>> \o path]
BY DEF Below

\* A merge goes into objects of both, and has below the key what is below it in both, merged: an entry at a path below
\* is replaced there or is not.
LEMMA ReplacesBelow ==
  ASSUME NEW target, NEW source, NEW key \in STRING, NEW path \in Seq(STRING) \ {<<>>}
  PROVE  Replaces(target, source, <<key>> \o path) <=> Replaces(Below(target, key), Below(source, key), path)
<1>1. PICK all : all = <<key>> \o path
  OBVIOUS
<1>2. PICK t : t = Below(target, key)
  OBVIOUS
<1>3. PICK s : s = Below(source, key)
  OBVIOUS
<1>4. (path \in DOMAIN t <=> all \in DOMAIN target) /\ (path \in DOMAIN t => t[path] = target[all])
  BY <1>1, <1>2, FoundBelow
<1>5. (path \in DOMAIN s <=> all \in DOMAIN source) /\ (path \in DOMAIN s => s[path] = source[all])
  BY <1>1, <1>3, FoundBelow
<1>6. Replaces(target, source, all) <=> Replaces(t, s, path)
  BY <1>4, <1>5 DEF Replaces
<1>7. QED  BY <1>1, <1>2, <1>3, <1>6

\* Below a key in both objects, a path comes from the same tree as in the merge of what is below.
LEMMA SourceBelow ==
  ASSUME NEW target, NEW source, NEW key \in STRING, NEW path \in Seq(STRING) \ {<<>>}
  PROVE  SourceOf(target, source, <<key>> \o path) =
           IF \/ Replaces(target, source, <<key>>)
              \/ \E p \in UpTo(path) : Replaces(Below(target, key), Below(source, key), p)
           THEN source ELSE target
<1>1. \A p \in UpTo(path) : p \in Seq(STRING) \ {<<>>}
  BY UpToIsOrder
<1>2. \A p \in UpTo(path) :
        Replaces(target, source, <<key>> \o p) <=> Replaces(Below(target, key), Below(source, key), p)
  BY <1>1, ReplacesBelow
<1>3. (\E p \in UpTo(<<key>> \o path) : Replaces(target, source, p)) <=>
        \/ Replaces(target, source, <<key>>)
        \/ \E p \in UpTo(path) : Replaces(target, source, <<key>> \o p)
  <2>1. PICK above : above = UpTo(path)
    OBVIOUS
  <2>2. PICK all : all = UpTo(<<key>> \o path)
    OBVIOUS
  <2>3. all = {<<key>>} \cup {<<key>> \o p : p \in above}
    BY <2>1, <2>2, UpToBelow
  <2>4. (\E p \in all : Replaces(target, source, p)) <=>
          Replaces(target, source, <<key>>) \/ \E p \in above : Replaces(target, source, <<key>> \o p)
    BY <2>3
  <2>5. QED  BY <2>1, <2>2, <2>4
<1>4. QED  BY <1>2, <1>3 DEF SourceOf

\* What is below a key is the same if the same is found at its paths.
LEMMA SameBelow ==
  ASSUME NEW a, NEW b, NEW key \in STRING, a = [p \in DOMAIN a |-> a[p]], b = [p \in DOMAIN b |-> b[p]],
         DOMAIN b \subseteq Seq(STRING) \ {<<>>}, DOMAIN a \subseteq Seq(STRING) \ {<<>>},
         \A path \in Seq(STRING) \ {<<>>} :
           /\ path \in DOMAIN a <=> path \in DOMAIN b
           /\ path \in DOMAIN a => a[path] = b[path]
  PROVE  a = b
<1>1. DOMAIN a = DOMAIN b
  OBVIOUS
<1>2. QED  BY <1>1

\* deepMerge is what the code's recursion computes, key by key (boot.node.ts 28-39).
THEOREM MergeGoesDown ==
  ASSUME NEW target, NEW source, IsConfig(target), IsConfig(source), NEW key \in STRING
  PROVE  LET merged == deepMerge(target, source)
             inBoth == getConfigValue(target, <<key>>) = Object /\ getConfigValue(source, <<key>>) = Object
         IN  IF inBoth
             THEN /\ getConfigValue(merged, <<key>>) = Object
                  /\ Below(merged, key) = deepMerge(Below(target, key), Below(source, key))
             ELSE LET from == IF <<key>> \in DOMAIN source THEN source ELSE target IN
                  /\ getConfigValue(merged, <<key>>) = getConfigValue(from, <<key>>)
                  /\ Below(merged, key) = Below(from, key)
<1>1. PICK merged : merged = deepMerge(target, source)
  OBVIOUS
<1>2. <<key>> \in Seq(STRING) \ {<<>>} /\ <<>> \in Seq(STRING)
  <2>1. <<>> \in Seq(STRING)
    OBVIOUS
  <2>2. QED  BY <2>1, OneInFront
<1>3. UpTo(<<key>>) = {<<key>>}
  <2>1. PICK one : one = <<key>>
    OBVIOUS
  <2>2. one \in Seq(STRING) /\ Len(one) = 1 /\ one # <<>>
    BY <1>2, <2>1, OneInFront
  <2>3. UpTo(one) = {SubSeq(one, 1, l) : l \in 0..Len(one)} \ {<<>>}
    BY DEF UpTo, Prefixes
  <2>4. SubSeq(one, 1, 0) = <<>> /\ SubSeq(one, 1, 1) = one
    <3>1. SubSeq(one, 1, 0) = <<>>
      OBVIOUS
    <3>2. SubSeq(one, 1, 1) = one
      BY <2>2
    <3>3. QED  BY <3>1, <3>2
  <2>5. 0..Len(one) = {0, 1}
    BY <2>2
  <2>6. UpTo(one) = {one}
    BY <2>2, <2>3, <2>4, <2>5
  <2>7. QED  BY <2>1, <2>6
<1>4. ASSUME NEW path \in Seq(STRING) \ {<<>>}
      PROVE  /\ <<key>> \o path \in Seq(STRING) \ {<<>>}
             /\ <<key>> \in UpTo(<<key>> \o path) /\ <<key>> \o path # <<key>>
  <2>1. <<key>> \o path \in Seq(STRING) \ {<<>>} /\ Len(<<key>> \o path) = 1 + Len(path)
    BY OneInFront
  <2>2. Len(<<key>>) = 1 /\ Len(path) # 0
    <3>1. path \in Seq(STRING) /\ path # <<>>
      OBVIOUS
    <3>2. Len(path) # 0
      BY <3>1
    <3>3. QED  BY <1>2, <3>2, OneInFront
  <2>3. <<key>> \o path # <<key>>
    <3>1. path \in Seq(STRING)
      OBVIOUS
    <3>2. Len(path) \in Nat
      BY <3>1
    <3>3. PICK all : all = <<key>> \o path /\ Len(all) = 1 + Len(path)
      BY <2>1
    <3>4. PICK one : one = <<key>> /\ Len(one) = 1
      BY <2>2
    <3>5. all # one
      <4>1. 1 + Len(path) # 1
        BY <2>2, <3>2
      <4>2. Len(all) # Len(one)
        BY <3>3, <3>4, <4>1
      <4>3. QED  BY <4>2
    <3>6. QED  BY <3>3, <3>4, <3>5
  <2>4. QED  BY <2>1, <2>3, UpToBelow
<1>5. ASSUME NEW path \in Seq(STRING) \ {<<>>}
      PROVE  /\ path \in DOMAIN Below(merged, key) <=> <<key>> \o path \in DOMAIN SourceOf(target, source, <<key>> \o path)
             /\ path \in DOMAIN Below(merged, key) =>
                  Below(merged, key)[path] = SourceOf(target, source, <<key>> \o path)[<<key>> \o path]
  <2>1. PICK all : all = <<key>> \o path
    OBVIOUS
  <2>2. /\ getConfigValue(merged, all) = getConfigValue(SourceOf(target, source, all), all)
        /\ all \in DOMAIN merged <=> all \in DOMAIN SourceOf(target, source, all)
    BY <1>1, MergedFrom
  <2>3. all \in DOMAIN merged => merged[all] = SourceOf(target, source, all)[all]
    BY <2>2 DEF getConfigValue
  <2>4. QED  BY <2>1, <2>2, <2>3, FoundBelow
<1>6. DOMAIN Below(merged, key) \subseteq Seq(STRING) \ {<<>>}
      /\ Below(merged, key) = [p \in DOMAIN Below(merged, key) |-> Below(merged, key)[p]]
  BY DEF Below
<1>7. \A cfg : getConfigValue(cfg, <<key>>) = Object <=> (<<key>> \in DOMAIN cfg /\ cfg[<<key>>] = Object)
  BY DEF getConfigValue, Object, Undefined, Plain
<1>8. getConfigValue(merged, <<key>>) = getConfigValue(SourceOf(target, source, <<key>>), <<key>>)
  BY <1>1, MergedFrom
<1>9. SourceOf(target, source, <<key>>) = IF Replaces(target, source, <<key>>) THEN source ELSE target
  BY <1>3 DEF SourceOf
<1>10. CASE getConfigValue(target, <<key>>) = Object /\ getConfigValue(source, <<key>>) = Object
  <2>1. ~Replaces(target, source, <<key>>)
    BY <1>7, <1>10 DEF Replaces
  <2>2. getConfigValue(merged, <<key>>) = Object
    BY <1>8, <1>9, <1>10, <2>1
  <2>3. PICK below : below = deepMerge(Below(target, key), Below(source, key))
    OBVIOUS
  <2>4. below = [p \in DOMAIN below |-> below[p]] /\ DOMAIN below \subseteq Seq(STRING) \ {<<>>}
    <3>1. DOMAIN below \subseteq DOMAIN Below(target, key) \cup DOMAIN Below(source, key)
      BY <2>3 DEF deepMerge
    <3>2. below = [p \in DOMAIN below |-> below[p]]
      BY <2>3 DEF deepMerge
    <3>3. QED  BY <3>1, <3>2 DEF Below
  <2>5. ASSUME NEW path \in Seq(STRING) \ {<<>>}
        PROVE  /\ path \in DOMAIN Below(merged, key) <=> path \in DOMAIN below
               /\ path \in DOMAIN Below(merged, key) => Below(merged, key)[path] = below[path]
    <3>1. PICK from : from = SourceOf(target, source, <<key>> \o path)
      OBVIOUS
    <3>2. SourceOf(Below(target, key), Below(source, key), path) = Below(from, key)
      BY <2>1, <3>1, SourceBelow DEF SourceOf
    <3>3. /\ getConfigValue(below, path) = getConfigValue(Below(from, key), path)
          /\ path \in DOMAIN below <=> path \in DOMAIN Below(from, key)
      BY <2>3, <3>2, MergedFrom
    <3>4. path \in DOMAIN below => below[path] = Below(from, key)[path]
      BY <3>3 DEF getConfigValue
    <3>5. QED  BY <1>5, <3>1, <3>3, <3>4, FoundBelow
  <2>6. Below(merged, key) = below
    BY <1>6, <2>4, <2>5, SameBelow
  <2>7. QED  BY <1>1, <1>10, <2>2, <2>3, <2>6
<1>11. CASE ~(getConfigValue(target, <<key>>) = Object /\ getConfigValue(source, <<key>>) = Object)
  <2>1. PICK from : from = IF <<key>> \in DOMAIN source THEN source ELSE target
    OBVIOUS
  <2>2. SourceOf(target, source, <<key>>) = from
    BY <1>7, <1>9, <1>11, <2>1 DEF Replaces
  <2>3. ASSUME NEW path \in Seq(STRING) \ {<<>>} PROVE SourceOf(target, source, <<key>> \o path) = from
    <3>1. CASE <<key>> \in DOMAIN source
      <4>1. Replaces(target, source, <<key>>)
        BY <1>7, <1>11, <3>1 DEF Replaces
      <4>2. QED  BY <2>1, <3>1, <4>1, SourceBelow
    <3>2. CASE <<key>> \notin DOMAIN source
      <4>1. ~Replaces(target, source, <<key>>)
        BY <3>2 DEF Replaces
      <4>2. ASSUME NEW p \in UpTo(path) PROVE ~Replaces(Below(target, key), Below(source, key), p)
        <5>1. p \in Seq(STRING) \ {<<>>}
          BY UpToIsOrder
        <5>2. <<key>> \o p \notin DOMAIN source
          BY <1>4, <3>2, <5>1, ObjectsAbove
        <5>3. QED  BY <5>1, <5>2, FoundBelow DEF Replaces
      <4>3. QED  BY <2>1, <3>2, <4>1, <4>2, SourceBelow
    <3>3. QED  BY <3>1, <3>2
  <2>4. Below(from, key) = [p \in DOMAIN Below(from, key) |-> Below(from, key)[p]]
        /\ DOMAIN Below(from, key) \subseteq Seq(STRING) \ {<<>>}
    BY DEF Below
  <2>5. \A path \in Seq(STRING) \ {<<>>} :
          /\ path \in DOMAIN Below(merged, key) <=> path \in DOMAIN Below(from, key)
          /\ path \in DOMAIN Below(merged, key) => Below(merged, key)[path] = Below(from, key)[path]
    <3>1. ASSUME NEW path \in Seq(STRING) \ {<<>>}
          PROVE  /\ path \in DOMAIN Below(merged, key) <=> path \in DOMAIN Below(from, key)
                 /\ path \in DOMAIN Below(merged, key) => Below(merged, key)[path] = Below(from, key)[path]
      <4>1. SourceOf(target, source, <<key>> \o path) = from
        BY <2>3
      <4>2. PICK all : all = <<key>> \o path
        OBVIOUS
      <4>3. /\ path \in DOMAIN Below(merged, key) <=> all \in DOMAIN from
            /\ path \in DOMAIN Below(merged, key) => Below(merged, key)[path] = from[all]
        BY <1>5, <4>1, <4>2
      <4>4. /\ path \in DOMAIN Below(from, key) <=> all \in DOMAIN from
            /\ path \in DOMAIN Below(from, key) => Below(from, key)[path] = from[all]
        BY <4>2, FoundBelow
      <4>5. QED  BY <4>3, <4>4
    <3>2. QED  BY <3>1
  <2>6. Below(merged, key) = Below(from, key)
    BY <1>6, <2>4, <2>5, SameBelow
  <2>7. getConfigValue(merged, <<key>>) = getConfigValue(from, <<key>>)
    BY <1>8, <2>2
  <2>8. QED  BY <1>1, <1>11, <2>1, <2>6, <2>7
<1>12. QED  BY <1>10, <1>11

\* A configuration that says nothing of a path has an object there, or nothing.
LEMMA Silent ==
  ASSUME NEW cfg, NEW path \in Seq(STRING) \ {<<>>}, ~Speaks(cfg, path)
  PROVE  getConfigValue(cfg, path) \in {Object, Undefined}
BY UpToIsOrder DEF Speaks, getConfigValue

\* Two layers that are merged have the last word of both, where it is no object.
LEMMA LastOfTwo ==
  ASSUME NEW target, NEW source, IsConfig(target), IsConfig(source), NEW path \in Seq(STRING) \ {<<>>},
         NEW node, node = getConfigValue(deepMerge(target, source), path), node # Object
  PROVE  /\ Speaks(source, path) => node = getConfigValue(source, path)
         /\ ~Speaks(source, path) => node = getConfigValue(target, path)
<1>1. node = IF Speaks(source, path) \/ getConfigValue(source, path) = Object
             THEN getConfigValue(source, path) ELSE getConfigValue(target, path)
  BY MergedValue
<1>2. QED  BY <1>1

\* The strongest of some numbered layers.
LEMMA StrongestLayer ==
  ASSUME NEW S \in SUBSET {1, 2, 3}, NEW i \in S, \A j \in S : j <= i
  PROVE  (CHOOSE k \in S : \A j \in S : j <= k) = i
<1>1. PICK k : k = CHOOSE m \in S : \A j \in S : j <= m
  OBVIOUS
<1>2. k \in S /\ \A j \in S : j <= k
  BY <1>1
<1>3. k <= i /\ i <= k /\ i \in {1, 2, 3} /\ k \in {1, 2, 3}
  BY <1>2
<1>4. QED  BY <1>1, <1>3

\* The last word of three layers is that of the last one that speaks.
LEMMA LastWordOf ==
  ASSUME NEW layers, DOMAIN layers = {1, 2, 3}, NEW path, NEW i \in {1, 2, 3}, Speaks(layers[i], path),
         \A j \in {1, 2, 3} : Speaks(layers[j], path) => j <= i
  PROVE  LastWord(layers, path) =
           IF getConfigValue(layers[i], path) \in {Undefined, Null} THEN Plain("default")
           ELSE getConfigValue(layers[i], path)
<1>1. PICK S : S = {j \in DOMAIN layers : Speaks(layers[j], path)}
  OBVIOUS
<1>2. S \in SUBSET {1, 2, 3} /\ i \in S /\ \A j \in S : j <= i
  BY <1>1
<1>3. (CHOOSE k \in S : \A j \in S : j <= k) = i
  BY <1>2, StrongestLayer
<1>4. S # {}
  BY <1>2
<1>5. QED  BY <1>1, <1>3, <1>4 DEF LastWord

\* If none speaks it is the default.
LEMMA NoWord ==
  ASSUME NEW layers, NEW path, \A j \in DOMAIN layers : ~Speaks(layers[j], path)
  PROVE  LastWord(layers, path) = Plain("default")
<1>1. {j \in DOMAIN layers : Speaks(layers[j], path)} = {}
  OBVIOUS
<1>2. QED  BY <1>1 DEF LastWord

\* A setting is what the last layer that speaks of it says.
LEMMA SettingIsLastWord ==
  ASSUME NEW d, NEW e, NEW l, IsConfig(d), IsConfig(e), IsConfig(l), NEW path \in Seq(STRING) \ {<<>>},
         NEW node, node = getConfigValue(deepMerge(deepMerge(d, e), l), path)
  PROVE  \/ node = Object
         \/ LastWord(<<d, e, l>>, path) = IF node \in {Undefined, Null} THEN Plain("default") ELSE node
<1>1. SUFFICES ASSUME node # Object
               PROVE LastWord(<<d, e, l>>, path) = IF node \in {Undefined, Null} THEN Plain("default") ELSE node
  OBVIOUS
<1>2. PICK below : below = deepMerge(d, e)
  OBVIOUS
<1>3. IsConfig(below)
  BY <1>2, MergedIsConfig
<1>4. /\ Speaks(l, path) => node = getConfigValue(l, path)
      /\ ~Speaks(l, path) => node = getConfigValue(below, path)
  BY <1>1, <1>2, <1>3, LastOfTwo
<1>5. ASSUME ~Speaks(l, path)
      PROVE  /\ Speaks(e, path) => node = getConfigValue(e, path)
             /\ ~Speaks(e, path) => node = getConfigValue(d, path)
  BY <1>1, <1>2, <1>4, <1>5, LastOfTwo
<1>6. PICK layers : layers = <<d, e, l>>
  OBVIOUS
<1>7. DOMAIN layers = {1, 2, 3} /\ layers[1] = d /\ layers[2] = e /\ layers[3] = l
  BY <1>6
<1>8. CASE Speaks(l, path)
  <2>1. Speaks(layers[3], path) /\ \A j \in {1, 2, 3} : j <= 3
    BY <1>7, <1>8
  <2>2. LastWord(layers, path) = IF getConfigValue(layers[3], path) \in {Undefined, Null} THEN Plain("default")
                                 ELSE getConfigValue(layers[3], path)
    BY <1>7, <2>1, LastWordOf
  <2>3. QED  BY <1>4, <1>6, <1>7, <1>8, <2>2
<1>9. CASE ~Speaks(l, path) /\ Speaks(e, path)
  <2>1. Speaks(layers[2], path) /\ \A j \in {1, 2, 3} : Speaks(layers[j], path) => j <= 2
    BY <1>7, <1>9
  <2>2. LastWord(layers, path) = IF getConfigValue(layers[2], path) \in {Undefined, Null} THEN Plain("default")
                                 ELSE getConfigValue(layers[2], path)
    BY <1>7, <2>1, LastWordOf
  <2>3. QED  BY <1>5, <1>6, <1>7, <1>9, <2>2
<1>10. CASE ~Speaks(l, path) /\ ~Speaks(e, path) /\ Speaks(d, path)
  <2>1. Speaks(layers[1], path) /\ \A j \in {1, 2, 3} : Speaks(layers[j], path) => j <= 1
    BY <1>7, <1>10
  <2>2. LastWord(layers, path) = IF getConfigValue(layers[1], path) \in {Undefined, Null} THEN Plain("default")
                                 ELSE getConfigValue(layers[1], path)
    BY <1>7, <2>1, LastWordOf
  <2>3. QED  BY <1>5, <1>6, <1>7, <1>10, <2>2
<1>11. CASE ~Speaks(l, path) /\ ~Speaks(e, path) /\ ~Speaks(d, path)
  <2>1. node = Undefined
    BY <1>1, <1>5, <1>11, Silent
  <2>2. \A j \in DOMAIN layers : ~Speaks(layers[j], path)
    BY <1>7, <1>11
  <2>3. QED  BY <1>6, <2>1, <2>2, NoWord
<1>12. QED  BY <1>8, <1>9, <1>10, <1>11

\* The first locale of a language is available and of that language.
LEMMA LocaleMatches ==
  ASSUME NEW loc \in Locale, NEW available \in Seq(Locale)
  PROVE  LET got == matchLocale(loc, available) IN
         /\ got \in Range(available) \cup {English}
         /\ loc \in Range(available) => got = loc
         /\ (\E a \in Range(available) : a[1] = loc[1]) => got[1] = loc[1]
<1>1. PICK regions : regions = {i \in DOMAIN available : available[i][1] = loc[1] /\ available[i][2] # ""}
  OBVIOUS
<1>2. PICK got : got = matchLocale(loc, available)
  OBVIOUS
<1>3. \A i \in DOMAIN available : available[i] \in Range(available)
  BY DEF Range
<1>4. CASE loc \in Range(available)
  BY <1>2, <1>4 DEF matchLocale
<1>5. CASE loc \notin Range(available) /\ <<loc[1], "">> \in Range(available)
  BY <1>2, <1>5 DEF matchLocale
<1>6. CASE loc \notin Range(available) /\ <<loc[1], "">> \notin Range(available) /\ regions # {}
  <2>1. PICK i \in regions : i = CHOOSE m \in regions : \A j \in regions : m <= j
    <3>1. regions \in SUBSET Nat
      <4>1. DOMAIN available \subseteq Nat
        OBVIOUS
      <4>2. QED  BY <1>1, <4>1
    <3>2. \E m \in regions : \A j \in regions : m <= j
      BY <1>6, <3>1, NatLeast
    <3>3. QED  BY <3>2
  <2>2. got = available[i]
    BY <1>1, <1>2, <1>6, <2>1 DEF matchLocale
  <2>3. QED  BY <1>1, <1>2, <1>3, <1>6, <2>2
<1>7. CASE loc \notin Range(available) /\ <<loc[1], "">> \notin Range(available) /\ regions = {}
  <2>1. got = English
    BY <1>1, <1>2, <1>7 DEF matchLocale
  <2>2. ASSUME NEW a \in Range(available), a[1] = loc[1] PROVE FALSE
    <3>1. PICK i \in DOMAIN available : a = available[i]
      BY DEF Range
    <3>2. a[2] = ""
      BY <1>1, <1>7, <2>2, <3>1
    <3>3. a \in Language \X Region
      BY <3>1 DEF Locale
    <3>4. a = <<loc[1], "">>
      <4>1. a = <<a[1], a[2]>>
        BY <3>3
      <4>2. QED  BY <2>2, <3>2, <4>1
    <3>5. QED  BY <1>7, <3>4
  <2>3. QED  BY <1>2, <1>7, <2>1, <2>2
<1>8. QED  BY <1>4, <1>5, <1>6, <1>7

\* In the compact form a message that exists in English has a text.
LEMMA MessageHasText ==
  ASSUME NEW locale, NEW files, files.compact, IsRead(files.english), NEW key \in files.english.json,
         key \in MessageKey
  PROVE  loadLocale(locale, files)[key] # "none"
BY DEF loadLocale, Text

\* Invariant: what was built is built of the files that the server started with.
BootInv == bootFiles \in BootInputs /\ (bootPayload.state = "built" => bootPayload = buildBootPayload(bootFiles)
                                          /\ ~Throws(bootFiles))

\* The payload is right, whatever files there are (boot.node.ts 149-321).
THEOREM PayloadIsRight == BootSpec => []BootPayloadIsRight
<1>1. BootInit => BootInv
  BY DEF BootInit, BootInv
<1>2. ASSUME BootInv, [BootNext]_bootVars PROVE BootInv'
  <2>1. CASE BuildBoot
    <3>1. CASE Throws(bootFiles)
      BY <1>2, <2>1, <3>1 DEF BootInv, BuildBoot
    <3>2. CASE ~Throws(bootFiles)
      BY <1>2, <2>1, <3>2 DEF BootInv, BuildBoot
    <3>3. QED  BY <3>1, <3>2
  <2>2. CASE UNCHANGED bootVars
    BY <1>2, <2>2 DEF BootInv, bootVars
  <2>3. QED  BY <1>2, <2>1, <2>2 DEF BootNext
<1>3. BootInv => BootPayloadIsRight
  <2>1. SUFFICES ASSUME BootInv, bootPayload.state = "built" PROVE BootPayloadIsRight
    BY DEF BootPayloadIsRight
  <2> DEFINE files == bootFiles
             available == getAvailableLocales(files)
             locale == matchLocale(files.hint, available)
             layers == <<files.default.json, Layer(files.env), Layer(files.local)>>
  <2>2. files \in BootInputs /\ bootPayload = buildBootPayload(files) /\ ~Throws(files)
    BY <2>1 DEF BootInv
  <2>3. /\ bootPayload.config = ConfigOf(Merged(files)) /\ bootPayload.locale = locale
        /\ bootPayload.messages = loadLocale(locale, files)
    BY <2>2 DEF buildBootPayload
  <2>4. IsConfig(files.default.json) /\ IsConfig(Layer(files.env)) /\ IsConfig(Layer(files.local))
    <3>1. IsConfig(<<>>)
      BY DEF IsConfig
    <3>2. IsRead(files.default)
      BY <2>2 DEF Throws
    <3>3. QED  BY <2>2, <3>1, <3>2, BootAssumption DEF Layer
  <2>5. ASSUME NEW path \in ConfigPath
        PROVE  bootPayload.config[path] = LastWord(layers, path) \/ bootPayload.config[path].object
    <3>1. path \in Seq(STRING) \ {<<>>}
      BY BootAssumption
    <3>2. PICK node : node = getConfigValue(Merged(files), path)
      OBVIOUS
    <3>3. bootPayload.config[path] = IF node \in {Undefined, Null} THEN Plain("default") ELSE node
      BY <2>3, <3>2 DEF ConfigOf
    <3>4. node = Object \/ LastWord(layers, path) = IF node \in {Undefined, Null} THEN Plain("default") ELSE node
      BY <2>4, <3>1, <3>2, SettingIsLastWord DEF Merged
    <3>5. node = Object => bootPayload.config[path].object
      BY <3>3 DEF Object, Undefined, Null, Plain
    <3>6. QED  BY <3>3, <3>4, <3>5
  <2>6. /\ locale \in Range(available) \cup {English}
        /\ files.hint \in Range(available) => locale = files.hint
        /\ (\E a \in Range(available) : a[1] = files.hint[1]) => locale[1] = files.hint[1]
    <3>1. files.hint \in Locale
      BY <2>2, BootAssumption
    <3>2. English \in Locale
      BY BootAssumption
    <3>3. available \in Seq(Locale)
      BY <2>2, <3>2, BootAssumption DEF getAvailableLocales
    <3>4. QED  BY <3>1, <3>3, LocaleMatches
  <2>7. files.compact /\ IsRead(files.english) =>
          \A key \in files.english.json : bootPayload.messages[key] # "none"
    <3>1. IsRead(files.english) => files.english.json \subseteq MessageKey
      BY <2>2, BootAssumption
    <3>2. QED  BY <2>3, <3>1, MessageHasText
  <2>8. QED  BY <2>3, <2>5, <2>6, <2>7 DEF BootPayloadIsRight
<1>4. QED  BY <1>1, <1>2, <1>3, PTL DEF BootSpec
=============================================================================
