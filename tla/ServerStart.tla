---------------------------- MODULE ServerStart ----------------------------
(***************************************************************************)
(* The life of a server process and the files it leaves on disk:           *)
(* scripts/start.mjs, startServer and the signal handlers of               *)
(* index.node.ts, loadOrCreateSqlKey of sql.node.ts, the settings store of *)
(* ipc.node.ts.  Several processes may be started on one data directory    *)
(* and one port.  A process can die between any two steps, also between    *)
(* the truncation of a file and the write of its bytes.                    *)
(*                                                                         *)
(* The worker pool behind initializeSQL and closeSQL is module SqlPool;    *)
(* here the database is the key it was created with.                       *)
(***************************************************************************)
EXTENDS Integers

CONSTANTS
  Process,         \* server processes
  Setting, Value,  \* names and values of settings
  MaxStarts,       \* bound: starts
  MaxSets          \* bound: settings:set calls

ASSUME StartAssumption == MaxStarts \in Nat /\ MaxSets \in Nat

VARIABLES
  configFile,   \* config.json: Absent, Short or the number of its key
  dbKey,        \* the key the database was created with, 0 if there is none
  settingsFile, \* what settings.json parses to: nothing when it is absent or short
  server,       \* the processes
  launcher,     \* per process, its start.mjs
  starts, sets, \* counts of the bounded steps
  acked,        \* per setting, the values a client may expect to read
  lost,         \* the settings whose value went with a file cut short
  raced         \* history: two processes have found no key at the same time
startVars == <<configFile, dbKey, settingsFile, server, launcher, starts, sets, acked, lost, raced>>

Unset    == "unset"
Settings == [Setting -> Value \cup {Unset}]
NoSettings == [n \in Setting |-> Unset]
Absent == 0
Short  == -1
Off == [pc |-> "off", key |-> Absent, dbOpen |-> FALSE, port |-> FALSE, loaded |-> FALSE,
        cache |-> NoSettings, set |-> <<>>, exit |-> "none"]

\* process.exit: with the database open, the sqlcipher finalizer aborts.
Exited(s) == [Off EXCEPT !.exit = IF s.dbOpen THEN "abort" ELSE "clean"]

StartInit ==
  /\ configFile = Absent
  /\ dbKey = 0
  /\ settingsFile = NoSettings
  /\ server = [p \in Process |-> Off]
  /\ launcher = [p \in Process |-> "none"]
  /\ starts = 0 /\ sets = 0
  /\ acked = [n \in Setting |-> {Unset}]
  /\ lost = {}
  /\ raced = FALSE
----------------------------------------------------------------------------
At(p, pc) == server[p].pc = pc
Goto(p, pc) == server' = [server EXCEPT ![p].pc = pc]
Fail(p) == server' = [server EXCEPT ![p] = Exited(@)]
disk == <<configFile, dbKey, settingsFile>>
counts == <<starts, sets, acked, lost, raced>>

\* start.mjs spawns the server, and waits for it; `key` is the one it will make.
Launch(p) ==
  /\ At(p, "off") /\ launcher[p] = "none"
  /\ starts < MaxStarts
  /\ starts' = starts + 1
  /\ launcher' = [launcher EXCEPT ![p] = "waiting"]
  /\ server' = [server EXCEPT ![p] = [Off EXCEPT !.pc = "dirs", !.key = starts + 1]]
  /\ UNCHANGED <<disk, sets, acked, lost, raced>>

\* It exits with its child's code; a signal to it alone leaves the child running.
LauncherEnds(p) ==
  /\ launcher[p] = "waiting"
  /\ launcher' = [launcher EXCEPT ![p] = "none"]
  /\ UNCHANGED <<disk, server, counts>>

\* mkdir and the init of ipc, fs, attachments and optional resources.
MakeDirs(p) ==
  /\ At(p, "dirs")
  /\ Goto(p, "native") \/ Fail(p)
  /\ UNCHANGED <<disk, launcher, counts>>

\* Only the import of libsignal can fail; an error of its bootstrap is logged.
InitNative(p) ==
  /\ At(p, "native")
  /\ Goto(p, "key") \/ Fail(p)
  /\ UNCHANGED <<disk, launcher, counts>>

\* existsSync, then read the key, or make one and truncate a file for it: another
\* process may come between.
WholeConfig(file)  == file \notin {Absent, Short}
ConfigExists(file) == file # Absent
LoadKey(p) ==
  /\ At(p, "key")
  /\ \/ ConfigExists(configFile) /\ configFile = Short /\ Fail(p)
     \/ /\ ConfigExists(configFile) /\ configFile # Short
        /\ server' = [server EXCEPT ![p].pc = "init", ![p].key = configFile]
     \/ /\ ~ConfigExists(configFile)
        /\ Goto(p, "createKey")
  /\ raced' = (raced \/ (~ConfigExists(configFile) /\ \E q \in Process : At(q, "createKey")))
  /\ UNCHANGED <<disk, launcher, starts, sets, acked, lost>>

CreateKey(p) ==
  /\ At(p, "createKey")
  /\ \/ configFile' = Short /\ Goto(p, "writeKey")
     \/ UNCHANGED configFile /\ Fail(p)
  /\ UNCHANGED <<dbKey, settingsFile, launcher, counts>>

WriteKey(p) ==
  /\ At(p, "writeKey")
  /\ \/ configFile' = server[p].key /\ Goto(p, "init")
     \/ UNCHANGED configFile /\ Fail(p)
  /\ UNCHANGED <<dbKey, settingsFile, launcher, counts>>

\* The workers open the database, or create it; a wrong key fails the start, and
\* initializeSQL terminates the workers.
OpenDb(p) ==
  /\ At(p, "init")
  /\ \/ /\ dbKey \in {0, server[p].key}
        /\ dbKey' = server[p].key
        /\ server' = [server EXCEPT ![p].pc = "payload", ![p].dbOpen = TRUE]
     \/ UNCHANGED dbKey /\ Fail(p)
  /\ UNCHANGED <<configFile, settingsFile, launcher, counts>>

\* The native manifest is optional, config/default.json and package.json are not.
BuildPayload(p) ==
  /\ At(p, "payload")
  /\ Goto(p, "listen") \/ Fail(p)
  /\ UNCHANGED <<disk, launcher, counts>>

\* The port is taken while another process serves or closes.
PortOwner == {q \in Process : server[q].port}
Listen(p) ==
  /\ At(p, "listen")
  /\ IF PortOwner = {}
     THEN server' = [server EXCEPT ![p].pc = "serving", ![p].port = TRUE]
     ELSE Fail(p)
  /\ UNCHANGED <<disk, launcher, counts>>

\* SIGINT or SIGTERM, heard where the code awaits: closeSQL, then exit. What the
\* start would still do before the exit is left out.
Signal(p) ==
  /\ server[p].pc \in {"native", "init", "listen", "serving"}
  /\ Goto(p, "closing")
  /\ UNCHANGED <<disk, launcher, counts>>

CloseDone(p) ==
  /\ At(p, "closing")
  /\ server' = [server EXCEPT ![p] = Exited([@ EXCEPT !.dbOpen = FALSE])]
  /\ UNCHANGED <<disk, launcher, counts>>

Kill(p) ==
  /\ ~At(p, "off")
  /\ server' = [server EXCEPT ![p] = Off]
  /\ lost' = IF At(p, "saving") THEN Setting ELSE lost
  /\ UNCHANGED <<disk, launcher, starts, sets, acked, raced>>
----------------------------------------------------------------------------
\* The cache, or else the file, of which an unreadable one counts as empty.
loadSettings(p) == IF server[p].loaded THEN server[p].cache ELSE settingsFile

GetSetting(p) ==
  /\ At(p, "serving")
  /\ server' = [server EXCEPT ![p].loaded = TRUE, ![p].cache = loadSettings(p)]
  /\ UNCHANGED <<disk, launcher, counts>>

\* settings:set: the cache changes and saveSettings truncates the file, unless it
\* cannot be opened: then the call is rejected, the cache keeping the value.
savedBefore(p) == [server[p].cache EXCEPT ![server[p].set[1]] = server[p].set[2]]
saved(p)       == server[p].cache
SetSetting(p, n, v) ==
  /\ At(p, "serving")
  /\ sets < MaxSets
  /\ sets' = sets + 1
  /\ LET cache == [loadSettings(p) EXCEPT ![n] = v] IN
     \/ /\ settingsFile' = NoSettings
        /\ server' = [server EXCEPT ![p].loaded = TRUE, ![p].cache = cache, ![p].pc = "saving",
                                    ![p].set = <<n, loadSettings(p)[n], v>>]
        /\ UNCHANGED acked
     \/ /\ server' = [server EXCEPT ![p].loaded = TRUE, ![p].cache = cache]
        /\ acked' = [acked EXCEPT ![n] = @ \cup {v}]
        /\ UNCHANGED settingsFile
  /\ UNCHANGED <<configFile, dbKey, launcher, starts, lost, raced>>

\* The bytes are written and the call answered, or the disk is full and it is
\* rejected, the file staying short.
SaveSetting(p) ==
  LET n == server[p].set[1] v == server[p].set[3]
  IN  /\ At(p, "saving")
      /\ \/ /\ settingsFile' = saved(p)
            /\ acked' = [acked EXCEPT ![n] = {v}]
            /\ lost' = lost \ {n}
         \/ /\ acked' = [acked EXCEPT ![n] = @ \cup {v}]
            /\ lost' = Setting
            /\ UNCHANGED settingsFile
      /\ server' = [server EXCEPT ![p].pc = "serving", ![p].set = <<>>]
      /\ UNCHANGED <<configFile, dbKey, launcher, starts, sets, raced>>

\* sql-channel:remove-db closes the database and deletes nothing; the server goes on.
RemoveDb(p) ==
  /\ At(p, "serving")
  /\ server' = [server EXCEPT ![p].dbOpen = FALSE]
  /\ UNCHANGED <<disk, launcher, counts>>

StartNext ==
  \/ \E p \in Process :
       \/ Launch(p) \/ LauncherEnds(p) \/ MakeDirs(p) \/ InitNative(p) \/ LoadKey(p)
       \/ CreateKey(p) \/ WriteKey(p) \/ OpenDb(p) \/ BuildPayload(p) \/ Listen(p)
       \/ Signal(p) \/ CloseDone(p) \/ Kill(p)
       \/ GetSetting(p) \/ SaveSetting(p) \/ RemoveDb(p)
       \/ \E n \in Setting, v \in Value : SetSetting(p, n, v)
StartSpec == StartInit /\ [][StartNext]_startVars
----------------------------------------------------------------------------
StartTypeOK ==
  /\ configFile \in Short..MaxStarts
  /\ dbKey \in 0..MaxStarts
  /\ settingsFile \in Settings
  /\ \A p \in Process : server[p].cache \in Settings /\ server[p].key \in 0..MaxStarts
  /\ launcher \in [Process -> {"none", "waiting"}]
  /\ acked \in [Setting -> SUBSET (Value \cup {Unset})]
  /\ lost \subseteq Setting
  /\ raced \in BOOLEAN

(* The key on disk opens the database, whatever start was cut short or ran  *)
(* beside others, also beside the first: a key file cut short is never       *)
(* replaced, and the one case that costs the key is that of two processes    *)
(* which both saw no file before either had made one (sql.node.ts 173-211). *)
KeyOpensDatabase == ~raced /\ dbKey # 0 => configFile = dbKey

(* A setting reads as the last value a client was told is saved, or as one  *)
(* whose save was refused since: in the server that answers, and in the     *)
(* file that a start would find, whatever set or start went before; only a  *)
(* file cut short loses values (ipc.node.ts 53-79, 145-177).                *)
SettingsSurvive ==
  \A n \in Setting \ lost :
    /\ (\A p \in Process : ~At(p, "saving")) => settingsFile[n] \in acked[n]
    /\ \A p \in Process : At(p, "serving") => loadSettings(p)[n] \in acked[n]

(* A process that exits by itself has closed the database, as the comment   *)
(* of the signal handlers wants it (index.node.ts 561-562).                 *)
ExitsClosed == \A p \in Process : server[p].exit # "abort"
=============================================================================
