--------------------------- MODULE MessageProofs ----------------------------
(***************************************************************************)
(* Theorems about the tables of messages: attachment files, the search      *)
(* index, the iteration over all messages, the log of what was sent, the    *)
(* envelopes that come in, the sync tasks and the downloads to do. Each has  *)
(* variables, an invariant and lemmas of its own.                           *)
(***************************************************************************)
EXTENDS AttachmentFiles, MessageTables, SendLog, SignalInbox, SyncTasks, AttachmentJobs, FiniteSetTheorems,
        DataLemmas, TLAPS

(***************************************************************************)
(* No attachment file in use is deleted, for any messages and paths. The    *)
(* invariant alone is not inductive: a path is found safe to delete         *)
(* because nothing protects it, so one must know that every download under  *)
(* way is protected, and only its own saved rows or its end take that       *)
(* protection away.                                                         *)
(***************************************************************************)

DownloadsProtected ==
  \A m \in FileMessage : \A p \in download[m] : <<p, m>> \in protected

FilesInv == FilesTypeOK /\ DownloadsProtected /\ ReferencedFilesStay

\* Nothing is in use at first.
LEMMA FilesStart == FilesInit => FilesInv
BY FilesAssumption DEF FilesInit, FilesInv, FilesTypeOK, DownloadsProtected, ReferencedFilesStay

\* A download that begins protects its path, which is neither checked nor unlinked.
LEMMA DownloadKeeps ==
  ASSUME FilesInv, NEW m \in FileMessage, NEW p \in AttachPath,
         DownloadNew(m, p) \/ DownloadExisting(m, p)
  PROVE  FilesInv'
<1>1. FilesTypeOK'
  BY FilesAssumption DEF FilesInv, FilesTypeOK, DownloadNew, DownloadExisting
<1>2. DownloadsProtected'
  BY DEF FilesInv, FilesTypeOK, DownloadsProtected, DownloadNew, DownloadExisting
<1>3. ReferencedFilesStay'
  <2>1. CASE DownloadNew(m, p)
    BY <2>1 DEF FilesInv, FilesTypeOK, ReferencedFilesStay, DownloadNew
  <2>2. CASE DownloadExisting(m, p)
    BY <2>2 DEF FilesInv, FilesTypeOK, ReferencedFilesStay, DownloadExisting
  <2>3. QED  BY <2>1, <2>2
<1>4. QED  BY <1>1, <1>2, <1>3 DEF FilesInv

\* Saving, removing or giving up a message's rows leaves the protections of the
\* other messages alone.
LEMMA RowsKeep ==
  ASSUME FilesInv, NEW m \in FileMessage, SaveRows(m) \/ RemoveRows(m) \/ GiveUp(m)
  PROVE  FilesInv'
<1>1. CASE SaveRows(m)
  <2>1. FilesTypeOK'
    BY <1>1 DEF FilesInv, FilesTypeOK, SaveRows, StopProtecting
  <2>2. DownloadsProtected'
    BY <1>1 DEF FilesInv, FilesTypeOK, DownloadsProtected, SaveRows, StopProtecting
  <2>3. ReferencedFilesStay'
    BY <1>1 DEF FilesInv, FilesTypeOK, ReferencedFilesStay, SaveRows
  <2>4. QED  BY <2>1, <2>2, <2>3 DEF FilesInv
<1>2. CASE RemoveRows(m)
  BY <1>2 DEF FilesInv, FilesTypeOK, DownloadsProtected, ReferencedFilesStay, RemoveRows
<1>3. CASE GiveUp(m)
  BY <1>3 DEF FilesInv, FilesTypeOK, DownloadsProtected, ReferencedFilesStay, GiveUp
<1>4. QED  BY <1>1, <1>2, <1>3

\* What is found safe to delete is named by no row and, being unprotected, by no
\* download; what is unlinked was found safe before.
LEMMA CleanupKeeps ==
  ASSUME FilesInv, NEW p \in AttachPath, CheckPath(p) \/ UnlinkPath(p)
  PROVE  FilesInv'
<1>1. FilesTypeOK' /\ DownloadsProtected'
  BY DEF FilesInv, FilesTypeOK, DownloadsProtected, CheckPath, UnlinkPath
<1>2. CASE CheckPath(p)
  <2>1. isAttachmentSafeToDelete(p) =>
          \A m \in FileMessage : p \notin rows[m] \cup download[m]
    BY DEF FilesInv, DownloadsProtected, isAttachmentSafeToDelete
  <2>2. ReferencedFilesStay'
    BY <1>2, <2>1 DEF FilesInv, ReferencedFilesStay, CheckPath
  <2>3. QED  BY <1>1, <2>2 DEF FilesInv
<1>3. CASE UnlinkPath(p)
  <2>1. ReferencedFilesStay'
    BY <1>3 DEF FilesInv, ReferencedFilesStay, UnlinkPath
  <2>2. QED  BY <1>1, <2>1 DEF FilesInv
<1>4. QED  BY <1>2, <1>3

\* A tab that starts alone ends the downloads whose protection it resets.
LEMMA ResetKeeps ==
  ASSUME FilesInv, ~OtherTab, ResetProtected
  PROVE  FilesInv'
BY DEF FilesInv, FilesTypeOK, DownloadsProtected, ReferencedFilesStay, ResetProtected

\* A file that a message names, or that a download will give one, stays on disk, as
\* long as no second tab starts (sql.js 2655-2700, 4552-4604).
THEOREM FilesStay ==
  ASSUME ~OtherTab
  PROVE  FilesSpec => []ReferencedFilesStay
<1>1. FilesInv /\ [FilesNext]_fileVars => FilesInv'
  <2> SUFFICES ASSUME FilesInv, [FilesNext]_fileVars PROVE FilesInv'
    OBVIOUS
  <2>1. CASE FilesNext
    BY <2>1, DownloadKeeps, RowsKeep, CleanupKeeps, ResetKeeps DEF FilesNext
  <2>2. CASE UNCHANGED fileVars
    BY <2>2 DEF FilesInv, FilesTypeOK, DownloadsProtected, ReferencedFilesStay, fileVars
  <2>3. QED  BY <2>1, <2>2
<1>2. FilesInv => ReferencedFilesStay
  BY DEF FilesInv
<1>3. QED  BY FilesStart, <1>1, <1>2, PTL DEF FilesSpec

----------------------------------------------------------------------------
(***************************************************************************)
(* The search index follows the messages through imports and restarts, and  *)
(* an iteration over the messages misses none but what is written after its *)
(* first page on another connection than the one that writes; for any        *)
(* messages, connections and page size, and whichever connection each page  *)
(* goes to. A run's table stays on the connection of its first page: no     *)
(* other has the run's number, because numbers are not given twice.          *)
(***************************************************************************)

\* What both proofs need to know of the values.
Shapes ==
  /\ messages \in [MessageId -> [version : Nat, searchable : BOOLEAN]]
  /\ messagesFts \in [MessageId -> Nat]
  /\ seen \in [MessageId -> Nat]
  /\ tempTable \in [Connection -> [run : Nat, ids : SUBSET MessageId]]
  /\ cursor \in [run : Nat, done : BOOLEAN, failed : BOOLEAN, at : Connection, since : Nat]
  /\ insertTriggers \in BOOLEAN /\ disabledItem \in BOOLEAN
  /\ writes \in Nat /\ runs \in Nat

\* The item says whether the triggers are there: it is how a start knows.
ItemKnowsTriggers == insertTriggers = ~disabledItem

\* While an iteration runs, its table is on the connection of its first page alone.
TableAtFirst ==
  /\ \A c \in Connection : tempTable[c].run <= runs
  /\ cursor.since <= writes
  /\ cursor.run # 0 => \A c \in Connection : tempTable[c].run = cursor.run <=> c = cursor.at
PagesInv == TableAtFirst /\ PagesMissOnlyLaterWrites

IndexInv == ItemKnowsTriggers /\ IndexMatchesMessages
Writes == \E m \in MessageId : InsertMessage(m) \/ UpdateMessage(m) \/ RemoveMessageRow(m)
Imports == DisableTriggers \/ EnableTriggers \/ Restart
Paging == PageFirst \/ PageNext \/ finishPageMessages

\* Empty tables have their shapes, and the index and the pages are theirs.
LEMMA TablesStart == TablesInit => Shapes /\ IndexInv /\ PagesInv
<1> SUFFICES ASSUME TablesInit PROVE Shapes /\ IndexInv /\ PagesInv
  OBVIOUS
<1>1. messages \in [MessageId -> [version : Nat, searchable : BOOLEAN]]
  BY DEF TablesInit
<1>2. tempTable \in [Connection -> [run : Nat, ids : SUBSET MessageId]]
  BY DEF TablesInit, NoTable
<1>3. /\ cursor \in [run : Nat, done : BOOLEAN, failed : BOOLEAN, at : Connection, since : Nat]
      /\ cursor.run = 0 /\ cursor.since = 0
  BY TablesAssumption DEF TablesInit, NoRun
<1>4. Shapes
  BY <1>1, <1>2, <1>3 DEF TablesInit, Shapes, Absent0
<1>5. IndexInv
  BY DEF TablesInit, IndexInv, ItemKnowsTriggers, IndexMatchesMessages, Absent0
<1>6. PagesInv
  BY <1>3 DEF PagesInv, TableAtFirst, PagesMissOnlyLaterWrites, TablesInit, NoTable
<1>7. QED  BY <1>4, <1>5, <1>6

\* A page leaves the values in shape.
LEMMA PageShapes ==
  ASSUME Shapes, NEW c \in Connection, NEW run \in Nat, NEW at \in Connection, NEW since \in Nat,
         NEW ids \in SUBSET MessageId, Page(c, run, at, since, ids)
  PROVE  /\ tempTable' \in [Connection -> [run : Nat, ids : SUBSET MessageId]]
         /\ cursor' \in [run : Nat, done : BOOLEAN, failed : BOOLEAN, at : Connection, since : Nat]
         /\ seen' \in [MessageId -> Nat]
BY DEF Shapes, Page

\* Every write keeps the tables' shapes.
LEMMA ShapesKept ==
  ASSUME Shapes, TablesNext
  PROVE  Shapes'
<1>1. CASE \E m \in MessageId : InsertMessage(m)
  BY <1>1, TablesAssumption DEF Shapes, InsertMessage, Write, TempTriggers
<1>2. CASE \E m \in MessageId : UpdateMessage(m)
  BY <1>2, TablesAssumption DEF Shapes, UpdateMessage, Write, TempTriggers, IndexUpdated
<1>3. CASE \E m \in MessageId : RemoveMessageRow(m)
  BY <1>3 DEF Shapes, RemoveMessageRow
<1>4. CASE Imports
  <2>1. Backfill \in [MessageId -> Nat]
    BY DEF Shapes, Backfill
  <2>2. CASE DisableTriggers
    <3>1. runs' \in Nat
      BY <2>2 DEF Shapes, DisableTriggers
    <3>2. insertTriggers' \in BOOLEAN /\ disabledItem' \in BOOLEAN
      BY <2>2 DEF DisableTriggers
    <3>3. UNCHANGED <<messages, messagesFts, tempTable, cursor, seen, writes>>
      BY <2>2 DEF DisableTriggers, pagingVars
    <3>4. QED  BY <3>1, <3>2, <3>3 DEF Shapes
  <2>3. CASE EnableTriggers
    BY <2>1, <2>3 DEF Shapes, EnableTriggers, pagingVars
  <2>4. CASE Restart
    <3>1. [c \in Connection |-> NoTable] \in [Connection -> [run : Nat, ids : SUBSET MessageId]]
      BY DEF NoTable
    <3>2. NoRun \in [run : Nat, done : BOOLEAN, failed : BOOLEAN, at : Connection, since : Nat]
      BY TablesAssumption DEF NoRun
    <3>3. runs' \in Nat
      BY <2>4 DEF Shapes, Restart
    <3>4. insertTriggers' \in BOOLEAN /\ disabledItem' \in BOOLEAN
      BY <2>4 DEF Restart
    <3>5. messagesFts' \in [MessageId -> Nat] /\ seen' \in [MessageId -> Nat]
      BY <2>1, <2>4 DEF Shapes, Restart, Absent0
    <3>6. QED  BY <2>4, <3>1, <3>2, <3>3, <3>4, <3>5 DEF Shapes, Restart
  <2>5. QED  BY <1>4, <2>2, <2>3, <2>4 DEF Imports
<1>5. CASE PageFirst
  <2>1. PICK c \in Connection : Page(c, runs + 1, c, writes, {m \in MessageId : InTable(m)})
    BY <1>5 DEF PageFirst, getWorker
  <2>2. runs + 1 \in Nat /\ writes \in Nat
    BY DEF Shapes
  <2>3. QED  BY <1>5, <2>1, <2>2, PageShapes DEF PageFirst, Shapes, indexVars
<1>6. CASE PageNext
  <2>1. PICK c \in Connection :
          \/ tempTable[c].run = cursor.run /\ Page(c, cursor.run, cursor.at, cursor.since, tempTable[c].ids)
          \/ cursor' = [cursor EXCEPT !.failed = TRUE] /\ UNCHANGED <<tempTable, seen>>
    BY <1>6 DEF PageNext, getWorker
  <2>2. /\ cursor.run \in Nat /\ cursor.at \in Connection /\ cursor.since \in Nat
        /\ tempTable[c].ids \in SUBSET MessageId
    BY DEF Shapes
  <2>3. /\ tempTable' \in [Connection -> [run : Nat, ids : SUBSET MessageId]]
        /\ cursor' \in [run : Nat, done : BOOLEAN, failed : BOOLEAN, at : Connection, since : Nat]
        /\ seen' \in [MessageId -> Nat]
    <3>1. CASE Page(c, cursor.run, cursor.at, cursor.since, tempTable[c].ids)
      BY <2>2, <3>1, PageShapes
    <3>2. CASE cursor' = [cursor EXCEPT !.failed = TRUE] /\ UNCHANGED <<tempTable, seen>>
      BY <3>2 DEF Shapes
    <3>3. QED  BY <2>1, <3>1, <3>2
  <2>4. QED  BY <1>6, <2>3 DEF PageNext, Shapes, indexVars
<1>7. CASE finishPageMessages
  <2>1. PICK c \in Connection :
          tempTable' = [tempTable EXCEPT ![c] = IF tempTable[c].run = cursor.run THEN NoTable ELSE @]
    BY <1>7 DEF finishPageMessages, getWorker
  <2>2. tempTable' \in [Connection -> [run : Nat, ids : SUBSET MessageId]]
    BY <2>1 DEF Shapes, NoTable
  <2>3. NoRun \in [run : Nat, done : BOOLEAN, failed : BOOLEAN, at : Connection, since : Nat]
    BY TablesAssumption DEF NoRun
  <2>4. QED  BY <1>7, <2>2, <2>3 DEF Shapes, finishPageMessages, Absent0, indexVars
<1>8. QED  BY <1>1, <1>2, <1>3, <1>4, <1>5, <1>6, <1>7 DEF TablesNext, Imports

\* Writes follow the triggers, and the backfill makes up for those that did not.
LEMMA IndexKept ==
  ASSUME Shapes, IndexInv, TablesNext
  PROVE  IndexInv'
<1>1. CASE \E m \in MessageId : InsertMessage(m)
  BY <1>1 DEF Shapes, IndexInv, ItemKnowsTriggers, IndexMatchesMessages, InsertMessage, Write, InTable
<1>2. CASE \E m \in MessageId : UpdateMessage(m)
  BY <1>2 DEF Shapes, IndexInv, ItemKnowsTriggers, IndexMatchesMessages, UpdateMessage, IndexUpdated,
              Write, InTable
<1>3. CASE \E m \in MessageId : RemoveMessageRow(m)
  BY <1>3 DEF Shapes, IndexInv, ItemKnowsTriggers, IndexMatchesMessages, RemoveMessageRow
<1>4. CASE Imports
  BY <1>4 DEF Imports, Shapes, IndexInv, ItemKnowsTriggers, IndexMatchesMessages, DisableTriggers,
              EnableTriggers, Restart, Backfill
<1>5. CASE Paging
  BY <1>5 DEF Paging, IndexInv, ItemKnowsTriggers, IndexMatchesMessages, PageFirst, PageNext,
              finishPageMessages, indexVars
<1>6. QED  BY <1>1, <1>2, <1>3, <1>4, <1>5 DEF TablesNext, Imports, Paging

\* Outside an import the index has exactly the searchable messages, and during one it
\* only lacks some, whenever the process is restarted (sql.js 2416-2432, 6386-6409).
THEOREM IndexFollows == TablesSpec => []IndexMatchesMessages
<1>1. Shapes /\ IndexInv /\ [TablesNext]_tableVars => (Shapes /\ IndexInv)'
  BY ShapesKept, IndexKept
  DEF Shapes, IndexInv, ItemKnowsTriggers, IndexMatchesMessages, tableVars
<1>2. IndexInv => IndexMatchesMessages
  BY DEF IndexInv
<1>3. QED  BY TablesStart, <1>1, <1>2, PTL DEF TablesSpec

\* A write is later than what the iteration began with, or goes into its table.
LEMMA WriteKeepsPages ==
  ASSUME Shapes, PagesInv, NEW m \in MessageId, InsertMessage(m) \/ UpdateMessage(m)
  PROVE  PagesInv'
<1>1. /\ messages' = [messages EXCEPT ![m].version = writes + 1] /\ writes' = writes + 1
      /\ tempTable' = TempTriggers(m) /\ UNCHANGED <<cursor, seen, runs>>
  BY DEF InsertMessage, UpdateMessage, Write
<1>2. /\ messages'[m].version = writes + 1
      /\ \A n \in MessageId \ {m} : messages'[n] = messages[n]
  BY <1>1 DEF Shapes
<1>3. /\ \A c \in Connection : tempTable'[c].run = tempTable[c].run /\ tempTable[c].ids \subseteq tempTable'[c].ids
      /\ tempTable[primary].run # 0 => m \in tempTable'[primary].ids
  BY <1>1, TablesAssumption DEF Shapes, TempTriggers
<1>4. TableAtFirst'
  BY <1>1, <1>3 DEF Shapes, PagesInv, TableAtFirst
<1>5. PagesMissOnlyLaterWrites'
  <2> SUFFICES ASSUME cursor.run # 0, ~cursor.failed, NEW n \in MessageId, messages'[n].version > 0,
                      cursor.at = primary \/ messages'[n].version <= cursor.since
               PROVE  \/ seen[n] = messages'[n].version
                      \/ tempTable'[cursor.at].run = cursor.run /\ n \in tempTable'[cursor.at].ids
    BY <1>1 DEF PagesMissOnlyLaterWrites, InTable
  <2>1. cursor.at \in Connection /\ tempTable'[cursor.at].run = cursor.run
    BY <1>3 DEF Shapes, PagesInv, TableAtFirst
  <2>2. CASE n = m
    <3>1. cursor.at = primary
      BY <1>2, <2>2 DEF Shapes, PagesInv, TableAtFirst
    <3>2. QED  BY <1>3, <2>1, <2>2, <3>1
  <2>3. CASE n # m
    BY <1>2, <1>3, <2>1, <2>3 DEF PagesInv, PagesMissOnlyLaterWrites, InTable
  <2>4. QED  BY <2>2, <2>3
<1>6. QED  BY <1>4, <1>5 DEF PagesInv

\* A page takes from its table only what it returns.
LEMMA PageKeeps ==
  ASSUME Shapes, TableAtFirst, NEW c \in Connection, NEW run \in Nat \ {0}, NEW since \in Nat,
         NEW ids \in SUBSET MessageId, Page(c, run, c, since, ids),
         runs' \in Nat, run <= runs', runs <= runs', since <= writes, UNCHANGED <<messages, writes>>,
         \A d \in Connection \ {c} : tempTable[d].run # run,
         \A m \in MessageId : InTable(m) /\ (c = primary \/ messages[m].version <= since) =>
                               seen[m] = messages[m].version \/ m \in ids
  PROVE  PagesInv'
<1>0. PICK chunk \in SUBSET ids :
        /\ tempTable' = [tempTable EXCEPT ![c] = [run |-> run, ids |-> ids \ chunk]]
        /\ cursor' = [run |-> run, done |-> Cardinality(chunk) < ChunkSize, failed |-> FALSE,
                      at |-> c, since |-> since]
        /\ seen' = [m \in MessageId |-> IF m \in chunk THEN messages[m].version ELSE seen[m]]
  BY Zenon DEF Page
<1>1. /\ tempTable' = [tempTable EXCEPT ![c] = [run |-> run, ids |-> ids \ chunk]]
      /\ cursor'.run = run /\ cursor'.at = c /\ cursor'.since = since
      /\ seen' = [m \in MessageId |-> IF m \in chunk THEN messages[m].version ELSE seen[m]]
  BY <1>0
<1>2. /\ tempTable'[c].run = run /\ tempTable'[c].ids = ids \ chunk
      /\ \A d \in Connection \ {c} : tempTable'[d] = tempTable[d]
  BY <1>1 DEF Shapes
<1>3. TableAtFirst'
  <2>1. \A d \in Connection : tempTable'[d].run <= runs'
    <3>1. \A d \in Connection : tempTable[d].run \in Nat /\ tempTable[d].run <= runs
      BY DEF Shapes, TableAtFirst
    <3>2. runs \in Nat /\ runs <= runs' /\ run <= runs' /\ runs' \in Nat
      BY DEF Shapes
    <3>3. QED  BY <1>2, <3>1, <3>2
  <2>2. QED  BY <1>1, <1>2, <2>1 DEF TableAtFirst
<1>4. PagesMissOnlyLaterWrites'
  <2>1. ASSUME NEW m \in MessageId, messages[m].version > 0, c = primary \/ messages[m].version <= since
        PROVE  seen'[m] = messages[m].version \/ m \in ids \ chunk
    BY <1>1, <2>1 DEF InTable
  <2>2. QED  BY <1>1, <1>2, <2>1 DEF PagesMissOnlyLaterWrites, InTable
<1>5. QED  BY <1>3, <1>4 DEF PagesInv

\* Pages keep what they and the writes leave for the pages to come.
LEMMA PagesKept ==
  ASSUME Shapes, PagesInv, TablesNext
  PROVE  PagesInv'
<1>1. CASE \E m \in MessageId : InsertMessage(m) \/ UpdateMessage(m)
  BY <1>1, WriteKeepsPages
<1>2. CASE \E m \in MessageId : RemoveMessageRow(m)
  <2>1. PICK m \in MessageId : RemoveMessageRow(m)
    BY <1>2
  <2>2. /\ messages'[m].version = 0 /\ \A n \in MessageId \ {m} : messages'[n] = messages[n] /\ seen'[n] = seen[n]
        /\ UNCHANGED <<tempTable, cursor, writes, runs>>
    BY <2>1 DEF Shapes, RemoveMessageRow
  <2>3. QED  BY <2>2 DEF PagesInv, TableAtFirst, PagesMissOnlyLaterWrites, InTable
<1>3. CASE Imports
  BY <1>3 DEF Imports, Shapes, PagesInv, TableAtFirst, PagesMissOnlyLaterWrites, InTable, DisableTriggers,
              EnableTriggers, Restart, NoRun, NoTable, pagingVars
<1>4. CASE PageFirst
  <2>1. PICK c \in Connection : Page(c, runs + 1, c, writes, {m \in MessageId : InTable(m)})
    BY <1>4 DEF PageFirst, getWorker
  <2>2. /\ UNCHANGED <<messages, writes>> /\ runs' = runs + 1 /\ runs + 1 \in Nat \ {0} /\ writes \in Nat
    BY <1>4 DEF PageFirst, Shapes
  <2>3. \A d \in Connection : tempTable[d].run # runs + 1
    BY DEF Shapes, PagesInv, TableAtFirst
  <2>4. \A m \in MessageId : InTable(m) => m \in {n \in MessageId : InTable(n)}
    OBVIOUS
  <2>5. runs' \in Nat /\ runs + 1 <= runs' /\ runs <= runs' /\ writes <= writes
    BY <2>2 DEF Shapes
  <2>6. QED  BY <2>1, <2>2, <2>3, <2>4, <2>5, PageKeeps DEF PagesInv
<1>5. CASE PageNext
  <2>1. PICK c \in Connection :
          \/ tempTable[c].run = cursor.run /\ Page(c, cursor.run, cursor.at, cursor.since, tempTable[c].ids)
          \/ cursor' = [cursor EXCEPT !.failed = TRUE] /\ UNCHANGED <<tempTable, seen>>
    BY <1>5 DEF PageNext, getWorker
  <2>2. cursor.run # 0 /\ ~cursor.failed /\ UNCHANGED <<messages, writes, runs>>
    BY <1>5 DEF PageNext
  <2>3. CASE tempTable[c].run = cursor.run /\ Page(c, cursor.run, cursor.at, cursor.since, tempTable[c].ids)
    <3>1. c = cursor.at /\ \A d \in Connection \ {c} : tempTable[d].run # cursor.run
      BY <2>2, <2>3 DEF PagesInv, TableAtFirst
    <3>2. /\ cursor.run \in Nat \ {0} /\ cursor.since \in Nat /\ tempTable[c].ids \in SUBSET MessageId
          /\ cursor.since <= writes /\ runs' \in Nat /\ cursor.run <= runs' /\ runs <= runs'
      BY <2>2, <2>3 DEF Shapes, PagesInv, TableAtFirst
    <3>3. \A m \in MessageId : InTable(m) /\ (c = primary \/ messages[m].version <= cursor.since) =>
                               seen[m] = messages[m].version \/ m \in tempTable[c].ids
      BY <2>2, <3>1 DEF PagesInv, PagesMissOnlyLaterWrites
    <3>4. Page(c, cursor.run, c, cursor.since, tempTable[c].ids)
      BY <2>3, <3>1
    <3>5. QED  BY <2>2, <3>1, <3>2, <3>3, <3>4, PageKeeps DEF PagesInv
  <2>4. CASE cursor' = [cursor EXCEPT !.failed = TRUE] /\ UNCHANGED <<tempTable, seen>>
    BY <2>2, <2>4 DEF Shapes, PagesInv, TableAtFirst, PagesMissOnlyLaterWrites
  <2>5. QED  BY <2>1, <2>3, <2>4
<1>6. CASE finishPageMessages
  <2>1. PICK c \in Connection :
          tempTable' = [tempTable EXCEPT ![c] = IF tempTable[c].run = cursor.run THEN NoTable ELSE @]
    BY <1>6 DEF finishPageMessages, getWorker
  <2>2. \A d \in Connection : tempTable'[d].run = tempTable[d].run \/ tempTable'[d].run = 0
    BY <2>1 DEF Shapes, NoTable
  <2>3. cursor'.run = 0 /\ cursor'.since = 0 /\ UNCHANGED <<writes, runs>>
    BY <1>6 DEF finishPageMessages, NoRun
  <2>4. QED  BY <2>2, <2>3 DEF Shapes, PagesInv, TableAtFirst, PagesMissOnlyLaterWrites
<1>7. QED  BY <1>1, <1>2, <1>3, <1>4, <1>5, <1>6 DEF TablesNext, Imports

\* Whichever connections the pages go to, as long as none failed: a message that no page
\* returned as it now is waits in the iteration's table, but for what was written after
\* a first page on another connection than the one that writes (sql.js 6237-6284,
\* sql.node.ts 149-158, 273).
THEOREM PagesCover == TablesSpec => []PagesMissOnlyLaterWrites
<1>1. Shapes /\ PagesInv /\ [TablesNext]_tableVars => (Shapes /\ PagesInv)'
  BY ShapesKept, PagesKept
  DEF Shapes, PagesInv, TableAtFirst, PagesMissOnlyLaterWrites, InTable, tableVars
<1>2. PagesInv => PagesMissOnlyLaterWrites
  BY DEF PagesInv
<1>3. QED  BY TablesStart, <1>1, <1>2, PTL DEF TablesSpec

----------------------------------------------------------------------------
(***************************************************************************)
(* The log of sent messages: what a payload waits for. A row goes with its  *)
(* payload, so that none waits for a later payload of the same number.      *)
(***************************************************************************)

SendRecord    == [rowid : 1..MaxSends, waiting : SUBSET LogDevice, dropped : BOOLEAN]
PayloadRecord == [send : DOMAIN sends, timestamp : 1..LogTimes, messageIds : SUBSET LogMessage]

LogTyped ==
  /\ sends \in Seq(SendRecord)
  /\ DOMAIN payloads \subseteq 1..MaxSends
  /\ payloads \in [DOMAIN payloads -> PayloadRecord]
  /\ recipients \subseteq (1..MaxSends) \X LogDevice

\* The foreign key: no row of a payload that is gone waits for a new one of its number.
NoOrphans == \A row \in recipients : row[1] \in DOMAIN payloads

LogInv == LogTyped /\ NoOrphans /\ LogMatchesSends

\* An empty log matches no sends.
LEMMA LogStart == SendLogInit => LogInv
<1> SUFFICES ASSUME SendLogInit PROVE LogInv
  OBVIOUS
<1>1. DOMAIN payloads = {} /\ payloads = [id \in {} |-> {}] /\ recipients = {} /\ sends = <<>>
  BY DEF SendLogInit
<1>2. LogTyped
  BY <1>1 DEF LogTyped
<1>3. NoOrphans /\ LogMatchesSends
  BY <1>1 DEF NoOrphans, LogMatchesSends
<1>4. QED  BY <1>2, <1>3 DEF LogInv

\* Two payloads never belong to one send: each has the row number of its send.
LEMMA OneRowPerSend ==
  ASSUME LogInv, NEW i \in DOMAIN payloads, NEW j \in DOMAIN payloads, payloads[i].send = payloads[j].send
  PROVE  i = j
BY DEF LogInv, LogMatchesSends

\* A send enters the log whole: payload, recipients and messages.
LEMMA InsertSendKeeps ==
  ASSUME LogInv, NEW devices \in SUBSET LogDevice, NEW ids \in SUBSET LogMessage, NEW time \in 1..LogTimes,
         insertSentProto(devices, ids, time)
  PROVE  LogInv'
<1>1. PICK id \in 1..MaxSends :
        /\ IsNextRowid(id)
        /\ payloads' = [i \in DOMAIN payloads \cup {id} |->
                          IF i = id THEN [send |-> Len(sends) + 1, timestamp |-> time, messageIds |-> ids]
                          ELSE payloads[i]]
        /\ recipients' = recipients \cup ({id} \X devices)
        /\ sends' = Append(sends, [rowid |-> id, waiting |-> devices, dropped |-> FALSE])
  BY DEF insertSentProto
<1>2. id \notin DOMAIN payloads
  BY <1>1, SendLogAssumption DEF IsNextRowid, LogInv, LogTyped
<1>3. sends \in Seq(SendRecord) /\ Len(sends) \in Nat /\ DOMAIN sends = 1..Len(sends)
  BY DEF LogInv, LogTyped
<1>4. PICK new \in SendRecord : new = [rowid |-> id, waiting |-> devices, dropped |-> FALSE]
  BY DEF SendRecord
<1>5. /\ sends' \in Seq(SendRecord) /\ DOMAIN sends' = 1..Len(sends) + 1
      /\ sends'[Len(sends) + 1] = new
      /\ \A s \in DOMAIN sends : sends'[s] = sends[s] /\ s \in DOMAIN sends' /\ s # Len(sends) + 1
  BY <1>1, <1>3, <1>4
<1>6. /\ DOMAIN payloads' = DOMAIN payloads \cup {id}
      /\ payloads'[id].send = Len(sends) + 1
      /\ \A i \in DOMAIN payloads : payloads'[i] = payloads[i]
  BY <1>1, <1>2
<1>7. \A i \in DOMAIN payloads : payloads[i] \in PayloadRecord
  BY DEF LogInv, LogTyped
<1>8. LogTyped'
  <2>1. payloads'[id] \in PayloadRecord'
    BY <1>1, <1>5 DEF PayloadRecord
  <2>2. \A i \in DOMAIN payloads : payloads'[i] \in PayloadRecord'
    BY <1>3, <1>5, <1>6, <1>7 DEF PayloadRecord
  <2>3. payloads' \in [DOMAIN payloads' -> PayloadRecord']
    BY <1>1, <1>6, <2>1, <2>2
  <2>4. DOMAIN payloads' \subseteq 1..MaxSends
    BY <1>6 DEF LogInv, LogTyped
  <2>5. recipients' \subseteq (1..MaxSends) \X LogDevice
    BY <1>1 DEF LogInv, LogTyped
  <2>6. QED  BY <1>5, <2>3, <2>4, <2>5 DEF LogTyped
<1>9. NoOrphans'
  BY <1>1, <1>6 DEF LogInv, NoOrphans
<1>10. /\ Waiting(id)' = devices
       /\ \A i \in DOMAIN payloads : Waiting(i)' = Waiting(i)
  BY <1>1, <1>2 DEF LogInv, NoOrphans, Waiting
<1>11. new.rowid = id /\ new.waiting = devices /\ ~new.dropped
  BY <1>4
<1>12. LogMatchesSends'
  <2>1. ASSUME NEW i \in DOMAIN payloads'
        PROVE  LET send == sends'[payloads'[i].send] IN
               send.rowid = i /\ ~send.dropped /\ Waiting(i)' = send.waiting
    <3>1. CASE i = id
      BY <1>5, <1>6, <1>10, <1>11, <3>1
    <3>2. CASE i \in DOMAIN payloads
      <4>1. payloads[i].send \in DOMAIN sends
        BY <1>7, <3>2 DEF PayloadRecord
      <4>2. QED  BY <1>5, <1>6, <1>10, <3>2, <4>1 DEF LogInv, LogMatchesSends
    <3>3. QED  BY <1>6, <3>1, <3>2
  <2>2. ASSUME NEW s \in DOMAIN sends', sends'[s].waiting # {}, ~sends'[s].dropped
        PROVE  \E i \in DOMAIN payloads' : payloads'[i].send = s
    <3>1. CASE s = Len(sends) + 1
      BY <1>6, <3>1
    <3>2. CASE s \in DOMAIN sends
      BY <1>5, <1>6, <2>2, <3>2 DEF LogInv, LogMatchesSends
    <3>3. QED  BY <1>3, <1>5, <3>1, <3>2
  <2>3. QED  BY <2>1, <2>2 DEF LogMatchesSends
<1>13. QED  BY <1>8, <1>9, <1>12 DEF LogInv

\* One device more or one less: the waiting set of the send goes with the rows.
LEMMA WaitingMoves ==
  ASSUME LogInv, NEW id \in DOMAIN payloads, NEW W \in SUBSET LogDevice,
         NEW s \in DOMAIN sends, s = payloads[id].send,
         NEW r \in SendRecord, r = [sends[s] EXCEPT !.waiting = W],
         sends' = [sends EXCEPT ![s] = r],
         UNCHANGED payloads,
         recipients' \subseteq (1..MaxSends) \X LogDevice,
         \A row \in recipients' : row[1] \in DOMAIN payloads,
         Waiting(id)' = W,
         \A i \in DOMAIN payloads \ {id} : Waiting(i)' = Waiting(i)
  PROVE  LogInv'
<1>1. s = payloads[id].send
  OBVIOUS
<1>2. sends \in Seq(SendRecord) /\ sends[s] \in SendRecord
  BY DEF LogInv, LogTyped
<1>3. /\ sends' \in Seq(SendRecord) /\ DOMAIN sends' = DOMAIN sends
      /\ sends'[s] = r
      /\ \A t \in DOMAIN sends \ {s} : sends'[t] = sends[t]
  BY <1>2, OneEntryChanges
<1>4. sends'[s].waiting = W /\ sends'[s].rowid = sends[s].rowid /\ sends'[s].dropped = sends[s].dropped
  BY <1>2, <1>3 DEF SendRecord
<1>5. LogTyped'
  BY <1>3 DEF LogInv, LogTyped, PayloadRecord
<1>6. LogMatchesSends'
  <2>1. ASSUME NEW i \in DOMAIN payloads
        PROVE  LET send == sends'[payloads[i].send] IN
               send.rowid = i /\ ~send.dropped /\ Waiting(i)' = send.waiting
    <3>1. CASE i = id
      BY <1>1, <1>4, <3>1 DEF LogInv, LogMatchesSends
    <3>2. CASE i # id
      <4>1. payloads[i].send \in DOMAIN sends /\ payloads[i].send # s
        BY <1>1, <3>2, OneRowPerSend DEF LogInv, LogTyped, PayloadRecord
      <4>2. QED  BY <1>3, <3>2, <4>1 DEF LogInv, LogMatchesSends
    <3>3. QED  BY <3>1, <3>2
  <2>2. ASSUME NEW t \in DOMAIN sends', sends'[t].waiting # {}, ~sends'[t].dropped
        PROVE  \E i \in DOMAIN payloads : payloads[i].send = t
    <3>1. CASE t = s
      BY <1>1, <3>1
    <3>2. CASE t # s
      BY <1>3, <2>2, <3>2 DEF LogInv, LogMatchesSends
    <3>3. QED  BY <3>1, <3>2
  <2>3. QED  BY <2>1, <2>2 DEF LogMatchesSends
<1>7. QED  BY <1>5, <1>6 DEF LogInv, NoOrphans

\* Payloads go, with their rows; their sends are dropped or wait for nobody.
LEMMA PayloadsGo ==
  ASSUME LogInv, NEW ids \in SUBSET DOMAIN payloads, DeletePayloads(ids),
         sends' \in Seq(SendRecord), DOMAIN sends' = DOMAIN sends,
         \A s \in DOMAIN sends :
           /\ (\E id \in ids : payloads[id].send = s) => sends'[s].dropped \/ sends'[s].waiting = {}
           /\ ~(\E id \in ids : payloads[id].send = s) =>
                /\ sends'[s].rowid = sends[s].rowid /\ sends'[s].waiting = sends[s].waiting
                /\ sends'[s].dropped <=> sends[s].dropped
  PROVE  LogInv'
<1>1. /\ payloads' = [id \in DOMAIN payloads \ ids |-> payloads[id]]
      /\ recipients' = {row \in recipients : row[1] \notin ids}
  BY DEF DeletePayloads
<1>2. /\ DOMAIN payloads' = DOMAIN payloads \ ids
      /\ \A i \in DOMAIN payloads' : payloads'[i] = payloads[i]
  BY <1>1
<1>3. \A i \in DOMAIN payloads : payloads[i] \in PayloadRecord
  BY DEF LogInv, LogTyped
<1>4. LogTyped'
  <2>1. PayloadRecord' = PayloadRecord
    BY DEF PayloadRecord
  <2>2. payloads' \in [DOMAIN payloads' -> PayloadRecord']
    BY <1>1, <1>2, <1>3, <2>1
  <2>3. QED  BY <1>1, <1>2, <2>2 DEF LogInv, LogTyped
<1>5. NoOrphans'
  BY <1>1, <1>2 DEF LogInv, NoOrphans
<1>6. \A i \in DOMAIN payloads' : Waiting(i)' = Waiting(i)
  BY <1>1, <1>2 DEF Waiting
<1>7. LogMatchesSends'
  <2>1. ASSUME NEW i \in DOMAIN payloads'
        PROVE  LET send == sends'[payloads'[i].send] IN
               send.rowid = i /\ ~send.dropped /\ Waiting(i)' = send.waiting
    <3>1. i \in DOMAIN payloads /\ payloads[i].send \in DOMAIN sends
      BY <1>2, <1>3 DEF PayloadRecord
    <3>2. ~\E id \in ids : payloads[id].send = payloads[i].send
      BY <1>2, <3>1, OneRowPerSend
    <3>3. QED  BY <1>2, <1>6, <3>1, <3>2 DEF LogInv, LogMatchesSends
  <2>2. ASSUME NEW s \in DOMAIN sends', sends'[s].waiting # {}, ~sends'[s].dropped
        PROVE  \E i \in DOMAIN payloads' : payloads'[i].send = s
    <3>1. ~\E id \in ids : payloads[id].send = s
      BY <2>2
    <3>2. PICK i \in DOMAIN payloads : payloads[i].send = s
      BY <2>2, <3>1 DEF LogInv, LogMatchesSends
    <3>3. QED  BY <1>2, <3>1, <3>2
  <2>3. QED  BY <2>1, <2>2 DEF LogMatchesSends
<1>8. QED  BY <1>4, <1>5, <1>7 DEF LogInv

\* Payloads that are deleted are those of the sends dropped with them.
LEMMA DropKeeps ==
  ASSUME LogInv, NEW ids \in SUBSET DOMAIN payloads, DeletePayloads(ids), DropSends(ids)
  PROVE  LogInv'
<1>1. sends \in Seq(SendRecord) /\ DOMAIN sends = 1..Len(sends) /\ Len(sends) \in Nat
  BY DEF LogInv, LogTyped
<1>2. sends' = [s \in DOMAIN sends |->
                  [sends[s] EXCEPT !.dropped = @ \/ \E id \in ids : payloads[id].send = s]]
  BY DEF DropSends
<1>3. DOMAIN sends' = DOMAIN sends
  BY <1>2
<1>4. ASSUME NEW s \in DOMAIN sends
      PROVE  /\ sends'[s] \in SendRecord
             /\ (\E id \in ids : payloads[id].send = s) => sends'[s].dropped
             /\ ~(\E id \in ids : payloads[id].send = s) =>
                  /\ sends'[s].rowid = sends[s].rowid /\ sends'[s].waiting = sends[s].waiting
                  /\ sends'[s].dropped <=> sends[s].dropped
  <2>1. sends[s] \in SendRecord
    BY <1>1
  <2>2. PICK goes \in BOOLEAN : goes = \E id \in ids : payloads[id].send = s
    OBVIOUS
  <2>3. PICK flag \in BOOLEAN : flag = (sends[s].dropped \/ goes)
    OBVIOUS
  <2>4. sends'[s] = [sends[s] EXCEPT !.dropped = flag]
    BY <1>2, <2>2, <2>3
  <2>5. sends'[s].dropped = flag /\ sends'[s].rowid = sends[s].rowid /\ sends'[s].waiting = sends[s].waiting
    BY <2>1, <2>4 DEF SendRecord
  <2>6. sends'[s] \in SendRecord
    BY <2>1, <2>3, <2>4 DEF SendRecord
  <2>7. sends[s].dropped \in BOOLEAN
    BY <2>1 DEF SendRecord
  <2>8. QED  BY <2>2, <2>3, <2>5, <2>6, <2>7
<1>5. sends' \in Seq(SendRecord)
  <2>1. sends' \in [1..Len(sends) -> SendRecord]
    BY <1>1, <1>2, <1>4
  <2>2. QED  BY <1>1, <2>1
<1>6. QED  BY <1>3, <1>4, <1>5, PayloadsGo

\* Recipients are added to a send that is still there.
LEMMA RecipientsKeep ==
  ASSUME LogInv, RecipientsInTime, NEW s \in DOMAIN sends, NEW device \in LogDevice,
         insertProtoRecipients(s, device)
  PROVE  LogInv'
<1>1. PICK id : id = sends[s].rowid
  OBVIOUS
<1>2. /\ id \in DOMAIN payloads /\ payloads[id].send = s
      /\ recipients' = recipients \cup {<<id, device>>} /\ UNCHANGED payloads
  BY <1>1 DEF insertProtoRecipients
<1>3. sends[s] \in SendRecord
  BY DEF LogInv, LogTyped
<1>4. PICK W \in SUBSET LogDevice : W = sends[s].waiting \cup {device}
  BY <1>3 DEF SendRecord
<1>5. sends' = [sends EXCEPT ![payloads[id].send].waiting = W]
  BY <1>2, <1>4 DEF insertProtoRecipients
<1>6. Waiting(id) = sends[s].waiting
  BY <1>2 DEF LogInv, LogMatchesSends
<1>7. Waiting(id)' = W /\ \A i \in DOMAIN payloads \ {id} : Waiting(i)' = Waiting(i)
  BY <1>2, <1>4, <1>6 DEF Waiting
<1>8. /\ recipients' \subseteq (1..MaxSends) \X LogDevice
      /\ \A row \in recipients' : row[1] \in DOMAIN payloads
  BY <1>2 DEF LogInv, LogTyped, NoOrphans
<1>9. PICK r \in SendRecord : r = [sends[s] EXCEPT !.waiting = W]
  BY <1>3 DEF SendRecord
<1>10. sends' = [sends EXCEPT ![s] = r]
  BY <1>2, <1>5, <1>9
<1>11. QED  BY <1>2, <1>7, <1>8, <1>9, <1>10, WaitingMoves

\* A receipt takes one recipient, and the payload with its last.
LEMMA ReceiptKeeps ==
  ASSUME LogInv, NEW device \in LogDevice, NEW time \in 1..LogTimes, deleteSentProtoRecipient(device, time)
  PROVE  LogInv'
<1>1. PICK id \in DOMAIN payloads :
        /\ payloads[id].timestamp = time /\ <<id, device>> \in recipients
        /\ sends' = [sends EXCEPT ![payloads[id].send].waiting = @ \ {device}]
        /\ IF LastOfPayload(id, device)
           THEN DeletePayloads({id})
           ELSE recipients' = recipients \ {<<id, device>>} /\ UNCHANGED payloads
  BY DEF deleteSentProtoRecipient
<1>2. PICK s \in DOMAIN sends : s = payloads[id].send
  BY DEF LogInv, LogTyped, PayloadRecord
<1>3. sends \in Seq(SendRecord) /\ sends[s] \in SendRecord
  BY DEF LogInv, LogTyped
<1>4. PICK W \in SUBSET LogDevice : W = sends[s].waiting \ {device}
  BY <1>3 DEF SendRecord
<1>5. sends' = [sends EXCEPT ![payloads[id].send].waiting = W]
  BY <1>1, <1>2, <1>4
<1>6. Waiting(id) = sends[s].waiting
  BY <1>2 DEF LogInv, LogMatchesSends
<1>7. CASE LastOfPayload(id, device)
  <2>1. [sends[s] EXCEPT !.waiting = W] \in SendRecord
    BY <1>3 DEF SendRecord
  <2>2. sends' = [sends EXCEPT ![s] = [sends[s] EXCEPT !.waiting = W]]
    BY <1>2, <1>5
  <2>3. /\ sends' \in Seq(SendRecord) /\ DOMAIN sends' = DOMAIN sends
        /\ sends'[s] = [sends[s] EXCEPT !.waiting = W]
        /\ \A t \in DOMAIN sends \ {s} : sends'[t] = sends[t]
    BY <1>3, <2>1, <2>2
  <2>4. W = {} /\ sends'[s].waiting = {}
    BY <1>3, <1>4, <1>6, <1>7, <2>3 DEF LastOfPayload, SendRecord
  <2>5. PICK ids \in SUBSET DOMAIN payloads : ids = {id}
    OBVIOUS
  <2>6. DeletePayloads(ids)
    BY <1>1, <1>7, <2>5
  <2>7. \A t \in DOMAIN sends : (\E i \in ids : payloads[i].send = t) <=> t = s
    BY <1>2, <2>5
  <2>8. QED  BY <2>3, <2>4, <2>6, <2>7, PayloadsGo
<1>8. CASE ~LastOfPayload(id, device)
  <2>1. recipients' = recipients \ {<<id, device>>} /\ UNCHANGED payloads
    BY <1>1, <1>8
  <2>2. Waiting(id)' = W /\ \A i \in DOMAIN payloads \ {id} : Waiting(i)' = Waiting(i)
    BY <1>4, <1>6, <2>1 DEF Waiting
  <2>3. /\ recipients' \subseteq (1..MaxSends) \X LogDevice
        /\ \A row \in recipients' : row[1] \in DOMAIN payloads
    BY <2>1 DEF LogInv, LogTyped, NoOrphans
  <2>4. PICK r \in SendRecord : r = [sends[s] EXCEPT !.waiting = W]
    BY <1>3 DEF SendRecord
  <2>5. sends' = [sends EXCEPT ![s] = r]
    BY <1>2, <1>5, <2>4
  <2>6. QED  BY <1>2, <2>1, <2>2, <2>3, <2>4, <2>5, WaitingMoves
<1>9. QED  BY <1>7, <1>8

\* A payload waits for exactly the devices that have not acknowledged it, under row
\* numbers that are used again, until the last one did or it was dropped, if devices are
\* added only while it is there (sql.js 4219-4300).
THEOREM LogIsRight ==
  ASSUME RecipientsInTime
  PROVE  SendLogSpec => []LogMatchesSends
<1>1. LogInv /\ [SendLogNext]_sendLogVars => LogInv'
  <2> SUFFICES ASSUME LogInv, [SendLogNext]_sendLogVars PROVE LogInv'
    OBVIOUS
  <2>1. CASE \E ds \in SUBSET LogDevice \ {{}}, ms \in SUBSET LogMessage, t \in 1..LogTimes :
               insertSentProto(ds, ms, t)
    BY <2>1, InsertSendKeeps
  <2>2. CASE \E s \in DOMAIN sends, d \in LogDevice : insertProtoRecipients(s, d)
    BY <2>2, RecipientsKeep
  <2>3. CASE \E d \in LogDevice, t \in 1..LogTimes : deleteSentProtoRecipient(d, t)
    BY <2>3, ReceiptKeeps
  <2>4. CASE \E ids \in SUBSET DOMAIN payloads : DeletePayloads(ids) /\ DropSends(ids)
    BY <2>4, DropKeeps
  <2>5. CASE UNCHANGED sendLogVars
    BY <2>5 DEF sendLogVars, LogInv, LogTyped, PayloadRecord, NoOrphans, LogMatchesSends, Waiting
  <2>6. (\E t \in 1..LogTimes : deleteSentProtosOlderThan(t)) => \E ids \in SUBSET DOMAIN payloads : DeletePayloads(ids) /\ DropSends(ids)
    BY DEF deleteSentProtosOlderThan
  <2>7. (\E m \in LogMessage : deleteSentProtoByMessageId(m)) => \E ids \in SUBSET DOMAIN payloads : DeletePayloads(ids) /\ DropSends(ids)
    BY DEF deleteSentProtoByMessageId
  <2>8. deleteAllSentProtos => \E ids \in SUBSET DOMAIN payloads : DeletePayloads(ids) /\ DropSends(ids)
    BY DEF deleteAllSentProtos
  <2>9. QED  BY <2>1, <2>2, <2>3, <2>4, <2>5, <2>6, <2>7, <2>8 DEF SendLogNext
<1>2. LogInv => LogMatchesSends
  BY DEF LogInv
<1>3. QED  BY LogStart, <1>1, <1>2, PTL DEF SendLogSpec

----------------------------------------------------------------------------
(***************************************************************************)
(* Incoming envelopes: none is lost, begun without end or taken twice.      *)
(***************************************************************************)

InboxTyped ==
  /\ preKeys \subseteq Keys
  /\ triples \subseteq Keys \X {BaseKeyOf[e] : e \in Envelope}
  /\ unprocessed \in [Envelope -> NoRow..MaxAttempts]
  /\ tries \in [Envelope -> Nat]
  /\ sessions \in SUBSET Envelope /\ decrypting \in SUBSET Envelope
  /\ startIds \in SUBSET Envelope /\ handling \in SUBSET Envelope /\ settled \in SUBSET Envelope

\* Only an envelope that was committed is in the table, and each time the client begins
\* it is counted there; what is yet to be read has an attempt left.
TriesCounted ==
  \A e \in Envelope :
    /\ e \notin sessions => unprocessed[e] = NoRow /\ tries[e] = 0
    /\ InInbox(e) => tries[e] = unprocessed[e] + 1
    /\ tries[e] <= MaxAttempts + 1
    /\ e \in startIds => unprocessed[e] < MaxAttempts

\* What started a session cannot start another: a key of its own is gone, one of last
\* resort has the triple.
KeysUsedUp ==
  \A e \in sessions : IF KeyOf[e] \in LastResort THEN <<KeyOf[e], BaseKeyOf[e]>> \in triples
                      ELSE KeyOf[e] \notin preKeys

\* The key of what is decrypted is there until it is committed, and one of its own
\* decrypts one envelope.
KeyInHand ==
  /\ \A e \in decrypting : e \notin sessions /\ KeyOf[e] \in preKeys
  /\ \A e, f \in decrypting : KeyOf[e] = KeyOf[f] => KeyOf[e] \in LastResort \/ e = f

NothingGone   == \A e \in sessions : InInbox(e) \/ e \in settled
OneOfEachBase == \A e, f \in sessions : KeyOf[e] = KeyOf[f] /\ BaseKeyOf[e] = BaseKeyOf[f] => e = f

InboxInv ==
  InboxTyped /\ TriesCounted /\ KeysUsedUp /\ KeyInHand /\ NothingGone /\ OneOfEachBase

\* At the start no envelope was decrypted.
LEMMA InboxStart == InboxInit => InboxInv
<1> SUFFICES ASSUME InboxInit PROVE InboxInv
  OBVIOUS
<1>1. NoRow \in NoRow..MaxAttempts /\ MaxAttempts \in Nat
  BY InboxAssumption DEF NoRow
<1>2. InboxTyped
  BY <1>1 DEF InboxInit, InboxTyped
<1>3. TriesCounted
  BY <1>1 DEF InboxInit, TriesCounted, InInbox
<1>4. KeysUsedUp /\ KeyInHand /\ NothingGone /\ OneOfEachBase
  BY DEF InboxInit, KeysUsedUp, KeyInHand, NothingGone, OneOfEachBase
<1>5. QED  BY <1>2, <1>3, <1>4 DEF InboxInv

\* A decrypted envelope waits for its commit, with a key that is its own or stays.
LEMMA DecryptKeeps ==
  ASSUME InboxInv, KeyUsedOnce, NEW e \in Envelope, Decrypt(e)
  PROVE  InboxInv'
<1>1. /\ decrypting' = decrypting \cup {e} /\ e \notin sessions /\ KeyOf[e] \in preKeys
      /\ KeyOf[e] \in LastResort \/ \A d \in decrypting : KeyOf[d] # KeyOf[e]
      /\ UNCHANGED <<preKeys, triples, sessions, unprocessed, startIds, handling, settled, tries>>
  BY DEF Decrypt
<1>2. InboxTyped'
  BY <1>1 DEF InboxInv, InboxTyped
<1>3. TriesCounted' /\ KeysUsedUp' /\ NothingGone' /\ OneOfEachBase'
  BY <1>1 DEF InboxInv, TriesCounted, KeysUsedUp, NothingGone, OneOfEachBase, InInbox
<1>4. KeyInHand'
  BY <1>1 DEF InboxInv, KeyInHand
<1>5. QED  BY <1>2, <1>3, <1>4 DEF InboxInv

\* A commit stores the envelopes of the batch with the sessions they moved, or none.
LEMMA CommitKeeps ==
  ASSUME InboxInv, NEW batch \in SUBSET Envelope, commitDecryptResult(batch)
  PROVE  InboxInv'
<1>1. CASE RolledBack(batch) /\ UNCHANGED <<handling, tries>>
  <2>1. /\ decrypting' = decrypting \ batch
        /\ UNCHANGED <<preKeys, triples, sessions, unprocessed, startIds, handling, settled, tries>>
    BY <1>1 DEF commitDecryptResult, RolledBack
  <2>2. InboxTyped' /\ KeyInHand'
    BY <2>1 DEF InboxInv, InboxTyped, KeyInHand
  <2>3. TriesCounted' /\ KeysUsedUp' /\ NothingGone' /\ OneOfEachBase'
    BY <2>1 DEF InboxInv, TriesCounted, KeysUsedUp, NothingGone, OneOfEachBase, InInbox
  <2>4. QED  BY <2>2, <2>3 DEF InboxInv
<1>2. CASE ~isDuplicate(batch) /\ ~(RolledBack(batch) /\ UNCHANGED <<handling, tries>>)
  <2>1. /\ batch \subseteq decrypting /\ decrypting' = decrypting \ batch
        /\ preKeys' = preKeys \ ({KeyOf[e] : e \in batch} \ LastResort)
        /\ triples' = triples \cup {TripleOf(e) : e \in OfLastResort(batch)}
        /\ sessions' = sessions \cup batch
        /\ unprocessed' = [e \in Envelope |-> IF e \in batch THEN 0 ELSE unprocessed[e]]
        /\ handling' = handling \cup batch
        /\ tries' = [e \in Envelope |-> IF e \in batch THEN tries[e] + 1 ELSE tries[e]]
        /\ UNCHANGED <<startIds, settled>>
    BY <1>2 DEF commitDecryptResult, Committed, saveUnprocessed
  <2>2. \A e \in batch : e \notin sessions /\ KeyOf[e] \in preKeys
    BY <2>1 DEF InboxInv, KeyInHand
  <2>3. 0 \in NoRow..MaxAttempts /\ MaxAttempts \in Nat /\ MaxAttempts > 0 /\ 0 # NoRow
    BY InboxAssumption DEF NoRow
  <2>4. \A e \in batch : unprocessed[e] = NoRow /\ tries[e] = 0
    BY <2>2 DEF InboxInv, TriesCounted
  <2>5. /\ \A e \in batch : unprocessed'[e] = 0 /\ tries'[e] = 1
        /\ \A f \in Envelope \ batch : unprocessed'[f] = unprocessed[f] /\ tries'[f] = tries[f]
    BY <2>1, <2>4
  <2>6. InboxTyped'
    <3>1. unprocessed' \in [Envelope -> NoRow..MaxAttempts]
      BY <2>1, <2>3 DEF InboxInv, InboxTyped
    <3>2. tries' \in [Envelope -> Nat]
      <4>1. \A e \in Envelope : tries'[e] \in Nat
        BY <2>5 DEF InboxInv, InboxTyped
      <4>2. QED  BY <2>1, <4>1
    <3>3. triples' \subseteq Keys \X {BaseKeyOf[f] : f \in Envelope}
      <4>1. \A e \in Envelope : TripleOf(e) \in Keys \X {BaseKeyOf[f] : f \in Envelope}
        BY DEF TripleOf, Keys
      <4>2. QED  BY <2>1, <4>1 DEF InboxInv, InboxTyped, OfLastResort
    <3>4. QED  BY <2>1, <3>1, <3>2, <3>3 DEF InboxInv, InboxTyped
  <2>7. TriesCounted'
    <3>1. SUFFICES ASSUME NEW f \in Envelope
                   PROVE  /\ f \notin sessions' => unprocessed'[f] = NoRow /\ tries'[f] = 0
                          /\ unprocessed'[f] # NoRow => tries'[f] = unprocessed'[f] + 1
                          /\ tries'[f] <= MaxAttempts + 1
                          /\ f \in startIds => unprocessed'[f] < MaxAttempts
      BY <2>1 DEF TriesCounted, InInbox
    <3>2. CASE f \in batch
      BY <2>1, <2>3, <2>5, <3>2
    <3>3. CASE f \notin batch
      BY <2>1, <2>5, <3>3 DEF InboxInv, TriesCounted, InInbox
    <3>4. QED  BY <3>2, <3>3
  <2>8. KeysUsedUp'
    <3>1. ASSUME NEW e \in batch
          PROVE  IF KeyOf[e] \in LastResort THEN TripleOf(e) \in triples' ELSE KeyOf[e] \notin preKeys'
      BY <2>1 DEF OfLastResort
    <3>2. triples \subseteq triples' /\ preKeys' \subseteq preKeys
      BY <2>1
    <3>3. QED  BY <2>1, <3>1, <3>2 DEF InboxInv, KeysUsedUp, TripleOf
  <2>9. KeyInHand'
    <3>1. ASSUME NEW d \in decrypting', NEW e \in batch, KeyOf[e] = KeyOf[d]
          PROVE  KeyOf[e] \in LastResort
      BY <2>1, <3>1 DEF InboxInv, KeyInHand
    <3>2. \A d \in decrypting' : d \notin sessions' /\ KeyOf[d] \in preKeys'
      BY <2>1, <3>1 DEF InboxInv, KeyInHand
    <3>3. QED  BY <2>1, <3>2 DEF InboxInv, KeyInHand
  <2>10. NothingGone'
    BY <2>1, <2>3, <2>5 DEF InboxInv, InboxTyped, NothingGone, InInbox
  <2>11. OneOfEachBase'
    <3>1. ASSUME NEW e \in batch, NEW f \in sessions, KeyOf[e] = KeyOf[f], BaseKeyOf[e] = BaseKeyOf[f]
          PROVE  FALSE
      <4>1. CASE KeyOf[e] \in LastResort
        <5>1. TripleOf(e) \in triples
          BY <3>1, <4>1 DEF InboxInv, KeysUsedUp, TripleOf
        <5>2. e \in OfLastResort(batch)
          BY <4>1 DEF OfLastResort
        <5>3. QED  BY <1>2, <5>1, <5>2 DEF isDuplicate
      <4>2. CASE KeyOf[e] \notin LastResort
        BY <2>2, <3>1, <4>2 DEF InboxInv, KeysUsedUp
      <4>3. QED  BY <4>1, <4>2
    <3>2. ASSUME NEW e \in batch, NEW f \in batch, KeyOf[e] = KeyOf[f], BaseKeyOf[e] = BaseKeyOf[f], e # f
          PROVE  FALSE
      <4>1. KeyOf[e] \in LastResort
        BY <2>1, <3>2 DEF InboxInv, KeyInHand
      <4>2. e \in OfLastResort(batch) /\ TripleOf(f) = TripleOf(e)
        BY <3>2, <4>1 DEF OfLastResort, TripleOf
      <4>3. QED  BY <1>2, <3>2, <4>2 DEF isDuplicate
    <3>3. QED  BY <2>1, <3>1, <3>2 DEF InboxInv, OneOfEachBase
  <2>12. QED  BY <2>6, <2>7, <2>8, <2>9, <2>10, <2>11 DEF InboxInv
<1>3. QED  BY <1>1, <1>2 DEF commitDecryptResult

\* The list of a start gives up what is old or was tried too often, and no other envelope.
LEMMA StartIdsKeep ==
  ASSUME InboxInv, NEW old \in SUBSET Envelope, getAllUnprocessedIds(old)
  PROVE  InboxInv'
<1>1. PICK gone \in SUBSET Envelope : gone = old \cup {e \in Envelope : unprocessed[e] >= MaxAttempts}
  OBVIOUS
<1>2. /\ unprocessed' = [e \in Envelope |-> IF e \in gone THEN NoRow ELSE unprocessed[e]]
      /\ settled' = settled \cup gone
      /\ startIds' = {e \in Envelope : InInbox(e)} \ gone
      /\ UNCHANGED <<preKeys, triples, sessions, decrypting, handling, tries>>
  BY <1>1 DEF getAllUnprocessedIds
<1>3. NoRow \in NoRow..MaxAttempts /\ MaxAttempts \in Nat
  BY InboxAssumption DEF NoRow
<1>4. \A e \in Envelope : unprocessed[e] \in NoRow..MaxAttempts
  BY DEF InboxInv, InboxTyped
<1>5. unprocessed' \in [Envelope -> NoRow..MaxAttempts]
  BY <1>2, <1>3, <1>4
<1>6. InboxTyped'
  BY <1>2, <1>5 DEF InboxInv, InboxTyped
<1>7. \A e \in Envelope : e \notin gone => unprocessed[e] < MaxAttempts
  BY <1>1, <1>3, <1>4 DEF NoRow
<1>8. TriesCounted'
  BY <1>2, <1>7 DEF InboxInv, TriesCounted, InInbox
<1>9. KeysUsedUp' /\ KeyInHand' /\ OneOfEachBase'
  BY <1>2 DEF InboxInv, KeysUsedUp, KeyInHand, OneOfEachBase
<1>10. NothingGone'
  BY <1>2 DEF InboxInv, InboxTyped, NothingGone, InInbox
<1>11. QED  BY <1>6, <1>8, <1>9, <1>10 DEF InboxInv

\* Beginning stored envelopes again counts an attempt of each and drops none.
LEMMA AttemptsKeep ==
  ASSUME InboxInv, NEW ids \in SUBSET Envelope, getUnprocessedByIdsAndIncrementAttempts(ids)
  PROVE  InboxInv'
<1>1. PICK found \in SUBSET Envelope : found = {e \in ids : InInbox(e)}
  OBVIOUS
<1>2. /\ ids \subseteq startIds
      /\ unprocessed' = [e \in Envelope |-> IF e \in found THEN unprocessed[e] + 1 ELSE unprocessed[e]]
      /\ startIds' = startIds \ ids
      /\ handling' = handling \cup found
      /\ tries' = [e \in Envelope |-> IF e \in found THEN tries[e] + 1 ELSE tries[e]]
      /\ UNCHANGED <<preKeys, triples, sessions, decrypting, settled>>
  BY <1>1 DEF getUnprocessedByIdsAndIncrementAttempts, Counted
<1>3. MaxAttempts \in Nat /\ NoRow = -1
  BY InboxAssumption DEF NoRow
<1>4. \A e \in Envelope : unprocessed[e] \in NoRow..MaxAttempts /\ tries[e] \in Nat
  BY DEF InboxInv, InboxTyped
<1>5. \A e \in found : unprocessed[e] # NoRow /\ unprocessed[e] < MaxAttempts
  BY <1>1, <1>2 DEF InboxInv, TriesCounted, InInbox
<1>6. \A e \in found : unprocessed[e] + 1 \in NoRow..MaxAttempts /\ unprocessed[e] + 1 # NoRow
  BY <1>1, <1>3, <1>4, <1>5
<1>7. unprocessed' \in [Envelope -> NoRow..MaxAttempts]
  BY <1>2, <1>4, <1>6
<1>8. tries' \in [Envelope -> Nat]
  BY <1>2, <1>4
<1>9. InboxTyped'
  BY <1>2, <1>7, <1>8 DEF InboxInv, InboxTyped
<1>10. TriesCounted'
  <2>1. SUFFICES ASSUME NEW f \in Envelope
                 PROVE  /\ f \notin sessions => unprocessed'[f] = NoRow /\ tries'[f] = 0
                        /\ unprocessed'[f] # NoRow => tries'[f] = unprocessed'[f] + 1
                        /\ tries'[f] <= MaxAttempts + 1
                        /\ f \in startIds' => unprocessed'[f] < MaxAttempts
    BY <1>2 DEF TriesCounted, InInbox
  <2>2. /\ f \notin sessions => unprocessed[f] = NoRow /\ tries[f] = 0
        /\ unprocessed[f] # NoRow => tries[f] = unprocessed[f] + 1
        /\ tries[f] <= MaxAttempts + 1
        /\ f \in startIds => unprocessed[f] < MaxAttempts
    BY DEF InboxInv, TriesCounted, InInbox
  <2>3. CASE f \in found
    <3>1. unprocessed'[f] = unprocessed[f] + 1 /\ tries'[f] = tries[f] + 1 /\ f \in ids
      BY <1>1, <1>2, <2>3
    <3>2. unprocessed[f] # NoRow /\ unprocessed[f] < MaxAttempts
      BY <1>5, <2>3
    <3>3. f \notin startIds'
      BY <1>2, <3>1
    <3>4. unprocessed[f] \in Int /\ tries[f] \in Nat
      BY <1>3, <1>4
    <3>5. QED  BY <1>3, <2>2, <3>1, <3>2, <3>3, <3>4
  <2>4. CASE f \notin found
    <3>1. unprocessed'[f] = unprocessed[f] /\ tries'[f] = tries[f] /\ (f \in startIds' => f \in startIds)
      BY <1>2, <2>4
    <3>2. QED  BY <2>2, <3>1
  <2>5. QED  BY <2>3, <2>4
<1>11. KeysUsedUp' /\ KeyInHand' /\ OneOfEachBase'
  BY <1>2 DEF InboxInv, KeysUsedUp, KeyInHand, OneOfEachBase
<1>12. NothingGone'
  BY <1>2, <1>6 DEF InboxInv, InboxTyped, NothingGone, InInbox
<1>13. QED  BY <1>9, <1>10, <1>11, <1>12 DEF InboxInv

\* Removing handled envelopes loses none that is not handled.
LEMMA RemoveKeeps ==
  ASSUME InboxInv, NEW done \in SUBSET Envelope, removeUnprocessed(done)
  PROVE  InboxInv'
<1>1. /\ unprocessed' = [e \in Envelope |-> IF e \in done THEN NoRow ELSE unprocessed[e]]
      /\ handling' = handling \ done
      /\ settled' = settled \cup done
      /\ UNCHANGED <<preKeys, triples, sessions, decrypting, startIds, tries>>
  BY DEF removeUnprocessed
<1>2. NoRow \in NoRow..MaxAttempts /\ NoRow < MaxAttempts
  BY InboxAssumption DEF NoRow
<1>3. InboxTyped'
  <2>1. unprocessed' \in [Envelope -> NoRow..MaxAttempts]
    BY <1>1, <1>2 DEF InboxInv, InboxTyped
  <2>2. QED  BY <1>1, <2>1 DEF InboxInv, InboxTyped
<1>4. TriesCounted'
  BY <1>1, <1>2 DEF InboxInv, TriesCounted, InInbox
<1>5. KeysUsedUp' /\ KeyInHand' /\ OneOfEachBase'
  BY <1>1 DEF InboxInv, KeysUsedUp, KeyInHand, OneOfEachBase
<1>6. NothingGone'
  BY <1>1 DEF InboxInv, InboxTyped, NothingGone, InInbox
<1>7. QED  BY <1>3, <1>4, <1>5, <1>6 DEF InboxInv

\* A crash forgets what was in memory and nothing that was stored.
LEMMA ClientCrashKeeps ==
  ASSUME InboxInv, ClientCrash
  PROVE  InboxInv'
<1>1. /\ decrypting' = {} /\ handling' = {} /\ startIds' = {}
      /\ UNCHANGED <<preKeys, triples, sessions, unprocessed, settled, tries>>
  BY DEF ClientCrash
<1>2. InboxTyped' /\ KeyInHand'
  BY <1>1 DEF InboxInv, InboxTyped, KeyInHand
<1>3. TriesCounted' /\ KeysUsedUp' /\ NothingGone' /\ OneOfEachBase'
  BY <1>1 DEF InboxInv, TriesCounted, KeysUsedUp, NothingGone, OneOfEachBase, InInbox
<1>4. QED  BY <1>2, <1>3 DEF InboxInv

\* No text is lost and nothing is begun without end, over crashes of the client at any
\* point, and of two envelopes with one base key only one is committed, in one batch or in
\* two, if the client decrypts no second envelope with a one-time key that is in use
\* (sql.js 4195-4317, 5418-5489).
THEOREM InboxIsSafe ==
  ASSUME KeyUsedOnce
  PROVE  InboxSpec => []NothingDecryptedIsLost
<1>1. InboxInv /\ [InboxNext]_inboxVars => InboxInv'
  <2> SUFFICES ASSUME InboxInv, [InboxNext]_inboxVars PROVE InboxInv'
    OBVIOUS
  <2>1. ASSUME NEW e \in Envelope, Decrypt(e) PROVE InboxInv'
    BY <2>1, DecryptKeeps
  <2>2. ASSUME NEW some \in SUBSET Envelope,
               \/ commitDecryptResult(some)
               \/ getAllUnprocessedIds(some)
               \/ getUnprocessedByIdsAndIncrementAttempts(some)
               \/ removeUnprocessed(some)
        PROVE  InboxInv'
    BY <2>2, CommitKeeps, StartIdsKeep, AttemptsKeep, RemoveKeeps
  <2>3. CASE UNCHANGED inboxVars
    BY <2>3 DEF inboxVars, InboxInv, InboxTyped, TriesCounted, KeysUsedUp, KeyInHand,
                NothingGone, OneOfEachBase, InInbox
  <2>4. QED  BY <2>1, <2>2, <2>3, ClientCrashKeeps DEF InboxNext
<1>2. InboxInv => NothingDecryptedIsLost
  BY DEF InboxInv, TriesCounted, NothingGone, OneOfEachBase, NothingDecryptedIsLost
<1>3. QED  BY InboxStart, <1>1, <1>2, PTL DEF InboxSpec

(***************************************************************************)
(* A scan of the sync tasks misses none, for any number of tasks, any types *)
(* and any size of page. What makes it inductive: the ids in the table are  *)
(* apart and below a counter that only grows, whatever rowids return; what  *)
(* was given is in no row ahead of the scan; and what is owed is in a row   *)
(* ahead of it. A page takes the first of the rows ahead, since a row with   *)
(* fewer than a page before it leaves none of them out.                     *)
(***************************************************************************)

\* A set of rows has a greatest one.
LEMMA GreatestRow ==
  ASSUME NEW S \in SUBSET (1..MaxTasks), S # {}
  PROVE  Max(S) \in S /\ \A r \in S : r <= Max(S)
<1>1. PICK T \in SUBSET Nat : T = {n \in Nat : \A r \in S : r <= n}
  OBVIOUS
<1>2. MaxTasks \in T
  BY <1>1, SyncTasksAssumption
<1>3. PICK m \in T : \A k \in T : m <= k
  BY <1>2, NatLeast
<1>4. m \in Nat /\ \A r \in S : r <= m
  BY <1>1
<1>5. m \in S
  <2>1. SUFFICES ASSUME m \notin S PROVE FALSE
    OBVIOUS
  <2>2. PICK r \in S : TRUE
    OBVIOUS
  <2>3. m - 1 \in Nat /\ \A q \in S : q <= m - 1
    BY <1>4, <2>1, <2>2
  <2>4. m - 1 \in T
    BY <1>1, <2>3
  <2>5. QED  BY <1>3, <1>4, <2>4
<1>6. \E x \in S : \A y \in S : x >= y
  BY <1>4, <1>5
<1>7. Max(S) \in S /\ \A y \in S : Max(S) >= y
  BY <1>6 DEF Max
<1>8. QED  BY <1>7

\* A new row goes behind all others.
LEMMA RowsUpToLast ==
  LastRow \in 0..MaxTasks /\ \A r \in TaskRows : r <= LastRow
<1>1. TaskRows \in SUBSET (1..MaxTasks)
  BY DEF TaskRows
<1>2. CASE TaskRows = {}
  BY <1>2, SyncTasksAssumption DEF LastRow
<1>3. CASE TaskRows # {}
  <2>1. Max(TaskRows) \in TaskRows /\ \A r \in TaskRows : r <= Max(TaskRows)
    BY <1>1, <1>3, GreatestRow
  <2>2. LastRow = Max(TaskRows)
    BY <1>3 DEF LastRow
  <2>3. LastRow \in 1..MaxTasks
    BY <1>1, <2>1, <2>2
  <2>4. QED  BY <2>1, <2>2, <2>3, SyncTasksAssumption
<1>4. QED  BY <1>2, <1>3

\* The rows before one of a set, counted.
LEMMA RankOfRow ==
  ASSUME NEW S \in SUBSET (1..MaxTasks)
  PROVE  /\ IsFiniteSet(S) /\ Cardinality(S) \in Nat
         /\ \A r \in S : Before(r, S) \in 0..Cardinality(S) - 1
         /\ \A q, r \in S : q < r => Before(q, S) < Before(r, S)
<1>1. IsFiniteSet(S)
  <2>1. IsFiniteSet(1..MaxTasks)
    BY FS_Interval, SyncTasksAssumption
  <2>2. QED  BY <2>1, FS_Subset
<1>2. Cardinality(S) \in Nat
  BY <1>1, FS_CardinalityType
<1>3. ASSUME NEW r \in S
      PROVE  Before(r, S) \in 0..Cardinality(S) - 1
  <2>1. PICK T \in SUBSET S : T = {q \in S : q < r}
    OBVIOUS
  <2>2. r \notin T
    BY <2>1
  <2>3. IsFiniteSet(S \ {r}) /\ Cardinality(S \ {r}) = Cardinality(S) - 1
    BY <1>1, FS_RemoveElement
  <2>4. T \in SUBSET (S \ {r})
    BY <2>2
  <2>5. IsFiniteSet(T) /\ Cardinality(T) <= Cardinality(S \ {r})
    BY <2>3, <2>4, FS_Subset
  <2>6. Cardinality(T) \in Nat
    BY <2>5, FS_CardinalityType
  <2>7. Before(r, S) = Cardinality(T)
    BY <2>1 DEF Before
  <2>8. QED  BY <1>2, <2>3, <2>5, <2>6, <2>7
<1>4. ASSUME NEW q \in S, NEW r \in S, q < r
      PROVE  Before(q, S) < Before(r, S)
  <2>1. PICK T \in SUBSET S : T = {p \in S : p < q}
    OBVIOUS
  <2>2. PICK U \in SUBSET S : U = {p \in S : p < r}
    OBVIOUS
  <2>3. IsFiniteSet(U)
    BY <1>1, FS_Subset
  <2>4. T \in SUBSET U /\ q \in U /\ q \notin T
    <3>1. \A p \in S : p < q => p < r
      BY <1>4
    <3>2. q \in 1..MaxTasks /\ q \in Int /\ ~(q < q)
      OBVIOUS
    <3>3. q \notin T
      BY <2>1, <3>2
    <3>4. q \in U
      BY <1>4, <2>2
    <3>5. T \in SUBSET U
      BY <2>1, <2>2, <3>1
    <3>6. QED  BY <3>3, <3>4, <3>5
  <2>5. Cardinality(T) <= Cardinality(U) /\ (Cardinality(T) = Cardinality(U) => T = U)
    BY <2>3, <2>4, FS_Subset
  <2>6. IsFiniteSet(T)
    BY <2>3, <2>4, FS_Subset
  <2>7. Cardinality(T) \in Nat /\ Cardinality(U) \in Nat
    BY <2>3, <2>6, FS_CardinalityType
  <2>8. Before(q, S) = Cardinality(T) /\ Before(r, S) = Cardinality(U)
    BY <2>1, <2>2 DEF Before
  <2>9. QED  BY <2>4, <2>5, <2>7, <2>8
<1>5. QED  BY <1>1, <1>2, <1>3, <1>4

\* The page is given in the order of its rows, each once.
LEMMA RowOrder ==
  ASSUME NEW S \in SUBSET (1..MaxTasks), NEW order, order = InRowOrder(S)
  PROVE  /\ Cardinality(S) \in Nat /\ order \in [1..Cardinality(S) -> S]
         /\ \A i, j \in 1..Cardinality(S) : i < j => order[i] # order[j]
<1>1. PICK n \in Nat : n = Cardinality(S)
  BY RankOfRow
<1>2. PICK rank : rank = [r \in S |-> Before(r, S) + 1]
  OBVIOUS
<1>3. \A r \in S : Before(r, S) \in 0..n - 1 /\ rank[r] = Before(r, S) + 1 /\ rank[r] \in 1..n
  BY <1>1, <1>2, RankOfRow
<1>4. rank \in [S -> 1..n]
  BY <1>2, <1>3
<1>5. \A q, r \in S : q # r => rank[q] # rank[r]
  <2>1. SUFFICES ASSUME NEW q \in S, NEW r \in S, q < r PROVE rank[q] < rank[r]
    BY <1>4
  <2>2. Before(q, S) < Before(r, S)
    BY <2>1, RankOfRow
  <2>3. QED  BY <1>3, <2>2
<1>6. rank \in Injection(S, 1..n)
  BY <1>4, <1>5 DEF Injection, IsInjective
<1>7. IsFiniteSet(1..n) /\ Cardinality(1..n) = n
  BY FS_Interval
<1>8. rank \in Surjection(S, 1..n)
  BY <1>1, <1>6, <1>7, FS_Injection
<1>9. \A k \in 1..n : \E r \in S : Before(r, S) = k - 1
  <2>1. TAKE k \in 1..n
  <2>2. PICK r \in S : rank[r] = k
    BY <1>8 DEF Surjection
  <2>3. Before(r, S) = k - 1
    BY <1>3, <2>2
  <2>4. QED  BY <2>3
<1>10. \A k \in 1..n : order[k] \in S /\ Before(order[k], S) = k - 1
  <2>1. TAKE k \in 1..n
  <2>2. order[k] = CHOOSE r \in S : Before(r, S) = k - 1
    BY <1>1 DEF InRowOrder
  <2>3. QED  BY <1>9, <2>2
<1>11. order \in [1..n -> S]
  BY <1>1, <1>10 DEF InRowOrder
<1>12. \A i, j \in 1..n : i < j => order[i] # order[j]
  <2>1. SUFFICES ASSUME NEW i \in 1..n, NEW j \in 1..n, i < j, order[i] = order[j] PROVE FALSE
    OBVIOUS
  <2>2. i - 1 = j - 1
    BY <1>10, <2>1
  <2>3. QED  BY <2>1, <2>2
<1>13. QED  BY <1>1, <1>11, <1>12

\* What is given is put behind what was given before.
LEMMA IdsGiven ==
  ASSUME NEW S, NEW s \in Seq(S), NEW n \in Nat, NEW u \in [1..n -> S]
  PROVE  /\ s \o u \in Seq(S) /\ Len(s) \in Nat
         /\ DOMAIN (s \o u) = 1..Len(s) + n /\ DOMAIN s = 1..Len(s)
         /\ \A k \in 1..Len(s) : (s \o u)[k] = s[k]
         /\ \A k \in Len(s) + 1..Len(s) + n : (s \o u)[k] = u[k - Len(s)] /\ k - Len(s) \in 1..n
<1>1. u \in Seq(S) /\ Len(u) = n
  OBVIOUS
<1>2. QED  BY <1>1

TaskRecord == [id : 0..MaxTasks, type : TaskType \cup {"none"}, attempts : 0..MaxTaskAttempts]
ScanRecord == [state : {"off", "on", "over"}, types : SUBSET TaskType, last : 0..MaxTasks,
               owed : SUBSET TaskIds, given : Seq(TaskIds)]
SyncTyped ==
  /\ syncTasks \in [1..MaxTasks -> TaskRecord]
  /\ tasksSaved \in 0..MaxTasks
  /\ scan \in ScanRecord
  /\ started \in [TaskIds -> 0..MaxTaskAttempts]

\* The tasks of the table are told apart by ids that never come back.
IdsApart ==
  /\ \A r \in TaskRows : syncTasks[r].id <= tasksSaved
  /\ \A q, r \in TaskRows : syncTasks[q].id = syncTasks[r].id => q = r

\* A task was begun at most as often as its row says.
StartsCounted ==
  /\ \A i \in TaskIds : i > tasksSaved => started[i] = 0
  /\ \A r \in TaskRows : started[syncTasks[r].id] <= syncTasks[r].attempts

\* What was given was given once, and is in no row that the scan has still to reach.
GivenOnce ==
  /\ \A i, j \in DOMAIN scan.given : i < j => scan.given[i] # scan.given[j]
  /\ \A k \in DOMAIN scan.given : scan.given[k] <= tasksSaved
  /\ \A r \in TaskRows : \A k \in DOMAIN scan.given : syncTasks[r].id = scan.given[k] => r <= scan.last

\* What the scan owes is ahead of it.
OwedAhead ==
  \A i \in scan.owed :
    /\ scan.state = "on"
    /\ \E r \in TaskRows : syncTasks[r].id = i /\ r > scan.last /\ syncTasks[r].type \in scan.types

SyncInv == SyncTyped /\ IdsApart /\ StartsCounted /\ GivenOnce /\ OwedAhead

\* An empty table, and no scan.
LEMMA SyncStart == SyncInit => SyncInv
<1> SUFFICES ASSUME SyncInit PROVE SyncInv
  OBVIOUS
<1>1. NoTask \in TaskRecord /\ NoTask.id = 0
  BY SyncTasksAssumption DEF NoTask, TaskRecord
<1>2. NoScan \in ScanRecord /\ NoScan.given = <<>> /\ NoScan.owed = {}
  BY SyncTasksAssumption DEF NoScan, ScanRecord
<1>3. TaskRows = {}
  BY <1>1 DEF SyncInit, TaskRows
<1>4. SyncTyped
  BY <1>1, <1>2, SyncTasksAssumption DEF SyncInit, SyncTyped
<1>5. QED  BY <1>2, <1>3, <1>4 DEF SyncInit, SyncInv, IdsApart, StartsCounted, GivenOnce, OwedAhead

\* New tasks have new ids, in rows behind all others.
LEMMA SaveTasksKeeps ==
  ASSUME SyncInv, NEW types \in [1..1 -> TaskType] \cup [1..2 -> TaskType], saveSyncTasks(types)
  PROVE  SyncInv'
<1>1. PICK n \in {1, 2} : types \in [1..n -> TaskType]
  OBVIOUS
<1>2. n \in Nat /\ DOMAIN types = 1..n /\ Len(types) = n /\ \A k \in 1..n : types[k] \in TaskType
  BY <1>1
<1>3. PICK last \in 0..MaxTasks : last = LastRow /\ \A r \in TaskRows : r <= last
  BY RowsUpToLast
<1>4. /\ tasksSaved \in Nat /\ tasksSaved' = tasksSaved + n /\ tasksSaved + n <= MaxTasks
      /\ tasksSaved' \in 0..MaxTasks /\ MaxTasks \in Nat /\ MaxTaskAttempts \in Nat
  BY <1>2, SyncTasksAssumption DEF saveSyncTasks, SyncInv, SyncTyped
<1>5. UNCHANGED <<scan, started>>
  BY DEF saveSyncTasks
<1>6. ASSUME NEW r \in 1..MaxTasks, r - last \notin 1..n
      PROVE  syncTasks'[r] = syncTasks[r]
  BY <1>2, <1>3, <1>6 DEF saveSyncTasks
<1>7. ASSUME NEW r \in 1..MaxTasks, r - last \in 1..n
      PROVE  /\ syncTasks'[r] \in TaskRecord /\ syncTasks'[r].id = tasksSaved + (r - last)
             /\ syncTasks'[r].attempts = 0 /\ syncTasks[r].id = 0
  <2>1. PICK k \in 1..n : k = r - last
    BY <1>7
  <2>2. PICK id \in 0..MaxTasks : id = tasksSaved + k
    BY <1>2, <1>4
  <2>3. PICK type \in TaskType : type = types[k]
    BY <1>2
  <2>4. syncTasks'[r] = [id |-> id, type |-> type, attempts |-> 0]
    <3>1. syncTasks'[r] = [id |-> tasksSaved + r - last, type |-> types[r - last], attempts |-> 0]
      BY <1>2, <1>3, <1>7 DEF saveSyncTasks
    <3>2. tasksSaved + r - last = id
      BY <1>4, <2>1, <2>2
    <3>3. QED  BY <2>1, <2>3, <3>1, <3>2
  <2>5. ~(r <= last)
    BY <2>1
  <2>6. syncTasks[r].id = 0
    BY <1>3, <2>5 DEF TaskRows
  <2>7. QED  BY <1>4, <2>1, <2>2, <2>4, <2>6 DEF TaskRecord
<1>8. SyncTyped'
  <2>1. \A r \in 1..MaxTasks : syncTasks'[r] \in TaskRecord
    BY <1>6, <1>7 DEF SyncInv, SyncTyped
  <2>2. syncTasks' \in [1..MaxTasks -> TaskRecord]
    BY <2>1 DEF saveSyncTasks
  <2>3. QED  BY <1>4, <1>5, <2>2 DEF SyncInv, SyncTyped
<1>9. ASSUME NEW r \in TaskRows'
      PROVE  \/ r \in TaskRows /\ syncTasks'[r] = syncTasks[r] /\ r - last \notin 1..n
             \/ r - last \in 1..n /\ r \in 1..MaxTasks
  BY <1>6 DEF TaskRows
<1>10. ASSUME NEW r \in TaskRows
       PROVE  r \in TaskRows' /\ syncTasks'[r] = syncTasks[r]
  <2>1. r \in 1..MaxTasks /\ r <= last /\ syncTasks[r].id # 0
    BY <1>3 DEF TaskRows
  <2>2. r - last \notin 1..n
    BY <1>2, <2>1
  <2>3. QED  BY <1>6, <2>1, <2>2 DEF TaskRows
<1>11. \A r \in TaskRows : syncTasks[r].id \in 1..tasksSaved /\ syncTasks[r].id \in TaskIds
  BY <1>4 DEF SyncInv, SyncTyped, IdsApart, TaskRows, TaskRecord, TaskIds
<1>12. \A r \in 1..MaxTasks : r - last \in 1..n =>
         /\ syncTasks'[r].id > tasksSaved /\ syncTasks'[r].id <= tasksSaved'
         /\ syncTasks'[r].id \in TaskIds
  BY <1>2, <1>4, <1>7 DEF TaskIds
<1>13. IdsApart'
  <2>1. ASSUME NEW r \in TaskRows' PROVE syncTasks'[r].id <= tasksSaved'
    BY <1>2, <1>4, <1>9, <1>11, <1>12
  <2>2. ASSUME NEW q \in TaskRows', NEW r \in TaskRows', syncTasks'[q].id = syncTasks'[r].id
        PROVE  q = r
    <3>1. CASE q - last \in 1..n /\ r - last \in 1..n
      <4>1. q \in Int /\ r \in Int /\ last \in Int /\ tasksSaved + (q - last) = tasksSaved + (r - last)
        BY <1>7, <1>9, <2>2, <3>1 DEF TaskRows
      <4>2. QED  BY <1>4, <4>1
    <3>2. CASE q - last \notin 1..n /\ r - last \notin 1..n
      BY <1>9, <2>2, <3>2 DEF SyncInv, IdsApart
    <3>3. CASE q - last \in 1..n /\ r - last \notin 1..n
      BY <1>4, <1>9, <1>11, <1>12, <2>2, <3>3
    <3>4. CASE q - last \notin 1..n /\ r - last \in 1..n
      BY <1>4, <1>9, <1>11, <1>12, <2>2, <3>4
    <3>5. QED  BY <3>1, <3>2, <3>3, <3>4
  <2>3. QED  BY <2>1, <2>2 DEF IdsApart
<1>14. StartsCounted'
  <2>1. \A i \in TaskIds : i > tasksSaved' => started'[i] = 0
    BY <1>2, <1>4, <1>5 DEF SyncInv, StartsCounted, TaskIds
  <2>2. ASSUME NEW r \in TaskRows' PROVE started'[syncTasks'[r].id] <= syncTasks'[r].attempts
    <3>1. CASE r - last \in 1..n
      <4>1. started[syncTasks'[r].id] = 0
        BY <1>9, <1>12, <3>1 DEF SyncInv, StartsCounted
      <4>2. QED  BY <1>5, <1>7, <1>9, <3>1, <4>1
    <3>2. CASE r - last \notin 1..n
      BY <1>5, <1>9, <3>2 DEF SyncInv, StartsCounted
    <3>3. QED  BY <3>1, <3>2
  <2>3. QED  BY <2>1, <2>2 DEF StartsCounted
<1>15. GivenOnce'
  <2>1. \A k \in DOMAIN scan.given : scan.given[k] \in TaskIds /\ scan.given[k] <= tasksSaved
    BY DEF SyncInv, SyncTyped, ScanRecord, GivenOnce
  <2>2. \A k \in DOMAIN scan.given : scan.given[k] <= tasksSaved'
    BY <1>2, <1>4, <2>1 DEF TaskIds
  <2>3. ASSUME NEW r \in TaskRows', NEW k \in DOMAIN scan.given, syncTasks'[r].id = scan.given[k]
        PROVE  r <= scan.last
    <3>1. r - last \notin 1..n
      BY <1>4, <1>9, <1>12, <2>1, <2>3 DEF TaskIds
    <3>2. QED  BY <1>9, <2>3, <3>1 DEF SyncInv, GivenOnce
  <2>4. QED  BY <1>5, <2>2, <2>3 DEF SyncInv, GivenOnce
<1>16. OwedAhead'
  BY <1>5, <1>10 DEF SyncInv, OwedAhead
<1>17. QED  BY <1>8, <1>13, <1>14, <1>15, <1>16 DEF SyncInv

\* Rows that stay keep their ids and types, and count no attempt back.
RowsStay ==
  /\ syncTasks' \in [1..MaxTasks -> TaskRecord] /\ UNCHANGED tasksSaved
  /\ \A r \in TaskRows' :
       /\ r \in TaskRows /\ syncTasks'[r].id = syncTasks[r].id /\ syncTasks'[r].type = syncTasks[r].type
       /\ syncTasks'[r].attempts >= syncTasks[r].attempts

\* Without a new row, the ids stay apart; the attempts are counted if none began.
LEMMA StayingApart ==
  ASSUME SyncInv, RowsStay
  PROVE  /\ IdsApart' /\ MaxTaskAttempts \in Nat
         /\ UNCHANGED started => StartsCounted'
         /\ scan.given = scan'.given /\ scan.last = scan'.last => GivenOnce'
<1>1. IdsApart'
  BY DEF SyncInv, IdsApart, RowsStay
<1>2. ASSUME UNCHANGED started PROVE StartsCounted'
  <2>1. ASSUME NEW r \in TaskRows' PROVE started[syncTasks'[r].id] <= syncTasks'[r].attempts
    <3>1. PICK i \in TaskIds : i = syncTasks[r].id
      BY DEF SyncInv, SyncTyped, TaskRecord, RowsStay, TaskRows, TaskIds
    <3>2. started[i] \in Int /\ syncTasks[r].attempts \in Int /\ syncTasks'[r].attempts \in Int
      BY SyncTasksAssumption DEF SyncInv, SyncTyped, TaskRecord, RowsStay, TaskRows
    <3>3. started[i] <= syncTasks[r].attempts
      BY <3>1 DEF SyncInv, StartsCounted, RowsStay
    <3>4. QED  BY <3>1, <3>2, <3>3 DEF RowsStay
  <2>2. QED  BY <1>2, <2>1 DEF SyncInv, StartsCounted, RowsStay
<1>3. ASSUME scan.given = scan'.given, scan.last = scan'.last PROVE GivenOnce'
  BY <1>3 DEF SyncInv, GivenOnce, RowsStay
<1>4. QED  BY <1>1, <1>2, <1>3, SyncTasksAssumption

\* A counted attempt is one more, or as many as are told apart.
LEMMA MoreAttempts ==
  ASSUME NEW n \in 0..MaxTaskAttempts
  PROVE  More(n) \in 0..MaxTaskAttempts /\ More(n) >= n
         /\ \A m \in 0..MaxTaskAttempts : m <= n => More(m) <= More(n)
BY SyncTasksAssumption DEF More

\* A scan whose debts are fewer.
LEMMA FewerDebts ==
  ASSUME NEW x \in ScanRecord, NEW gone
  PROVE  LET y == [x EXCEPT !.owed = @ \ gone] IN
         /\ y \in ScanRecord /\ y.state = x.state /\ y.types = x.types /\ y.last = x.last
         /\ y.given = x.given /\ y.owed = x.owed \ gone
<1>1. PICK owed \in SUBSET TaskIds : owed = x.owed \ gone
  BY DEF ScanRecord
<1>2. PICK y : y = [x EXCEPT !.owed = owed]
  OBVIOUS
<1>3. y \in ScanRecord
  BY <1>2 DEF ScanRecord
<1>4. QED  BY <1>1, <1>2, <1>3 DEF ScanRecord

\* A task that is removed is owed no more.
LEMMA RemoveTaskKeeps ==
  ASSUME SyncInv, NEW r \in 1..MaxTasks, removeSyncTaskById(r)
  PROVE  SyncInv'
<1>1. NoTask \in TaskRecord /\ NoTask.id = 0
  BY SyncTasksAssumption DEF NoTask, TaskRecord
<1>2. /\ syncTasks' = [syncTasks EXCEPT ![r] = NoTask] /\ UNCHANGED <<tasksSaved, started>>
      /\ syncTasks \in [1..MaxTasks -> TaskRecord]
  BY DEF removeSyncTaskById, SyncInv, SyncTyped
<1>3. /\ syncTasks' \in [1..MaxTasks -> TaskRecord] /\ syncTasks'[r].id = 0
      /\ \A q \in 1..MaxTasks \ {r} : syncTasks'[q] = syncTasks[q]
  BY <1>1, <1>2
<1>4. RowsStay
  <2>1. ASSUME NEW q \in TaskRows' PROVE q \in TaskRows /\ syncTasks'[q] = syncTasks[q]
    BY <1>3 DEF TaskRows
  <2>2. \A q \in TaskRows : syncTasks[q].attempts \in Int
    BY <1>2 DEF TaskRows, TaskRecord
  <2>3. QED  BY <1>2, <1>3, <2>1, <2>2 DEF RowsStay
<1>5. /\ scan' \in ScanRecord /\ scan'.state = scan.state /\ scan'.types = scan.types
      /\ scan'.last = scan.last /\ scan'.given = scan.given /\ scan'.owed = scan.owed \ IdsOf({r})
  <2>1. scan \in ScanRecord /\ scan' = [scan EXCEPT !.owed = @ \ IdsOf({r})]
    BY DEF removeSyncTaskById, SyncInv, SyncTyped
  <2>2. QED  BY <2>1, FewerDebts
<1>6. SyncTyped'
  BY <1>2, <1>3, <1>5 DEF SyncInv, SyncTyped
<1>7. IdsApart' /\ StartsCounted' /\ GivenOnce'
  BY <1>2, <1>4, <1>5, StayingApart
<1>8. OwedAhead'
  <2>1. SUFFICES ASSUME NEW i \in scan'.owed
                 PROVE  /\ scan'.state = "on"
                        /\ \E q \in TaskRows' : syncTasks'[q].id = i /\ q > scan'.last
                                              /\ syncTasks'[q].type \in scan'.types
    BY DEF OwedAhead
  <2>2. i \in scan.owed /\ i # syncTasks[r].id
    BY <1>5, <2>1 DEF IdsOf
  <2>3. scan.state = "on"
    BY <2>2 DEF SyncInv, OwedAhead
  <2>4. PICK q \in TaskRows : syncTasks[q].id = i /\ q > scan.last /\ syncTasks[q].type \in scan.types
    BY <2>2 DEF SyncInv, OwedAhead
  <2>5. q \in TaskRows' /\ syncTasks'[q] = syncTasks[q]
    BY <1>3, <2>2, <2>4 DEF TaskRows
  <2>6. QED  BY <1>5, <2>3, <2>4, <2>5
<1>9. QED  BY <1>6, <1>7, <1>8 DEF SyncInv

\* A start of the client counts an attempt of every task.
LEMMA IncrementAllKeeps ==
  ASSUME SyncInv, incrementAllSyncTaskAttempts
  PROVE  SyncInv'
<1>1. NoTask \in TaskRecord /\ NoTask.id = 0
  BY SyncTasksAssumption DEF NoTask, TaskRecord
<1>2. UNCHANGED <<tasksSaved, scan, started>>
  BY DEF incrementAllSyncTaskAttempts
<1>3. ASSUME NEW r \in 1..MaxTasks
      PROVE  /\ syncTasks'[r] \in TaskRecord
             /\ r \in TaskRows => /\ syncTasks'[r].id = syncTasks[r].id /\ syncTasks'[r].type = syncTasks[r].type
                                  /\ syncTasks'[r].attempts >= syncTasks[r].attempts
             /\ r \notin TaskRows => syncTasks'[r].id = 0
  <2>1. PICK row \in TaskRecord : row = syncTasks[r]
    BY DEF SyncInv, SyncTyped
  <2>2. PICK n \in 0..MaxTaskAttempts : n = More(row.attempts) /\ n >= row.attempts
    BY <2>1, MoreAttempts DEF TaskRecord
  <2>3. CASE r \in TaskRows
    <3>1. syncTasks'[r] = [row EXCEPT !.attempts = n]
      BY <2>1, <2>2, <2>3 DEF incrementAllSyncTaskAttempts
    <3>2. syncTasks'[r] \in TaskRecord
      BY <2>1, <3>1 DEF TaskRecord
    <3>3. QED  BY <2>1, <2>2, <2>3, <3>1, <3>2 DEF TaskRecord
  <2>4. CASE r \notin TaskRows
    BY <1>1, <2>4 DEF incrementAllSyncTaskAttempts
  <2>5. QED  BY <2>3, <2>4
<1>4. syncTasks' \in [1..MaxTasks -> TaskRecord]
  BY <1>3 DEF incrementAllSyncTaskAttempts
<1>5. RowsStay
  BY <1>2, <1>3, <1>4 DEF RowsStay, TaskRows
<1>6. SyncTyped' /\ IdsApart' /\ StartsCounted' /\ GivenOnce'
  <2>1. SyncTyped'
    BY <1>2, <1>4 DEF SyncInv, SyncTyped
  <2>2. QED  BY <1>2, <1>5, <2>1, StayingApart
<1>7. OwedAhead'
  <2>1. ASSUME NEW q \in TaskRows
        PROVE  q \in TaskRows' /\ syncTasks'[q].id = syncTasks[q].id /\ syncTasks'[q].type = syncTasks[q].type
    BY <1>3 DEF TaskRows
  <2>2. QED  BY <1>2, <2>1 DEF SyncInv, OwedAhead
<1>8. QED  BY <1>6, <1>7 DEF SyncInv

\* A new scan owes the tasks that are there, all of them ahead.
LEMMA BeginScanKeeps ==
  ASSUME SyncInv, NEW types \in SUBSET TaskType, BeginScan(types)
  PROVE  SyncInv'
<1>1. PICK owed : owed = IdsOf({r \in TaskRows : syncTasks[r].type \in types})
  OBVIOUS
<1>2. owed \in SUBSET TaskIds
  BY <1>1 DEF IdsOf, SyncInv, SyncTyped, TaskRecord, TaskRows, TaskIds
<1>3. /\ scan' = [state |-> "on", types |-> types, last |-> 0, given |-> <<>>, owed |-> owed]
      /\ UNCHANGED <<syncTasks, tasksSaved, started>>
  BY <1>1 DEF BeginScan
<1>4. scan' \in ScanRecord
  BY <1>2, <1>3, SyncTasksAssumption DEF ScanRecord
<1>5. SyncTyped' /\ IdsApart' /\ StartsCounted'
  BY <1>3, <1>4 DEF SyncInv, SyncTyped, IdsApart, StartsCounted, TaskRows
<1>6. GivenOnce'
  BY <1>3 DEF GivenOnce
<1>7. OwedAhead'
  <2>1. ASSUME NEW i \in owed
        PROVE  \E r \in TaskRows : syncTasks[r].id = i /\ r > 0 /\ syncTasks[r].type \in types
    BY <1>1 DEF IdsOf, TaskRows
  <2>2. TaskRows' = TaskRows
    BY <1>3 DEF TaskRows
  <2>3. QED  BY <1>3, <2>1, <2>2 DEF OwedAhead
<1>8. QED  BY <1>5, <1>6, <1>7 DEF SyncInv

\* A scan that goes with its page owes nothing.
LEMMA ScanCrashKeeps ==
  ASSUME SyncInv, ScanCrash
  PROVE  SyncInv'
<1>1. NoScan \in ScanRecord /\ NoScan.given = <<>> /\ NoScan.owed = {}
  BY SyncTasksAssumption DEF NoScan, ScanRecord
<1>2. scan' = NoScan /\ UNCHANGED <<syncTasks, tasksSaved, started>>
  BY DEF ScanCrash
<1>3. SyncTyped' /\ IdsApart' /\ StartsCounted'
  BY <1>1, <1>2 DEF SyncInv, SyncTyped, IdsApart, StartsCounted, TaskRows
<1>4. GivenOnce' /\ OwedAhead'
  BY <1>1, <1>2 DEF GivenOnce, OwedAhead
<1>5. QED  BY <1>3, <1>4 DEF SyncInv

Moved(x, state, last, gone, ids) ==
  [x EXCEPT !.state = state, !.last = last, !.owed = @ \ gone, !.given = @ \o ids]

\* A scan that moves on.
LEMMA ScanMoves ==
  ASSUME NEW x \in ScanRecord, NEW state \in {"on", "over"}, NEW last \in 0..MaxTasks, NEW gone,
         NEW ids \in Seq(TaskIds), NEW y, y = Moved(x, state, last, gone, ids)
  PROVE  /\ y \in ScanRecord /\ y.state = state /\ y.types = x.types /\ y.last = last
         /\ y.given = x.given \o ids /\ y.owed = x.owed \ gone
<1>1. PICK owed \in SUBSET TaskIds : owed = x.owed \ gone
  BY DEF ScanRecord
<1>2. PICK given \in Seq(TaskIds) : given = x.given \o ids
  <2>1. x.given \in Seq(TaskIds)
    BY DEF ScanRecord
  <2>2. x.given \o ids \in Seq(TaskIds)
    BY <2>1
  <2>3. QED  BY <2>2
<1>3. y = [x EXCEPT !.state = state, !.last = last, !.owed = owed, !.given = given]
  BY <1>1, <1>2 DEF Moved
<1>4. y \in ScanRecord
  BY <1>3 DEF ScanRecord
<1>5. y.state = state /\ y.types = x.types /\ y.last = last /\ y.given = given /\ y.owed = owed
  BY <1>3 DEF ScanRecord
<1>6. QED  BY <1>1, <1>2, <1>4, <1>5

\* A row with fewer than a page before it is on the page, so are those before it.
LEMMA PageIsFirst ==
  ASSUME NEW left \in SUBSET (1..MaxTasks)
  PROVE  /\ left # {} => \E r \in left : InPage(r, left)
         /\ \A q, r \in left : q < r /\ InPage(r, left) => InPage(q, left)
<1>1. PageSize \in Nat /\ PageSize > 0
  BY SyncTasksAssumption
<1>2. /\ Cardinality(left) \in Nat
      /\ \A r \in left : Before(r, left) \in 0..Cardinality(left) - 1
      /\ \A q, r \in left : q < r => Before(q, left) < Before(r, left)
  BY RankOfRow
<1>3. ASSUME left # {} PROVE \E r \in left : InPage(r, left)
  <2>1. left \in SUBSET Nat
    OBVIOUS
  <2>2. PICK m \in left : \A r \in left : m <= r
    BY <1>3, <2>1, NatLeast
  <2>3. \A q \in left : ~(q < m)
    BY <2>1, <2>2
  <2>4. {q \in left : q < m} = {}
    BY <2>3
  <2>5. Before(m, left) = 0
    BY <2>4, FS_EmptySet DEF Before
  <2>6. QED  BY <1>1, <2>5 DEF InPage
<1>4. ASSUME NEW q \in left, NEW r \in left, q < r, InPage(r, left) PROVE InPage(q, left)
  BY <1>1, <1>2, <1>4 DEF InPage
<1>5. QED  BY <1>3, <1>4

\* A page is given: its tasks are new to the scan, and none of those left is passed over.
LEMMA DequeueKeeps ==
  ASSUME SyncInv, NEW expired \in SUBSET (1..MaxTasks), dequeueOldestSyncTasks(expired)
  PROVE  SyncInv'
<1>1. PICK left : left = {r \in TaskRows \ expired : r > scan.last /\ syncTasks[r].type \in scan.types}
  OBVIOUS
<1>2. PICK page : page = {r \in left : InPage(r, left)}
  OBVIOUS
<1>3. PICK order : order = InRowOrder(page)
  OBVIOUS
<1>4. PICK gone : gone = IdsOf(page \cup expired)
  OBVIOUS
<1>5. PICK ids : ids = [k \in DOMAIN order |-> syncTasks[order[k]].id]
  OBVIOUS
<1>6. PICK state \in {"on", "over"} : state = IF page = {} THEN "over" ELSE "on"
  OBVIOUS
<1>7. /\ scan.state = "on" /\ UNCHANGED tasksSaved /\ expired \subseteq TaskRows
      /\ syncTasks' = [r \in 1..MaxTasks |->
                         IF r \in expired THEN NoTask
                         ELSE IF r \in page THEN [syncTasks[r] EXCEPT !.attempts = More(@)]
                         ELSE syncTasks[r]]
      /\ scan' = [scan EXCEPT !.state = state, !.last = IF page = {} THEN @ ELSE Max(page),
                              !.owed = @ \ gone, !.given = @ \o ids]
      /\ started' = [i \in TaskIds |-> IF i \in IdsOf(page) THEN More(started[i]) ELSE started[i]]
  BY <1>1, <1>2, <1>3, <1>4, <1>5, <1>6 DEF dequeueOldestSyncTasks
<1>8. /\ left \in SUBSET TaskRows /\ page \in SUBSET left /\ TaskRows \in SUBSET (1..MaxTasks)
      /\ page \cap expired = {} /\ page \in SUBSET (1..MaxTasks) /\ left \in SUBSET (1..MaxTasks)
  BY <1>1, <1>2 DEF TaskRows
<1>9. /\ tasksSaved \in 0..MaxTasks /\ MaxTasks \in Nat /\ scan \in ScanRecord /\ scan.last \in 0..MaxTasks
      /\ scan.given \in Seq(TaskIds) /\ started \in [TaskIds -> 0..MaxTaskAttempts]
  BY SyncTasksAssumption DEF SyncInv, SyncTyped, ScanRecord
<1>10. ASSUME NEW r \in TaskRows
       PROVE  /\ syncTasks[r] \in TaskRecord /\ syncTasks[r].id \in TaskIds /\ syncTasks[r].id <= tasksSaved
              /\ syncTasks[r].attempts \in 0..MaxTaskAttempts
  BY DEF SyncInv, SyncTyped, IdsApart, TaskRows, TaskRecord, TaskIds
<1>11. PICK n \in Nat : /\ order \in [1..n -> page]
                        /\ \A i, j \in 1..n : i < j => order[i] # order[j]
  BY <1>3, <1>8, RowOrder
<1>12. /\ ids \in [1..n -> TaskIds]
       /\ \A k \in 1..n : order[k] \in page /\ ids[k] = syncTasks[order[k]].id
  <2>1. \A k \in 1..n : order[k] \in page /\ syncTasks[order[k]].id \in TaskIds
    BY <1>8, <1>10, <1>11
  <2>2. QED  BY <1>5, <1>11, <2>1
<1>13. PICK last \in 0..MaxTasks :
         /\ last = IF page = {} THEN scan.last ELSE Max(page)
         /\ last >= scan.last /\ \A r \in page : r <= last
         /\ page # {} => last \in page
  <2>1. CASE page = {}
    BY <1>9, <2>1
  <2>2. CASE page # {}
    <3>1. Max(page) \in page /\ \A r \in page : r <= Max(page)
      BY <1>8, <2>2, GreatestRow
    <3>2. Max(page) > scan.last /\ Max(page) \in 1..MaxTasks
      BY <1>1, <1>8, <3>1
    <3>3. QED  BY <1>9, <2>2, <3>1, <3>2
  <2>3. QED  BY <2>1, <2>2
<1>14. /\ scan' \in ScanRecord /\ scan'.state = state /\ scan'.types = scan.types /\ scan'.last = last
       /\ scan'.given = scan.given \o ids /\ scan'.owed = scan.owed \ gone
  <2>1. scan' = Moved(scan, state, last, gone, ids)
    BY <1>7, <1>13 DEF Moved
  <2>2. PICK x \in ScanRecord : x = scan
    BY <1>9
  <2>3. scan' = Moved(x, state, last, gone, ids)
    BY <2>1, <2>2
  <2>4. ids \in Seq(TaskIds)
    BY <1>12
  <2>5. PICK y : y = scan'
    OBVIOUS
  <2>6. /\ y \in ScanRecord /\ y.state = state /\ y.types = x.types /\ y.last = last
        /\ y.given = x.given \o ids /\ y.owed = x.owed \ gone
    BY <2>3, <2>4, <2>5, ScanMoves
  <2>7. QED  BY <2>2, <2>5, <2>6
<1>15. ASSUME NEW r \in 1..MaxTasks
       PROVE  /\ syncTasks'[r] \in TaskRecord
              /\ r \in expired => syncTasks'[r].id = 0
              /\ r \notin expired => /\ syncTasks'[r].id = syncTasks[r].id /\ syncTasks'[r].type = syncTasks[r].type
              /\ r \in page => syncTasks'[r].attempts = More(syncTasks[r].attempts)
              /\ r \notin page \cup expired => syncTasks'[r].attempts = syncTasks[r].attempts
  <2>1. PICK row \in TaskRecord : row = syncTasks[r]
    BY DEF SyncInv, SyncTyped
  <2>2. PICK a \in 0..MaxTaskAttempts : a = More(row.attempts)
    BY <2>1, MoreAttempts DEF TaskRecord
  <2>3. CASE r \in expired
    <3>1. NoTask \in TaskRecord /\ NoTask.id = 0
      BY SyncTasksAssumption DEF NoTask, TaskRecord
    <3>2. QED  BY <1>7, <1>8, <2>3, <3>1
  <2>4. CASE r \in page
    <3>1. syncTasks'[r] = [row EXCEPT !.attempts = a]
      BY <1>7, <1>8, <2>1, <2>2, <2>4
    <3>2. syncTasks'[r] \in TaskRecord
      BY <2>1, <3>1 DEF TaskRecord
    <3>3. syncTasks'[r].id = row.id /\ syncTasks'[r].type = row.type /\ syncTasks'[r].attempts = a
      BY <2>1, <3>1 DEF TaskRecord
    <3>4. QED  BY <1>8, <2>1, <2>2, <2>4, <3>2, <3>3
  <2>5. CASE r \notin page \cup expired
    BY <1>7, <2>1, <2>5
  <2>6. QED  BY <2>3, <2>4, <2>5
<1>16. ASSUME NEW r \in TaskRows' PROVE r \in TaskRows /\ r \notin expired
  BY <1>15 DEF TaskRows
<1>17. ASSUME NEW r \in TaskRows \ expired PROVE r \in TaskRows'
  BY <1>15 DEF TaskRows
<1>18. ASSUME NEW r \in TaskRows, syncTasks[r].id \in IdsOf(page) PROVE r \in page
  BY <1>8, <1>18 DEF IdsOf, SyncInv, IdsApart
<1>19. \A r \in page : syncTasks[r].id \in IdsOf(page)
  BY DEF IdsOf
<1>20. SyncTyped'
  <2>1. syncTasks' \in [1..MaxTasks -> TaskRecord]
    BY <1>7, <1>15
  <2>2. \A i \in TaskIds : More(started[i]) \in 0..MaxTaskAttempts
    BY <1>9, MoreAttempts
  <2>3. started' \in [TaskIds -> 0..MaxTaskAttempts]
    BY <1>7, <1>9, <2>2
  <2>4. QED  BY <1>7, <1>9, <1>14, <2>1, <2>3 DEF SyncTyped
<1>21. IdsApart'
  <2>1. \A r \in TaskRows' : r \in TaskRows /\ syncTasks'[r].id = syncTasks[r].id
    BY <1>8, <1>15, <1>16
  <2>2. ASSUME NEW r \in TaskRows' PROVE syncTasks'[r].id <= tasksSaved'
    BY <1>7, <1>10, <2>1
  <2>3. ASSUME NEW q \in TaskRows', NEW r \in TaskRows', syncTasks'[q].id = syncTasks'[r].id PROVE q = r
    BY <2>1, <2>3 DEF SyncInv, IdsApart
  <2>4. QED  BY <2>2, <2>3 DEF IdsApart
<1>22. StartsCounted'
  <2>1. ASSUME NEW i \in TaskIds, i > tasksSaved' PROVE started'[i] = 0
    <3>1. i \notin IdsOf(page)
      BY <1>7, <1>8, <1>9, <1>10, <2>1 DEF IdsOf, TaskIds
    <3>2. QED  BY <1>7, <2>1, <3>1 DEF SyncInv, StartsCounted
  <2>2. ASSUME NEW r \in TaskRows' PROVE started'[syncTasks'[r].id] <= syncTasks'[r].attempts
    <3>1. r \in TaskRows /\ r \notin expired /\ r \in 1..MaxTasks
      BY <1>8, <1>16
    <3>2. PICK i \in TaskIds : i = syncTasks[r].id /\ i = syncTasks'[r].id
      BY <1>10, <1>15, <3>1
    <3>3. PICK a \in 0..MaxTaskAttempts : a = syncTasks[r].attempts
      BY <1>10, <3>1
    <3>4. PICK b \in 0..MaxTaskAttempts : b = started[i] /\ b <= a
      BY <1>9, <3>1, <3>2, <3>3 DEF SyncInv, StartsCounted
    <3>5. CASE r \in page
      <4>1. started'[i] = More(b) /\ syncTasks'[r].attempts = More(a)
        BY <1>7, <1>15, <1>19, <3>1, <3>2, <3>3, <3>4, <3>5
      <4>2. More(b) <= More(a)
        BY <3>4, MoreAttempts
      <4>3. QED  BY <3>2, <4>1, <4>2
    <3>6. CASE r \notin page
      <4>1. started'[i] = b /\ syncTasks'[r].attempts = a
        BY <1>7, <1>15, <1>18, <3>1, <3>2, <3>3, <3>4, <3>6
      <4>2. QED  BY <3>2, <3>4, <4>1
    <3>7. QED  BY <3>5, <3>6
  <2>3. QED  BY <2>1, <2>2 DEF StartsCounted
<1>23. PICK m \in Nat :
         /\ DOMAIN scan.given = 1..m /\ DOMAIN scan'.given = 1..m + n
         /\ \A k \in 1..m : scan'.given[k] = scan.given[k]
         /\ \A k \in m + 1..m + n : scan'.given[k] = ids[k - m] /\ k - m \in 1..n
  <2>1. PICK given \in Seq(TaskIds) : given = scan.given
    BY <1>9
  <2>2. PICK m \in Nat : m = Len(given)
    OBVIOUS
  <2>3. /\ DOMAIN given = 1..m /\ DOMAIN (given \o ids) = 1..m + n
        /\ \A k \in 1..m : (given \o ids)[k] = given[k]
        /\ \A k \in m + 1..m + n : (given \o ids)[k] = ids[k - m] /\ k - m \in 1..n
    BY <1>12, <2>2, IdsGiven
  <2>4. scan'.given = given \o ids
    BY <1>14, <2>1
  <2>5. QED  BY <2>1, <2>3, <2>4
<1>24. \A k \in m + 1..m + n : \E p \in page : p = order[k - m] /\ scan'.given[k] = syncTasks[p].id
  BY <1>12, <1>23
<1>25. \A k \in 1..m + n : k \in 1..m \/ k \in m + 1..m + n
  OBVIOUS
<1>26. GivenOnce'
  <2>1. ASSUME NEW i \in 1..m + n, NEW j \in 1..m + n, i < j
        PROVE  scan'.given[i] # scan'.given[j]
    <3>1. CASE i \in 1..m /\ j \in 1..m
      BY <1>23, <2>1, <3>1 DEF SyncInv, GivenOnce
    <3>2. CASE i \in 1..m /\ j \in m + 1..m + n
      <4>1. PICK p \in page : scan'.given[j] = syncTasks[p].id
        BY <1>24, <3>2
      <4>2. p \in TaskRows /\ p \in Int /\ scan.last \in Int /\ p > scan.last
        BY <1>1, <1>8, <1>9
      <4>3. ~(p <= scan.last)
        BY <4>2
      <4>4. syncTasks[p].id # scan.given[i]
        BY <1>23, <3>2, <4>2, <4>3 DEF SyncInv, GivenOnce
      <4>5. QED  BY <1>23, <3>2, <4>1, <4>4
    <3>3. CASE i \in m + 1..m + n /\ j \in m + 1..m + n
      <4>1. PICK a \in 1..n, b \in 1..n : a = i - m /\ b = j - m /\ a < b
        BY <1>23, <2>1, <3>3
      <4>2. order[a] \in page /\ order[b] \in page /\ order[a] # order[b]
        BY <1>11, <4>1
      <4>3. syncTasks[order[a]].id # syncTasks[order[b]].id
        BY <1>8, <4>2 DEF SyncInv, IdsApart
      <4>4. QED  BY <1>12, <1>23, <3>3, <4>1, <4>3
    <3>4. CASE i \in m + 1..m + n /\ j \in 1..m
      BY <2>1, <3>4
    <3>5. QED  BY <1>25, <3>1, <3>2, <3>3, <3>4
  <2>2. ASSUME NEW k \in 1..m + n PROVE scan'.given[k] <= tasksSaved'
    <3>1. CASE k \in 1..m
      BY <1>7, <1>23, <3>1 DEF SyncInv, GivenOnce
    <3>2. CASE k \in m + 1..m + n
      BY <1>7, <1>8, <1>10, <1>24, <3>2
    <3>3. QED  BY <1>25, <3>1, <3>2
  <2>3. ASSUME NEW r \in TaskRows', NEW k \in 1..m + n, syncTasks'[r].id = scan'.given[k]
        PROVE  r <= scan'.last
    <3>1. r \in TaskRows /\ r \in 1..MaxTasks /\ syncTasks[r].id = scan'.given[k]
      BY <1>8, <1>15, <1>16, <2>3
    <3>2. CASE k \in 1..m
      <4>1. r <= scan.last
        BY <1>23, <3>1, <3>2 DEF SyncInv, GivenOnce
      <4>2. QED  BY <1>9, <1>13, <1>14, <3>1, <4>1
    <3>3. CASE k \in m + 1..m + n
      <4>1. PICK p \in page : syncTasks[r].id = syncTasks[p].id
        BY <1>24, <3>1, <3>3
      <4>2. r = p
        BY <1>8, <3>1, <4>1 DEF SyncInv, IdsApart
      <4>3. QED  BY <1>13, <1>14, <4>2
    <3>4. QED  BY <1>25, <3>2, <3>3
  <2>4. QED  BY <1>23, <2>1, <2>2, <2>3 DEF GivenOnce
<1>27. OwedAhead'
  <2>1. SUFFICES ASSUME NEW i \in scan'.owed
                 PROVE  /\ scan'.state = "on"
                        /\ \E r \in TaskRows' : syncTasks'[r].id = i /\ r > scan'.last
                                              /\ syncTasks'[r].type \in scan'.types
    BY DEF OwedAhead
  <2>2. i \in scan.owed /\ i \notin gone
    BY <1>14, <2>1
  <2>3. PICK r \in TaskRows : syncTasks[r].id = i /\ r > scan.last /\ syncTasks[r].type \in scan.types
    BY <2>2 DEF SyncInv, OwedAhead
  <2>4. r \notin page /\ r \notin expired
    BY <1>4, <2>2, <2>3 DEF IdsOf
  <2>5. r \in left /\ ~InPage(r, left)
    BY <1>1, <1>2, <2>3, <2>4
  <2>6. page # {}
    <3>1. \E q \in left : InPage(q, left)
      BY <1>8, <2>5, PageIsFirst
    <3>2. QED  BY <1>2, <3>1
  <2>7. last \in page /\ last \in left /\ InPage(last, left)
    BY <1>2, <1>13, <2>6
  <2>8. ~(r < last) /\ r # last
    BY <1>8, <2>4, <2>5, <2>7, PageIsFirst
  <2>9. r > last
    BY <1>8, <2>7, <2>8
  <2>10. r \in TaskRows' /\ syncTasks'[r].id = i /\ syncTasks'[r].type \in scan.types
    BY <1>8, <1>15, <1>17, <2>3, <2>4
  <2>11. QED  BY <1>6, <1>14, <2>6, <2>9, <2>10
<1>28. QED  BY <1>20, <1>21, <1>22, <1>26, <1>27 DEF SyncInv

\* Every step keeps the invariant of the scan.
LEMMA SyncStep ==
  ASSUME SyncInv, [SyncNext]_syncVars
  PROVE  SyncInv'
<1>1. CASE UNCHANGED syncVars
  BY <1>1 DEF syncVars, SyncInv, SyncTyped, IdsApart, StartsCounted, GivenOnce, OwedAhead, TaskRows
<1>2. CASE SyncNext
  BY <1>2, SaveTasksKeeps, RemoveTaskKeeps, IncrementAllKeeps, BeginScanKeeps, DequeueKeeps, ScanCrashKeeps
  DEF SyncNext
<1>3. QED  BY <1>1, <1>2

(* A scan misses no task and gives none twice, for any number of tasks, any *)
(* types and any size of page, whatever is saved, removed and expires        *)
(* between two pages (sql.js 4496-4540).                                    *)
THEOREM ScansMissNone == SyncSpec => []ScanMissesNone
<1>1. SyncInv => ScanMissesNone
  BY DEF SyncInv, StartsCounted, GivenOnce, OwedAhead, ScanMissesNone
<1>2. SyncInit => SyncInv
  BY SyncStart
<1>3. SyncInv /\ [SyncNext]_syncVars => SyncInv'
  BY SyncStep
<1>4. QED  BY <1>1, <1>2, <1>3, PTL DEF SyncSpec

(***************************************************************************)
(* The progress of a backup import stays the size of what is left, for any  *)
(* messages and sizes. The sum of the sizes is a number of bytes (BytesOf), *)
(* so a job that comes, changes or goes takes a part of a disjoint union.   *)
(***************************************************************************)

\* The sizes of the rows, and which of them count, are what the statistics know.
JobsTyped ==
  /\ jobs = [m \in DOMAIN jobs |-> jobs[m]]
  /\ \A m \in DOMAIN jobs : jobs[m] \in Row
  /\ stats \in [totalBytes : Nat, completedBytes : Nat]
  /\ resetEarly \in BOOLEAN
  /\ IsFiniteSet(BytesOf(jobs, DOMAIN jobs))
JobsInv == JobsTyped /\ StatsMatchRows

\* One job has as many bytes as its size.
LEMMA BytesOfJob ==
  ASSUME NEW table, NEW m, table[m].size \in Nat
  PROVE  IsFiniteSet(BytesOf(table, {m})) /\ Cardinality(BytesOf(table, {m})) = table[m].size
<1>1. PICK n \in Nat : n = table[m].size
  OBVIOUS
<1>2. BytesOf(table, {m}) = {m} \X (1..n)
  BY <1>1 DEF BytesOf
<1>3. IsFiniteSet({m}) /\ Cardinality({m}) = 1
  BY FS_Singleton
<1>4. IsFiniteSet(1..n) /\ Cardinality(1..n) = n
  BY FS_Interval
<1>5. IsFiniteSet({m} \X (1..n)) /\ Cardinality({m} \X (1..n)) = 1 * n
  BY <1>3, <1>4, FS_Product
<1>6. 1 * n = n
  OBVIOUS
<1>7. Cardinality({m} \X (1..n)) = n
  BY <1>5, <1>6
<1>8. QED  BY <1>1, <1>2, <1>5, <1>7

\* The bytes of two sets of jobs are those of the one and of the other.
LEMMA BytesTogether ==
  ASSUME NEW table, NEW S, NEW T, S \cap T = {},
         IsFiniteSet(BytesOf(table, S)), IsFiniteSet(BytesOf(table, T))
  PROVE  /\ IsFiniteSet(BytesOf(table, S \cup T))
         /\ Cardinality(BytesOf(table, S \cup T)) =
              Cardinality(BytesOf(table, S)) + Cardinality(BytesOf(table, T))
<1>1. BytesOf(table, S \cup T) = BytesOf(table, S) \cup BytesOf(table, T)
  BY DEF BytesOf
<1>2. BytesOf(table, S) \cap BytesOf(table, T) = {}
  BY DEF BytesOf
<1>3. Cardinality(BytesOf(table, S)) \in Nat /\ Cardinality(BytesOf(table, T)) \in Nat
  BY FS_CardinalityType
<1>4. Cardinality({}) = 0
  BY FS_EmptySet
<1>5. /\ IsFiniteSet(BytesOf(table, S) \cup BytesOf(table, T))
      /\ Cardinality(BytesOf(table, S) \cup BytesOf(table, T)) =
           Cardinality(BytesOf(table, S)) + Cardinality(BytesOf(table, T))
             - Cardinality(BytesOf(table, S) \cap BytesOf(table, T))
  BY FS_Union
<1>6. PICK a \in Nat, b \in Nat : a = Cardinality(BytesOf(table, S)) /\ b = Cardinality(BytesOf(table, T))
  BY <1>3
<1>7. Cardinality(BytesOf(table, S) \cup BytesOf(table, T)) = a + b - 0
  BY <1>2, <1>4, <1>5, <1>6
<1>8. a + b - 0 = a + b
  OBVIOUS
<1>9. QED  BY <1>1, <1>5, <1>6, <1>7, <1>8

\* Fewer jobs have fewer bytes.
LEMMA BytesOfFewer ==
  ASSUME NEW table, NEW S, NEW T \in SUBSET S, IsFiniteSet(BytesOf(table, S))
  PROVE  /\ IsFiniteSet(BytesOf(table, T))
         /\ Cardinality(BytesOf(table, T)) \in Nat
<1>1. BytesOf(table, T) \subseteq BytesOf(table, S)
  BY DEF BytesOf
<1>2. QED  BY <1>1, FS_Subset, FS_CardinalityType

\* Only the sizes count.
LEMMA BytesBySize ==
  ASSUME NEW table, NEW new, NEW S, \A m \in S : new[m].size = table[m].size
  PROVE  BytesOf(new, S) = BytesOf(table, S)
BY DEF BytesOf

\* Jobs go, with a message or without: what they had left is completed.
LEMMA DeleteMatches ==
  ASSUME JobsInv, NEW gone \in SUBSET DOMAIN jobs, Delete(gone), resetEarly' = resetEarly,
         DOMAIN jobs \ gone \subseteq jobMessages'
  PROVE  JobsInv'
<1>1. PICK new : new = jobs' /\ new = [m \in DOMAIN jobs \ gone |-> jobs[m]]
  BY DEF Delete
<1>2. DOMAIN new = DOMAIN jobs \ gone /\ \A m \in DOMAIN new : new[m] = jobs[m]
  BY <1>1
<1>3. PICK all, back, left, went :
        /\ all = DOMAIN jobs /\ back = Backups(jobs)
        /\ left = Backups(new) /\ went = Backups(jobs) \cap gone
  OBVIOUS
<1>4. /\ back \subseteq all /\ left \subseteq all /\ went \subseteq all
      /\ left \cap went = {} /\ back = left \cup went
  BY <1>2, <1>3 DEF Backups
<1>5. IsFiniteSet(BytesOf(jobs, all))
  BY <1>3 DEF JobsInv, JobsTyped
<1>6. /\ IsFiniteSet(BytesOf(jobs, left)) /\ Cardinality(BytesOf(jobs, left)) \in Nat
      /\ IsFiniteSet(BytesOf(jobs, went)) /\ Cardinality(BytesOf(jobs, went)) \in Nat
      /\ IsFiniteSet(BytesOf(jobs, all \ gone))
  BY <1>4, <1>5, BytesOfFewer
<1>7. Cardinality(BytesOf(jobs, back)) =
        Cardinality(BytesOf(jobs, left)) + Cardinality(BytesOf(jobs, went))
  BY <1>4, <1>6, BytesTogether
<1>8. BytesOf(new, left) = BytesOf(jobs, left)
  BY <1>2, <1>3, BytesBySize DEF Backups
<1>9. BytesOf(new, DOMAIN new) = BytesOf(jobs, all \ gone)
  BY <1>2, <1>3, BytesBySize
<1>10. PICK t \in Nat, c \in Nat, w \in Nat :
         /\ t = stats.totalBytes /\ c = stats.completedBytes /\ w = Cardinality(BytesOf(jobs, went))
         /\ stats' \in [totalBytes : Nat, completedBytes : Nat]
         /\ stats'.totalBytes = t /\ stats'.completedBytes = c + w
  <2>1. stats' = [stats EXCEPT !.completedBytes = @ + Cardinality(BytesOf(jobs, went))]
    BY <1>3 DEF Delete, JobsDeleted
  <2>2. stats \in [totalBytes : Nat, completedBytes : Nat]
    BY DEF JobsInv, JobsTyped
  <2>3. QED  BY <1>6, <2>1, <2>2
<1>11. JobsTyped'
  <2>1. new = [m \in DOMAIN new |-> new[m]] /\ \A m \in DOMAIN new : new[m] \in Row
    BY <1>1, <1>2 DEF JobsInv, JobsTyped
  <2>2. IsFiniteSet(BytesOf(new, DOMAIN new))
    BY <1>6, <1>9
  <2>3. QED  BY <1>1, <1>10, <2>1, <2>2 DEF JobsInv, JobsTyped
<1>12. StatsMatchRows'
  <2>1. DOMAIN new \subseteq jobMessages'
    BY <1>2
  <2>2. ASSUME ~resetEarly PROVE (t - c) - w = Cardinality(BytesOf(new, left))
    <3>1. t - c = Cardinality(BytesOf(jobs, back))
      BY <1>3, <1>10, <2>2 DEF JobsInv, StatsMatchRows
    <3>2. QED  BY <1>6, <1>7, <1>8, <1>10, <3>1
  <2>3. ~resetEarly => t - (c + w) = Cardinality(BytesOf(new, left))
    BY <1>10, <2>2
  <2>4. QED  BY <1>1, <1>3, <1>10, <2>1, <2>3 DEF StatsMatchRows
<1>13. QED  BY <1>11, <1>12 DEF JobsInv

\* Fields of rows change that the statistics do not know, and what else there is.
LEMMA SameSizes ==
  ASSUME JobsInv, jobs' = [m \in DOMAIN jobs' |-> jobs'[m]], DOMAIN jobs' = DOMAIN jobs,
         \A m \in DOMAIN jobs : /\ jobs'[m] \in Row /\ jobs'[m].size = jobs[m].size
                               /\ jobs'[m].originalSource = jobs[m].originalSource,
         stats' = stats, resetEarly' = resetEarly, DOMAIN jobs \subseteq jobMessages'
  PROVE  JobsInv'
<1>1. PICK new : new = jobs' /\ DOMAIN new = DOMAIN jobs
  OBVIOUS
<1>2. Backups(new) = Backups(jobs)
  BY <1>1 DEF Backups, Backup
<1>3. /\ BytesOf(new, Backups(jobs)) = BytesOf(jobs, Backups(jobs))
      /\ BytesOf(new, DOMAIN jobs) = BytesOf(jobs, DOMAIN jobs)
  BY <1>1, BytesBySize DEF Backups
<1>4. QED  BY <1>1, <1>2, <1>3 DEF JobsInv, JobsTyped, StatsMatchRows

\* A row that is written, whether it was there or not, adds to what the others leave.
LEMMA WrittenRow ==
  ASSUME JobsInv, NEW m, NEW row \in Row, NEW new, DOMAIN new = DOMAIN jobs \cup {m}, new[m] = row,
         \A k \in DOMAIN jobs \ {m} : new[k] = jobs[k]
  PROVE  LET rest == Backups(jobs) \ {m} IN
         /\ IsFiniteSet(BytesOf(new, DOMAIN new))
         /\ Cardinality(BytesOf(jobs, rest)) \in Nat
         /\ Backup(row) => Cardinality(BytesOf(new, Backups(new))) = Cardinality(BytesOf(jobs, rest)) + row.size
         /\ ~Backup(row) => Cardinality(BytesOf(new, Backups(new))) = Cardinality(BytesOf(jobs, rest))
<1>1. PICK all, rest, others :
        all = DOMAIN jobs /\ rest = Backups(jobs) \ {m} /\ others = DOMAIN jobs \ {m}
  OBVIOUS
<1>2. rest \subseteq others /\ others \subseteq all
  BY <1>1 DEF Backups
<1>3. IsFiniteSet(BytesOf(jobs, all))
  BY <1>1 DEF JobsInv, JobsTyped
<1>4. IsFiniteSet(BytesOf(jobs, others)) /\ IsFiniteSet(BytesOf(jobs, rest)) /\ Cardinality(BytesOf(jobs, rest)) \in Nat
  BY <1>2, <1>3, BytesOfFewer
<1>5. BytesOf(new, others) = BytesOf(jobs, others) /\ BytesOf(new, rest) = BytesOf(jobs, rest)
  BY <1>1, <1>2, BytesBySize
<1>6. row.size \in Nat
  BY JobAssumption DEF Row
<1>7. IsFiniteSet(BytesOf(new, {m})) /\ Cardinality(BytesOf(new, {m})) = row.size
  BY <1>6, BytesOfJob
<1>8. others \cap {m} = {} /\ DOMAIN new = others \cup {m} /\ rest \cap {m} = {}
  BY <1>1
<1>9. IsFiniteSet(BytesOf(new, others \cup {m}))
  BY <1>4, <1>5, <1>7, <1>8, BytesTogether
<1>10. Cardinality(BytesOf(new, rest \cup {m})) = Cardinality(BytesOf(jobs, rest)) + row.size
  BY <1>4, <1>5, <1>7, <1>8, BytesTogether
<1>11. /\ Backup(row) => Backups(new) = rest \cup {m}
       /\ ~Backup(row) => Backups(new) = rest
  BY <1>1, <1>8 DEF Backups
<1>12. QED  BY <1>1, <1>4, <1>5, <1>8, <1>9, <1>10, <1>11

\* A job that is new adds its size to the total.
LEMMA InsertMatches ==
  ASSUME JobsInv, NEW m \in jobMessages, NEW row \in Row, m \notin DOMAIN jobs,
         jobs' = [k \in DOMAIN jobs \cup {m} |-> IF k = m THEN row ELSE jobs[k]],
         stats' = JobInserted(row), resetEarly' = resetEarly, jobMessages' = jobMessages
  PROVE  JobsInv'
<1>1. PICK new : new = jobs' /\ new = [k \in DOMAIN jobs \cup {m} |-> IF k = m THEN row ELSE jobs[k]]
  OBVIOUS
<1>2. DOMAIN new = DOMAIN jobs \cup {m} /\ new[m] = row /\ \A k \in DOMAIN jobs \ {m} : new[k] = jobs[k]
  BY <1>1
<1>3. Backups(jobs) \ {m} = Backups(jobs)
  BY DEF Backups
<1>4. PICK n \in Nat, t \in Nat, c \in Nat, s \in Nat :
         /\ n = Cardinality(BytesOf(jobs, Backups(jobs))) /\ s = row.size
         /\ t = stats.totalBytes /\ c = stats.completedBytes
  <2>1. Cardinality(BytesOf(jobs, Backups(jobs) \ {m})) \in Nat
    BY <1>2, WrittenRow
  <2>2. Cardinality(BytesOf(jobs, Backups(jobs))) \in Nat
    BY <1>3, <2>1
  <2>3. row.size \in Nat
    BY JobAssumption DEF Row
  <2>4. stats.totalBytes \in Nat /\ stats.completedBytes \in Nat
    BY DEF JobsInv, JobsTyped
  <2>5. QED  BY <2>2, <2>3, <2>4
<1>5. /\ IsFiniteSet(BytesOf(new, DOMAIN new))
      /\ Backup(row) => Cardinality(BytesOf(new, Backups(new))) = n + s
      /\ ~Backup(row) => Cardinality(BytesOf(new, Backups(new))) = n
  <2>1. PICK rest : rest = Backups(jobs) \ {m} /\ Cardinality(BytesOf(jobs, rest)) = n
    BY <1>3, <1>4
  <2>2. /\ IsFiniteSet(BytesOf(new, DOMAIN new))
        /\ Backup(row) => Cardinality(BytesOf(new, Backups(new))) = Cardinality(BytesOf(jobs, rest)) + row.size
        /\ ~Backup(row) => Cardinality(BytesOf(new, Backups(new))) = Cardinality(BytesOf(jobs, rest))
    BY <1>2, <2>1, WrittenRow
  <2>3. QED  BY <1>4, <2>1, <2>2
<1>6. /\ stats' \in [totalBytes : Nat, completedBytes : Nat] /\ stats'.completedBytes = c
      /\ Backup(row) => stats'.totalBytes = t + s
      /\ ~Backup(row) => stats'.totalBytes = t
  BY <1>4 DEF JobInserted, JobsInv, JobsTyped
<1>7. JobsTyped'
  BY <1>1, <1>2, <1>5, <1>6 DEF JobsInv, JobsTyped
<1>8. ~resetEarly => t - c = n
  BY <1>4 DEF JobsInv, StatsMatchRows
<1>9. StatsMatchRows'
  <2>1. ~resetEarly => stats'.totalBytes - stats'.completedBytes = Cardinality(BytesOf(new, Backups(new)))
    BY <1>4, <1>5, <1>6, <1>8
  <2>2. DOMAIN new \subseteq jobMessages
    BY <1>2 DEF JobsInv, StatsMatchRows
  <2>3. QED  BY <1>1, <2>1, <2>2 DEF StatsMatchRows
<1>10. QED  BY <1>7, <1>9 DEF JobsInv

\* A job that is saved again changes the total by what its size changes.
LEMMA UpdateMatches ==
  ASSUME JobsInv, NEW m \in DOMAIN jobs, NEW row \in Row, row.originalSource = jobs[m].originalSource,
         jobs' = [jobs EXCEPT ![m] = row],
         stats' = JobUpdated(jobs[m], row), resetEarly' = resetEarly, jobMessages' = jobMessages
  PROVE  JobsInv'
<1>1. PICK old \in Row : old = jobs[m]
  BY DEF JobsInv, JobsTyped
<1>2. PICK new : new = jobs' /\ new = [jobs EXCEPT ![m] = row]
  OBVIOUS
<1>3. /\ DOMAIN new = DOMAIN jobs \cup {m} /\ new[m] = row /\ \A k \in DOMAIN jobs \ {m} : new[k] = jobs[k]
      /\ DOMAIN new = DOMAIN jobs /\ new = [k \in DOMAIN new |-> new[k]]
  BY <1>2
<1>4. Backup(old) <=> Backup(row)
  BY <1>1 DEF Backup
<1>5. PICK n \in Nat, t \in Nat, c \in Nat, s \in Nat, o \in Nat :
         /\ n = Cardinality(BytesOf(jobs, Backups(jobs) \ {m})) /\ s = row.size /\ o = old.size
         /\ t = stats.totalBytes /\ c = stats.completedBytes
  <2>1. Cardinality(BytesOf(jobs, Backups(jobs) \ {m})) \in Nat
    BY <1>3, WrittenRow
  <2>2. row.size \in Nat /\ old.size \in Nat
    BY JobAssumption DEF Row
  <2>3. stats.totalBytes \in Nat /\ stats.completedBytes \in Nat
    BY DEF JobsInv, JobsTyped
  <2>4. QED  BY <2>1, <2>2, <2>3
<1>6. /\ IsFiniteSet(BytesOf(new, DOMAIN new))
      /\ Backup(row) => Cardinality(BytesOf(new, Backups(new))) = n + s
      /\ ~Backup(row) => Cardinality(BytesOf(new, Backups(new))) = n
  BY <1>3, <1>5, WrittenRow
<1>7. /\ Backup(old) => Cardinality(BytesOf(jobs, Backups(jobs))) = n + o
      /\ ~Backup(old) => Cardinality(BytesOf(jobs, Backups(jobs))) = n
  <2>1. DOMAIN jobs = DOMAIN jobs \cup {m} /\ jobs[m] = old /\ \A k \in DOMAIN jobs \ {m} : jobs[k] = jobs[k]
    BY <1>1
  <2>2. QED  BY <1>5, <2>1, WrittenRow
<1>8. /\ stats' \in [totalBytes : Nat, completedBytes : Nat] /\ stats'.completedBytes = c
      /\ Backup(row) => stats'.totalBytes = Larger(0, t - o + s)
      /\ ~Backup(row) => stats'.totalBytes = t
  <2>1. Larger(0, t - o + s) \in Nat
    BY <1>5 DEF Larger
  <2>2. stats \in [totalBytes : Nat, completedBytes : Nat]
    BY DEF JobsInv, JobsTyped
  <2>3. stats' = IF Backup(row) THEN [stats EXCEPT !.totalBytes = Larger(0, t - o + s)] ELSE stats
    BY <1>1, <1>5 DEF JobUpdated
  <2>4. QED  BY <1>5, <2>1, <2>2, <2>3
<1>9. JobsTyped'
  BY <1>2, <1>3, <1>6, <1>8 DEF JobsInv, JobsTyped
<1>10. /\ ~resetEarly /\ Backup(row) => t - c = n + o
       /\ ~resetEarly /\ ~Backup(row) => t - c = n
  BY <1>4, <1>5, <1>7 DEF JobsInv, StatsMatchRows
<1>11. StatsMatchRows'
  <2>1. ~resetEarly => stats'.totalBytes - stats'.completedBytes = Cardinality(BytesOf(new, Backups(new)))
    <3>1. CASE Backup(row)
      <4>1. ~resetEarly => Larger(0, t - o + s) = t - o + s /\ t - o + s - c = n + s
        <5>1. ASSUME ~resetEarly PROVE t - o + s >= 0 /\ t - o + s - c = n + s
          <6>1. t - c = n + o
            BY <1>10, <3>1, <5>1
          <6>2. QED  BY <1>5, <6>1
        <5>2. QED  BY <1>5, <5>1 DEF Larger
      <4>2. QED  BY <1>5, <1>6, <1>8, <3>1, <4>1
    <3>2. CASE ~Backup(row)
      BY <1>5, <1>6, <1>8, <1>10, <3>2
    <3>3. QED  BY <3>1, <3>2
  <2>2. DOMAIN new \subseteq jobMessages
    BY <1>3 DEF JobsInv, StatsMatchRows
  <2>3. QED  BY <1>2, <2>1, <2>2 DEF StatsMatchRows
<1>12. QED  BY <1>9, <1>11 DEF JobsInv

\* At the start there are no jobs.
LEMMA JobsStart == JobInit => JobsInv
<1> SUFFICES ASSUME JobInit PROVE JobsInv
  OBVIOUS
<1>1. DOMAIN jobs = {} /\ jobs = [m \in DOMAIN jobs |-> jobs[m]]
  BY DEF JobInit
<1>2. BytesOf(jobs, DOMAIN jobs) = {} /\ BytesOf(jobs, Backups(jobs)) = {}
  BY <1>1 DEF BytesOf, Backups
<1>3. IsFiniteSet({}) /\ Cardinality({}) = 0
  BY FS_EmptySet
<1>4. /\ stats \in [totalBytes : Nat, completedBytes : Nat] /\ resetEarly \in BOOLEAN
      /\ stats.totalBytes = 0 /\ stats.completedBytes = 0
  BY DEF JobInit
<1>5. 0 - 0 = 0
  OBVIOUS
<1>6. QED  BY <1>1, <1>2, <1>3, <1>4, <1>5 DEF JobsInv, JobsTyped, StatsMatchRows

\* A job is saved, with its message there or gone.
LEMMA SaveMatches ==
  ASSUME JobsInv, NEW m \in JobMessage, NEW row \in Row, SaveJob(m, row)
  PROVE  JobsInv'
<1>1. resetEarly' = resetEarly /\ jobMessages' = jobMessages
  BY DEF SaveJob
<1>2. CASE m \notin jobMessages
  BY <1>1, <1>2 DEF SaveJob, JobsInv, JobsTyped, StatsMatchRows
<1>3. CASE m \in jobMessages /\ m \notin DOMAIN jobs
  BY <1>1, <1>3, InsertMatches DEF SaveJob
<1>4. CASE m \in jobMessages /\ m \in DOMAIN jobs
  <2>1. PICK old \in Row : old = jobs[m]
    BY <1>4 DEF JobsInv, JobsTyped
  <2>2. PICK new : new = [row EXCEPT !.originalSource = old.originalSource]
    OBVIOUS
  <2>3. new \in Row /\ new.originalSource = old.originalSource
    BY <2>2 DEF Row
  <2>4. jobs' = [jobs EXCEPT ![m] = new] /\ stats' = JobUpdated(jobs[m], new)
    BY <1>4, <2>1, <2>2 DEF SaveJob
  <2>5. QED  BY <1>1, <1>4, <2>1, <2>3, <2>4, UpdateMatches
<1>5. QED  BY <1>2, <1>3, <1>4

\* A row is set active or not, or waits no more.
LEMMA FlagsMatch ==
  ASSUME JobsInv, ResetActive \/ ResetRetryAfter
  PROVE  JobsInv'
<1>1. \A m \in DOMAIN jobs : jobs[m] \in Row
  BY DEF JobsInv, JobsTyped
<1>2. DOMAIN jobs \subseteq jobMessages
  BY DEF JobsInv, StatsMatchRows
<1>3. CASE ResetActive
  <2>1. PICK new : new = jobs' /\ new = [m \in DOMAIN jobs |-> [jobs[m] EXCEPT !.active = FALSE]]
    BY <1>3 DEF ResetActive
  <2>2. ASSUME NEW m \in DOMAIN jobs
        PROVE  new[m] \in Row /\ new[m].size = jobs[m].size /\ new[m].originalSource = jobs[m].originalSource
    <3>1. new[m] = [jobs[m] EXCEPT !.active = FALSE] /\ jobs[m] \in Row
      BY <1>1, <2>1
    <3>2. QED  BY <3>1 DEF Row
  <2>3. DOMAIN new = DOMAIN jobs /\ new = [m \in DOMAIN new |-> new[m]]
    BY <2>1
  <2>4. QED  BY <1>2, <1>3, <2>1, <2>2, <2>3, SameSizes DEF ResetActive
<1>4. CASE ResetRetryAfter
  <2>1. PICK new : new = jobs' /\ new = [m \in DOMAIN jobs |-> [jobs[m] EXCEPT !.waits = @ /\ ~Backup(jobs[m])]]
    BY <1>4 DEF ResetRetryAfter
  <2>2. ASSUME NEW m \in DOMAIN jobs
        PROVE  new[m] \in Row /\ new[m].size = jobs[m].size /\ new[m].originalSource = jobs[m].originalSource
    <3>1. PICK waits \in BOOLEAN : waits = (jobs[m].waits /\ ~Backup(jobs[m]))
      OBVIOUS
    <3>2. new[m] = [jobs[m] EXCEPT !.waits = waits]
      BY <2>1, <3>1
    <3>3. QED  BY <1>1, <3>2 DEF Row
  <2>3. DOMAIN new = DOMAIN jobs /\ new = [m \in DOMAIN new |-> new[m]]
    BY <2>1
  <2>4. QED  BY <1>2, <1>4, <2>1, <2>2, <2>3, SameSizes DEF ResetRetryAfter
<1>5. QED  BY <1>3, <1>4

\* Each of the methods keeps the statistics right.
LEMMA JobsStep == ASSUME JobsInv, [JobNext]_jobVars PROVE JobsInv'
<1>1. DOMAIN jobs \subseteq jobMessages
  BY DEF JobsInv, StatsMatchRows
<1>2. ASSUME NEW m \in JobMessage, AddMessage(m) PROVE JobsInv'
  BY <1>1, <1>2 DEF AddMessage, JobsInv, JobsTyped, StatsMatchRows
<1>3. ASSUME NEW m \in JobMessage, RemoveMessage(m) PROVE JobsInv'
  <2>1. Delete(DOMAIN jobs \cap {m}) /\ resetEarly' = resetEarly /\ jobMessages' = jobMessages \ {m}
    BY <1>3 DEF RemoveMessage
  <2>2. DOMAIN jobs \ (DOMAIN jobs \cap {m}) \subseteq jobMessages'
    BY <1>1, <2>1
  <2>3. QED  BY <2>1, <2>2, DeleteMatches
<1>4. ASSUME NEW gone \in SUBSET DOMAIN jobs, Delete(gone), jobMessages' = jobMessages, resetEarly' = resetEarly
      PROVE  JobsInv'
  BY <1>1, <1>4, DeleteMatches
<1>5. ASSUME NEW m \in JobMessage, MarkActive(m) PROVE JobsInv'
  <2>1. m \in DOMAIN jobs /\ jobs' = [jobs EXCEPT ![m].active = TRUE] /\ stats' = JobUpdated(jobs[m], jobs'[m])
        /\ resetEarly' = resetEarly /\ jobMessages' = jobMessages
    BY <1>5 DEF MarkActive
  <2>2. PICK old \in Row : old = jobs[m]
    BY <2>1 DEF JobsInv, JobsTyped
  <2>3. PICK row : row = [old EXCEPT !.active = TRUE]
    OBVIOUS
  <2>4. row \in Row /\ row.originalSource = old.originalSource
    BY <2>3 DEF Row
  <2>5. jobs' = [jobs EXCEPT ![m] = row] /\ jobs'[m] = row
    BY <2>1, <2>2, <2>3
  <2>6. QED  BY <2>1, <2>2, <2>4, <2>5, UpdateMatches
<1>6. ASSUME NEW m \in JobMessage, RemoveJob(m) \/ RemoveJobsOf(m) PROVE JobsInv'
  <2>1. DOMAIN jobs \cap {m} \in SUBSET DOMAIN jobs
    OBVIOUS
  <2>2. QED  BY <1>4, <1>6, <2>1 DEF RemoveJob, RemoveJobsOf
<1>7. ASSUME NEW asked \in SUBSET JobMessage, NEW sources \in SUBSET Source, NextJobs(asked, sources) PROVE JobsInv'
  <2>1. CASE UNCHANGED <<jobs, stats, jobMessages, resetEarly>>
    BY <2>1 DEF JobsInv, JobsTyped, StatsMatchRows
  <2>2. ASSUME NEW m \in DOMAIN jobs, Delete({m}), jobMessages' = jobMessages, resetEarly' = resetEarly PROVE JobsInv'
    BY <1>4, <2>2
  <2>3. QED  BY <1>7, <2>1, <2>2 DEF NextJobs, Due, Prioritized
<1>8. CASE RemoveAllBackup
  <2>1. {m \in DOMAIN jobs : jobs[m].source = "backup_import"} \in SUBSET DOMAIN jobs
    OBVIOUS
  <2>2. QED  BY <1>4, <1>8, <2>1 DEF RemoveAllBackup
<1>9. CASE ResetStats
  <2>1. /\ stats' \in [totalBytes : Nat, completedBytes : Nat]
        /\ stats'.totalBytes = 0 /\ stats'.completedBytes = 0
        /\ jobs' = jobs /\ jobMessages' = jobMessages
        /\ resetEarly' = (resetEarly \/ \E m \in DOMAIN jobs : Backup(jobs[m]))
    BY <1>9 DEF ResetStats
  <2>2. ~resetEarly' => BytesOf(jobs, Backups(jobs)) = {}
    BY <2>1 DEF Backups, BytesOf
  <2>3. Cardinality({}) = 0 /\ 0 - 0 = 0
    BY FS_EmptySet
  <2>4. QED  BY <2>1, <2>2, <2>3 DEF JobsInv, JobsTyped, StatsMatchRows
<1>10. CASE UNCHANGED jobVars
  BY <1>10 DEF jobVars, JobsInv, JobsTyped, StatsMatchRows
<1>11. QED  BY <1>2, <1>3, <1>5, <1>6, <1>7, <1>8, <1>9, <1>10, SaveMatches, FlagsMatch DEF JobNext

\* What a backup import has left, total less completed, is the size of the jobs it still
\* has to do, unless the statistics were reset under them (sql.js 2309-2340, 5427-5630).
THEOREM StatsStayRight == JobSpec => []StatsMatchRows
<1>1. JobInit => JobsInv
  BY JobsStart
<1>2. JobsInv /\ [JobNext]_jobVars => JobsInv'
  BY JobsStep
<1>3. JobsInv => StatsMatchRows
  BY DEF JobsInv
<1>4. QED  BY <1>1, <1>2, <1>3, PTL DEF JobSpec
=============================================================================
