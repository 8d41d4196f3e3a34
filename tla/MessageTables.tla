--------------------------- MODULE MessageTables ---------------------------
(***************************************************************************)
(* Two things derived from table messages (bundles/workers/sql.js).        *)
(*                                                                         *)
(* The search index is kept by triggers, which a backup import drops for   *)
(* its inserts and restores with a backfill; updateSchema does so at the   *)
(* next start when the import never came to its end.                       *)
(*                                                                         *)
(* pageMessages walks through all messages in calls of their own, over a   *)
(* TEMP table that TEMP triggers extend with what changes meanwhile. Both  *)
(* belong to the connection that made them.  It is a read, so sqlCall      *)
(* (sql.node.ts) sends each call to the least loaded worker; writes go to  *)
(* the primary.                                                            *)
(***************************************************************************)
EXTENDS Integers, FiniteSets

CONSTANTS
  MessageId,     \* the messages
  Connection,    \* the connections of the worker pool
  primary,       \* the one that writes
  ChunkSize,     \* 1000 rows
  MaxVersions,   \* bound: writes of messages
  MaxRuns        \* bound: iterations, and crashes

ASSUME TablesAssumption ==
  /\ primary \in Connection
  /\ ChunkSize \in Nat \ {0} /\ MaxVersions \in Nat /\ MaxRuns \in Nat

VARIABLES
  messages,   \* table messages: id -> [version, searchable], version 0 if absent
  messagesFts, \* the index: id -> version of the text, 0 if absent
  insertTriggers, \* trigger messages_on_insert exists
  disabledItem,   \* item messageInsertTriggersDisabled
  tempTable,  \* per connection, the TEMP table of its last run: [run, ids]; run 0 if none
  cursor,     \* the client's iteration: run, done, failed; and, read by no action, the
              \* connection of its first page and the writes there had been by then
  seen,       \* per message, the version that a page returned
  writes, runs
tableVars == <<messages, messagesFts, insertTriggers, disabledItem, tempTable, cursor, seen, writes, runs>>

NoTable == [run |-> 0, ids |-> {}]
NoRun   == [run |-> 0, done |-> FALSE, failed |-> FALSE, at |-> primary, since |-> 0]
Absent0 == [m \in MessageId |-> 0]
InTable(m)  == messages[m].version > 0
indexVars  == <<messagesFts, insertTriggers, disabledItem>>
pagingVars == <<tempTable, cursor, seen>>

TablesInit ==
  /\ messages \in [MessageId -> [version : {0}, searchable : BOOLEAN]]
  /\ messagesFts = Absent0
  /\ insertTriggers = TRUE /\ disabledItem = FALSE
  /\ tempTable = [c \in Connection |-> NoTable]
  /\ cursor = NoRun
  /\ seen = Absent0
  /\ writes = 0 /\ runs = 0

\* The TEMP triggers of the connection that writes.
NoTempTriggers(m) == tempTable
TempTriggers(m) ==
  IF tempTable[primary].run = 0 THEN tempTable
  ELSE [tempTable EXCEPT ![primary].ids = @ \cup {m}]
Write == writes < MaxVersions /\ writes' = writes + 1

InsertMessage(m) ==
  /\ Write
  /\ ~InTable(m)
  /\ messages' = [messages EXCEPT ![m].version = writes + 1]
  /\ messagesFts' = IF insertTriggers /\ messages[m].searchable
                    THEN [messagesFts EXCEPT ![m] = writes + 1] ELSE messagesFts
  /\ tempTable' = TempTriggers(m)
  /\ UNCHANGED <<insertTriggers, disabledItem, cursor, seen, runs>>

\* messages_on_update changes a row of the index that is there.
IndexUpdated(m, v) ==
  IF messages[m].searchable /\ messagesFts[m] # 0 THEN [messagesFts EXCEPT ![m] = v] ELSE messagesFts
UpdateMessage(m) ==
  /\ Write
  /\ InTable(m)
  /\ messages' = [messages EXCEPT ![m].version = writes + 1]
  /\ messagesFts' = IndexUpdated(m, writes + 1)
  /\ tempTable' = TempTriggers(m)
  /\ UNCHANGED <<insertTriggers, disabledItem, cursor, seen, runs>>

RemoveMessageRow(m) ==
  /\ InTable(m)
  /\ messages' = [messages EXCEPT ![m].version = 0]
  /\ messagesFts' = [messagesFts EXCEPT ![m] = 0]
  /\ seen' = [seen EXCEPT ![m] = 0]
  /\ UNCHANGED <<insertTriggers, disabledItem, tempTable, cursor, writes, runs>>
----------------------------------------------------------------------------
\* backfillMessagesFtsTable.
BackfillMissing == messagesFts
Backfill == [m \in MessageId |-> IF messages[m].searchable THEN messages[m].version ELSE 0]

\* disableMessageInsertTriggers and enableMessageInsertTriggersAndBackfill.
DisableTriggers ==
  /\ runs < MaxRuns /\ runs' = runs + 1
  /\ disabledItem' = TRUE
  /\ insertTriggers' = FALSE
  /\ UNCHANGED <<messages, messagesFts, pagingVars, writes>>

EnableTriggers ==
  /\ disabledItem
  /\ messagesFts' = Backfill
  /\ insertTriggers' = TRUE
  /\ disabledItem' = FALSE
  /\ UNCHANGED <<messages, pagingVars, writes, runs>>

\* The process ends, and with it every connection and its TEMP tables; the next start
\* runs ensureMessageInsertTriggersAreEnabled.
Restart ==
  /\ runs < MaxRuns /\ runs' = runs + 1
  /\ messagesFts' = IF disabledItem THEN Backfill ELSE messagesFts
  /\ insertTriggers' = (insertTriggers \/ disabledItem)
  /\ disabledItem' = FALSE
  /\ tempTable' = [c \in Connection |-> NoTable]
  /\ cursor' = NoRun
  /\ seen' = Absent0
  /\ UNCHANGED <<messages, writes>>
----------------------------------------------------------------------------
\* The worker that a read call goes to: the least loaded, which other calls decide.
getWorker == Connection

\* DELETE ... RETURNING of the oldest rows, and the messages they still name.
Page(c, run, at, since, ids) ==
  \E chunk \in SUBSET ids :
    /\ Cardinality(chunk) = IF Cardinality(ids) < ChunkSize THEN Cardinality(ids) ELSE ChunkSize
    /\ tempTable' = [tempTable EXCEPT ![c] = [run |-> run, ids |-> ids \ chunk]]
    /\ cursor' = [run |-> run, done |-> Cardinality(chunk) < ChunkSize, failed |-> FALSE,
                  at |-> at, since |-> since]
    /\ seen' = [m \in MessageId |-> IF m \in chunk THEN messages[m].version ELSE seen[m]]

\* A table that an earlier iteration left on the connection is not used again.
PageFirst ==
  /\ cursor.run = 0
  /\ runs < MaxRuns /\ runs' = runs + 1
  /\ \E c \in getWorker : Page(c, runs + 1, c, writes, {m \in MessageId : InTable(m)})
  /\ UNCHANGED <<messages, indexVars, writes>>

\* A later page; on a connection that has no such table it is an error.
PageNext ==
  /\ cursor.run # 0 /\ ~cursor.done /\ ~cursor.failed
  /\ \E c \in getWorker :
       \/ /\ tempTable[c].run = cursor.run
          /\ Page(c, cursor.run, cursor.at, cursor.since, tempTable[c].ids)
       \/ /\ tempTable[c].run # cursor.run
          /\ cursor' = [cursor EXCEPT !.failed = TRUE]
          /\ UNCHANGED <<tempTable, seen>>
  /\ UNCHANGED <<messages, indexVars, writes, runs>>

finishPageMessages ==
  /\ cursor.run # 0 /\ cursor.done
  /\ \E c \in getWorker :
       tempTable' = [tempTable EXCEPT ![c] = IF tempTable[c].run = cursor.run THEN NoTable ELSE @]
  /\ cursor' = NoRun
  /\ seen' = Absent0
  /\ UNCHANGED <<messages, indexVars, writes, runs>>

TablesNext ==
  \/ \E m \in MessageId : InsertMessage(m) \/ UpdateMessage(m) \/ RemoveMessageRow(m)
  \/ DisableTriggers \/ EnableTriggers \/ Restart
  \/ PageFirst \/ PageNext \/ finishPageMessages
TablesSpec == TablesInit /\ [][TablesNext]_tableVars
----------------------------------------------------------------------------
TablesTypeOK ==
  /\ messages \in [MessageId -> [version : 0..MaxVersions, searchable : BOOLEAN]]
  /\ messagesFts \in [MessageId -> 0..MaxVersions]
  /\ seen \in [MessageId -> 0..MaxVersions]
  /\ insertTriggers \in BOOLEAN /\ disabledItem \in BOOLEAN
  /\ tempTable \in [Connection -> [run : 0..MaxRuns, ids : SUBSET MessageId]]
  /\ cursor \in [run : 0..MaxRuns, done : BOOLEAN, failed : BOOLEAN,
                 at : Connection, since : 0..MaxVersions]
  /\ writes \in 0..MaxVersions /\ runs \in 0..MaxRuns

(* Outside an import, and at the start after one that was cut short, the    *)
(* index has the text of exactly the searchable messages; during it, only   *)
(* lacks some (sql.js 2416-2432, 6388-6409).                                *)
IndexMatchesMessages ==
  \A m \in MessageId :
    LET text == IF messages[m].searchable THEN messages[m].version ELSE 0
    IN  /\ ~disabledItem => messagesFts[m] = text
        /\ disabledItem  => messagesFts[m] \in {0, text}

(* Whichever workers the pool sends the pages to: as long as none failed, a *)
(* message that no page returned as it now is waits in the iteration's      *)
(* table for a page to come, but for what was written after the first page  *)
(* when that ran on a connection other than the one that writes (sql.js     *)
(* 6237-6284).                                                              *)
PagesMissOnlyLaterWrites ==
  cursor.run # 0 /\ ~cursor.failed =>
    \A m \in MessageId :
      InTable(m) /\ (cursor.at = primary \/ messages[m].version <= cursor.since) =>
        \/ seen[m] = messages[m].version
        \/ tempTable[cursor.at].run = cursor.run /\ m \in tempTable[cursor.at].ids

=============================================================================
