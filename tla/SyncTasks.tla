----------------------------- MODULE SyncTasks -----------------------------
(***************************************************************************)
(* Sync tasks (bundles/workers/sql.js): what other devices of the account   *)
(* ask for is kept in a table that the client scans page by page, from the  *)
(* last rowid on, while tasks are added and removed.  SQLite gives a new    *)
(* row the rowid after the greatest one: that of a removed row may return.  *)
(***************************************************************************)
EXTENDS Integers, Sequences, FiniteSets, FiniteSetsExt

CONSTANTS
  TaskType,       \* types of task
  MaxTasks,       \* bound: tasks that are ever saved
  PageSize,       \* 10000 in the code
  MaxTaskAttempts \* 5 in the code: a task may expire; attempts are not told apart beyond

ASSUME SyncTasksAssumption == MaxTasks \in Nat /\ PageSize \in Nat \ {0} /\ MaxTaskAttempts \in Nat

VARIABLES
  syncTasks, \* table syncTasks: rowid -> [id, type, attempts], id 0 if there is no row
  tasksSaved, \* tasks saved so far: their ids are 1, 2, ...
  scan,      \* the client's scan: its state, types and last rowid, ids owed and given
  started    \* per id, how often the client was given the task
syncVars == <<syncTasks, tasksSaved, scan, started>>

NoTask == [id |-> 0, type |-> "none", attempts |-> 0]
NoScan == [state |-> "off", types |-> {}, last |-> 0, owed |-> {}, given |-> <<>>]
TaskIds == 1..MaxTasks

SyncInit ==
  /\ syncTasks = [r \in 1..MaxTasks |-> NoTask]
  /\ tasksSaved = 0 /\ scan = NoScan
  /\ started = [i \in TaskIds |-> 0]

TaskRows == {r \in 1..MaxTasks : syncTasks[r].id # 0}
LastRow  == IF TaskRows = {} THEN 0 ELSE Max(TaskRows)
IdsOf(rows) == {syncTasks[r].id : r \in rows}
More(n) == IF n < MaxTaskAttempts THEN n + 1 ELSE n
----------------------------------------------------------------------------
\* One transaction for all tasks of a message; an id never comes back.
saveSyncTasks(types) ==
  /\ tasksSaved + Len(types) <= MaxTasks /\ LastRow + Len(types) <= MaxTasks
  /\ syncTasks' = [r \in 1..MaxTasks |->
                     IF r - LastRow \notin DOMAIN types THEN syncTasks[r]
                     ELSE [id |-> tasksSaved + r - LastRow, type |-> types[r - LastRow], attempts |-> 0]]
  /\ tasksSaved' = tasksSaved + Len(types)
  /\ UNCHANGED <<scan, started>>

\* The client is done with a task; removeSyncTasks removes several.
removeSyncTaskById(r) ==
  /\ r \in TaskRows
  /\ syncTasks' = [syncTasks EXCEPT ![r] = NoTask]
  /\ scan' = [scan EXCEPT !.owed = @ \ IdsOf({r})]
  /\ UNCHANGED <<tasksSaved, started>>

incrementAllSyncTaskAttempts ==
  /\ syncTasks' = [r \in 1..MaxTasks |->
                     IF r \in TaskRows THEN [syncTasks[r] EXCEPT !.attempts = More(@)] ELSE NoTask]
  /\ UNCHANGED <<tasksSaved, scan, started>>

\* The client starts to go through the tasks of some types.
BeginScan(types) ==
  /\ scan.state # "on"
  /\ scan' = [state |-> "on", types |-> types, last |-> 0, given |-> <<>>,
              owed |-> IdsOf({r \in TaskRows : syncTasks[r].type \in types})]
  /\ UNCHANGED <<syncTasks, tasksSaved, started>>

\* ORDER BY rowid ASC LIMIT PageSize
InPageDesc(r, rows) == Cardinality({q \in rows : q > r}) < PageSize
Before(r, rows)     == Cardinality({q \in rows : q < r})
InPage(r, rows)     == Before(r, rows) < PageSize
\* The rows of a page as the query returns them.
InRowOrder(page) == [k \in 1..Cardinality(page) |-> CHOOSE r \in page : Before(r, page) = k - 1]

\* Tasks that are tried out, and more than two days old, go first; a page is then read
\* and its attempts counted; without one the scan is over.
dequeueOldestSyncTasks(expired) ==
  LET left == {r \in TaskRows \ expired : r > scan.last /\ syncTasks[r].type \in scan.types}
      page == {r \in left : InPage(r, left)}
      rows == InRowOrder(page)
  IN
  /\ scan.state = "on"
  /\ \A r \in expired : r \in TaskRows /\ syncTasks[r].attempts >= MaxTaskAttempts
  /\ syncTasks' = [r \in 1..MaxTasks |->
                     IF r \in expired THEN NoTask
                     ELSE IF r \in page THEN [syncTasks[r] EXCEPT !.attempts = More(@)]
                     ELSE syncTasks[r]]
  /\ scan' = [scan EXCEPT !.state = IF page = {} THEN "over" ELSE "on",
                          !.last = IF page = {} THEN @ ELSE Max(page),
                          !.owed = @ \ IdsOf(page \cup expired),
                          !.given = @ \o [k \in DOMAIN rows |-> syncTasks[rows[k]].id]]
  /\ started' = [i \in TaskIds |-> IF i \in IdsOf(page) THEN More(started[i]) ELSE started[i]]
  /\ UNCHANGED tasksSaved

\* The page of the client goes, with its scan.
ScanCrash ==
  /\ scan.state = "on"
  /\ scan' = NoScan
  /\ UNCHANGED <<syncTasks, tasksSaved, started>>

SyncNext ==
  \/ \E types \in [1..1 -> TaskType] \cup [1..2 -> TaskType] : saveSyncTasks(types)
  \/ \E r \in 1..MaxTasks : removeSyncTaskById(r)
  \/ incrementAllSyncTaskAttempts
  \/ \E types \in SUBSET TaskType \ {{}} : BeginScan(types)
  \/ \E expired \in SUBSET (1..MaxTasks) : dequeueOldestSyncTasks(expired)
  \/ ScanCrash
SyncSpec == SyncInit /\ [][SyncNext]_syncVars
----------------------------------------------------------------------------
SyncTypeOK ==
  /\ syncTasks \in [1..MaxTasks -> [id : 0..MaxTasks, type : TaskType \cup {"none"}, attempts : 0..MaxTaskAttempts]]
  /\ tasksSaved \in 0..MaxTasks
  /\ scan.state \in {"off", "on", "over"} /\ scan.owed \subseteq TaskIds
  /\ started \in [TaskIds -> 0..MaxTaskAttempts]

(* Whatever is saved, removed and expires between two pages, a scan gives   *)
(* no task twice, and when it is over it has given every task of its types   *)
(* that was there when it began and still is; and each time is counted, over *)
(* crashes, so that a task that brings the client down expires in the end     *)
(* (sql.js 4496-4540).                                                      *)
ScanMissesNone ==
  /\ scan.state = "over" => scan.owed = {}
  /\ \A i, j \in DOMAIN scan.given : i < j => scan.given[i] # scan.given[j]
  /\ \A r \in TaskRows : started[syncTasks[r].id] <= syncTasks[r].attempts
=============================================================================
