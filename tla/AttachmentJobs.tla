--------------------------- MODULE AttachmentJobs ---------------------------
(***************************************************************************)
(* The queue of attachment downloads in the database                       *)
(* (bundles/workers/sql.js): its table with the triggers that keep the     *)
(* statistics of a backup import, and the methods that save, take, retry   *)
(* and remove jobs.  Every method is one transaction, or one statement, on *)
(* the primary connection, so it is one step here.                         *)
(*                                                                         *)
(* A message has at most one attachment: its job is named by the message.  *)
(* The tab that runs the jobs is the caller; it may be gone at any moment. *)
(***************************************************************************)
EXTENDS Integers, FiniteSets

CONSTANTS
  JobMessage, \* the messages
  JobSizes,   \* ciphertext sizes, in Nat
  MaxJobSteps \* bound: saves, message changes and resets

ASSUME JobAssumption == JobSizes \subseteq Nat /\ MaxJobSteps \in Nat

VARIABLES
  jobMessages, \* ids in table messages
  jobs,        \* table attachment_downloads: message -> row
  stats,       \* row 0 of attachment_downloads_backup_stats
  running,     \* jobs a tab has taken and not yet finished
  resetEarly,  \* the statistics were reset under jobs still to do
  jobSteps     \* steps counted by the bound
jobVars == <<jobMessages, jobs, stats, running, resetEarly, jobSteps>>

Source == {"standard", "backup_import"}
Row == [size : JobSizes, originalSource : Source, source : Source,
        active : BOOLEAN, waits : BOOLEAN, broken : BOOLEAN]

JobInit ==
  /\ jobMessages = {}
  /\ jobs = [m \in {} |-> {}]
  /\ stats = [totalBytes |-> 0, completedBytes |-> 0]
  /\ running = {}
  /\ resetEarly = FALSE
  /\ jobSteps = 0

Count == jobSteps < MaxJobSteps /\ jobSteps' = jobSteps + 1
Backup(row) == row.originalSource = "backup_import"
Backups(table) == {m \in DOMAIN table : Backup(table[m])}
\* The bytes of some jobs: there are as many as the sum of the sizes.
BytesOf(table, S) == UNION {{m} \X (1..table[m].size) : m \in S}
Larger(a, b) == IF a > b THEN a ELSE b

\* The insert and update triggers; ON CONFLICT keeps originalSource, and the update
\* names ciphertextSize, so its trigger runs whatever else changes.
JobInserted(row) ==
  IF Backup(row) THEN [stats EXCEPT !.totalBytes = @ + row.size] ELSE stats
UpdatedAsInsert(old, new) == JobInserted(new)
UpdatedUnclamped(old, new) ==
  IF Backup(new) THEN [stats EXCEPT !.totalBytes = @ - old.size + new.size] ELSE stats
JobUpdated(old, new) ==
  IF Backup(new) THEN [stats EXCEPT !.totalBytes = Larger(0, @ - old.size + new.size)] ELSE stats

\* The delete trigger, for every row that goes: also those that go with a message.
JobsDeleted(gone) ==
  [stats EXCEPT !.completedBytes = @ + Cardinality(BytesOf(jobs, Backups(jobs) \cap gone))]
Delete(gone) ==
  /\ stats' = JobsDeleted(gone)
  /\ jobs' = [m \in DOMAIN jobs \ gone |-> jobs[m]]
----------------------------------------------------------------------------
\* External: messages come, and go with their jobs (ON DELETE CASCADE).
AddMessage(m) ==
  /\ Count
  /\ m \notin jobMessages
  /\ jobMessages' = jobMessages \cup {m}
  /\ UNCHANGED <<jobs, stats, running, resetEarly>>

RemoveMessage(m) ==
  /\ m \in jobMessages
  /\ jobMessages' = jobMessages \ {m}
  /\ Delete(DOMAIN jobs \cap {m})
  /\ UNCHANGED <<running, resetEarly, jobSteps>>

\* saveAttachmentDownloadJob: nothing without the message.
SaveJob(m, row) ==
  /\ Count
  /\ IF m \notin jobMessages THEN UNCHANGED <<jobs, stats>>
     ELSE IF m \notin DOMAIN jobs
     THEN /\ jobs' = [k \in DOMAIN jobs \cup {m} |-> IF k = m THEN row ELSE jobs[k]]
          /\ stats' = JobInserted(row)
     ELSE LET new == [row EXCEPT !.originalSource = jobs[m].originalSource] IN
          /\ jobs' = [jobs EXCEPT ![m] = new]
          /\ stats' = JobUpdated(jobs[m], new)
  /\ running' = running \ {m}
  /\ UNCHANGED <<jobMessages, resetEarly>>

\* getNextAttachmentDownloadJobs: jobs asked for by message, then others that are due,
\* in which the former may come again; `active` is left for the caller to set. A job
\* that does not parse is removed and the call throws, its other jobs not returned.
Due(sources)      == {m \in DOMAIN jobs : ~jobs[m].active /\ ~jobs[m].waits /\ jobs[m].source \in sources}
Prioritized(asked, sources) ==
  {m \in DOMAIN jobs \cap asked : ~jobs[m].active /\ jobs[m].source \in sources}
NextJobs(asked, sources) ==
  \E taken \in SUBSET (Due(sources) \cup Prioritized(asked, sources)) :
    LET broken == {m \in taken : jobs[m].broken} IN
    /\ taken # {}
    /\ \/ /\ broken = {}
          /\ running' = running \cup taken
          /\ UNCHANGED <<jobs, stats>>
       \/ \E m \in broken : Delete({m}) /\ UNCHANGED running
    /\ UNCHANGED <<jobMessages, resetEarly, jobSteps>>

\* The tab saves a job it takes as active, and removes one it has done.
MarkActive(m) ==
  /\ m \in running /\ m \in DOMAIN jobs
  /\ ~jobs[m].active
  /\ jobs' = [jobs EXCEPT ![m].active = TRUE]
  /\ stats' = JobUpdated(jobs[m], jobs'[m])
  /\ UNCHANGED <<jobMessages, running, resetEarly, jobSteps>>

RemoveJob(m) ==
  /\ m \in running
  /\ Delete(DOMAIN jobs \cap {m})
  /\ running' = running \ {m}
  /\ UNCHANGED <<jobMessages, resetEarly, jobSteps>>

\* removeAttachmentDownloadJobsForMessage, resetAttachmentDownloadActive (with a tab
\* that starts again), resetBackupAttachmentDownloadJobsRetryAfter.
RemoveJobsOf(m) ==
  /\ Delete(DOMAIN jobs \cap {m})
  /\ m \in DOMAIN jobs
  /\ UNCHANGED <<jobMessages, running, resetEarly, jobSteps>>

ResetActive ==
  /\ running' = {}
  /\ jobs' = [m \in DOMAIN jobs |-> [jobs[m] EXCEPT !.active = FALSE]]
  /\ UNCHANGED <<jobMessages, stats, resetEarly, jobSteps>>

ResetRetryAfter ==
  /\ jobs' = [m \in DOMAIN jobs |-> [jobs[m] EXCEPT !.waits = @ /\ ~Backup(jobs[m])]]
  /\ UNCHANGED <<jobMessages, stats, running, resetEarly, jobSteps>>

\* removeAllBackupAttachmentDownloadJobs goes by source, the triggers by originalSource.
RemoveAllBackup ==
  /\ Delete({m \in DOMAIN jobs : jobs[m].source = "backup_import"})
  /\ UNCHANGED <<jobMessages, running, resetEarly, jobSteps>>

ResetStats ==
  /\ Count
  /\ stats' = [totalBytes |-> 0, completedBytes |-> 0]
  /\ resetEarly' = (resetEarly \/ \E m \in DOMAIN jobs : Backup(jobs[m]))
  /\ UNCHANGED <<jobMessages, jobs, running>>

JobNext ==
  \/ \E m \in JobMessage :
       \/ AddMessage(m) \/ RemoveMessage(m) \/ MarkActive(m) \/ RemoveJob(m) \/ RemoveJobsOf(m)
       \/ \E row \in Row : ~row.active /\ SaveJob(m, row)
  \/ \E asked \in SUBSET JobMessage, sources \in SUBSET Source : NextJobs(asked, sources)
  \/ ResetActive \/ ResetRetryAfter \/ RemoveAllBackup \/ ResetStats
JobSpec == JobInit /\ [][JobNext]_jobVars
----------------------------------------------------------------------------
JobTypeOK ==
  /\ jobMessages \subseteq JobMessage /\ running \subseteq JobMessage
  /\ DOMAIN jobs \subseteq JobMessage
  /\ \A m \in DOMAIN jobs : jobs[m] \in Row
  /\ stats.totalBytes \in Nat /\ stats.completedBytes \in Nat
  /\ jobSteps \in 0..MaxJobSteps

(* What the progress of a backup import has left, total less completed, is  *)
(* the size of the jobs it still has to do, however jobs are saved again,   *)
(* given up with their message, found corrupt or removed; unless the        *)
(* statistics were reset while such jobs were left (sql.js 2296-2340).      *)
StatsMatchRows ==
  /\ DOMAIN jobs \subseteq jobMessages
  /\ ~resetEarly =>
       stats.totalBytes - stats.completedBytes =
         Cardinality(BytesOf(jobs, Backups(jobs)))
=============================================================================
