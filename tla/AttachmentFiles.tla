-------------------------- MODULE AttachmentFiles --------------------------
(***************************************************************************)
(* Which attachment files may be deleted (bundles/workers/sql.js): rows of *)
(* message_attachments name files, several messages may share one, and a   *)
(* message that is being downloaded protects the file it will name, until  *)
(* its rows are saved.  The tab that downloads, cleans up and unlinks (with *)
(* fsUnlink) is the caller of these methods; it may be gone at any moment. *)
(***************************************************************************)
EXTENDS Naturals, FiniteSets

CONSTANTS
  FileMessage,  \* the messages
  AttachPath,   \* paths of attachment files
  MaxFileUses,  \* bound: downloads begun
  OtherTab      \* whether another tab may start while one is at work

ASSUME FilesAssumption == MaxFileUses \in Nat /\ OtherTab \in BOOLEAN

VARIABLES
  filesOnDisk, \* the files that exist
  rows,        \* message_attachments: per message, the paths its rows name
  protected,   \* attachments_protected_from_deletion: <<path, message>>
  download,    \* per message, the path its download will save, as a set of at most one
  cleanup,     \* paths of removed rows, which the tab is about to check
  unlinking,   \* paths found safe to delete
  fileUses     \* downloads begun
fileVars == <<filesOnDisk, rows, protected, download, cleanup, unlinking, fileUses>>

FilesInit ==
  /\ filesOnDisk = {}
  /\ rows = [m \in FileMessage |-> {}]
  /\ protected = {}
  /\ download = [m \in FileMessage |-> {}]
  /\ cleanup = {} /\ unlinking = {}
  /\ fileUses = 0

\* protectAttachmentPathFromDeletion, and the tab writes a new file under the path.
DownloadNew(m, p) ==
  /\ fileUses < MaxFileUses /\ fileUses' = fileUses + 1
  /\ download[m] = {} /\ p \notin filesOnDisk \cup cleanup \cup unlinking
  /\ protected' = protected \cup {<<p, m>>}
  /\ filesOnDisk' = filesOnDisk \cup {p}
  /\ download' = [download EXCEPT ![m] = {p}]
  /\ UNCHANGED <<rows, cleanup, unlinking>>

\* getAndProtectExistingAttachmentPath: a file with the same plaintext, if a row names
\* one; a hash that is not valid, or an old version, finds none.
DownloadExisting(m, p) ==
  /\ fileUses < MaxFileUses /\ fileUses' = fileUses + 1
  /\ download[m] = {}
  /\ \E other \in FileMessage : p \in rows[other]
  /\ protected' = protected \cup {<<p, m>>}
  /\ download' = [download EXCEPT ![m] = {p}]
  /\ UNCHANGED <<filesOnDisk, rows, cleanup, unlinking>>

\* saveMessage replaces the rows of a message: the insert trigger ends the protection
\* of the paths, for this message alone; the tab will check paths no longer named.
StopProtectingAll(m, paths) == {e \in protected : e[1] \notin paths}
StopProtecting(m, paths)    == {e \in protected : ~(e[1] \in paths /\ e[2] = m)}
SaveRows(m) ==
  /\ download[m] # {}
  /\ rows' = [rows EXCEPT ![m] = download[m]]
  /\ protected' = StopProtecting(m, download[m])
  /\ cleanup' = cleanup \cup (rows[m] \ download[m])
  /\ download' = [download EXCEPT ![m] = {}]
  /\ UNCHANGED <<filesOnDisk, unlinking, fileUses>>

\* A message is deleted, or saved without attachments; a download for it goes on.
RemoveRows(m) ==
  /\ rows[m] # {}
  /\ rows' = [rows EXCEPT ![m] = {}]
  /\ cleanup' = cleanup \cup rows[m]
  /\ UNCHANGED <<filesOnDisk, protected, download, unlinking, fileUses>>

\* A download fails: its protection stays until the next reset, its file too.
GiveUp(m) ==
  /\ download[m] # {}
  /\ download' = [download EXCEPT ![m] = {}]
  /\ UNCHANGED <<filesOnDisk, rows, protected, cleanup, unlinking, fileUses>>

isAttachmentSafeToDelete(p) ==
  /\ \A m \in FileMessage : p \notin rows[m]
  /\ \A e \in protected : e[1] # p
CheckPath(p) ==
  /\ p \in cleanup
  /\ cleanup' = cleanup \ {p}
  /\ unlinking' = IF isAttachmentSafeToDelete(p) THEN unlinking \cup {p} ELSE unlinking
  /\ UNCHANGED <<filesOnDisk, rows, protected, download, fileUses>>

UnlinkPath(p) ==
  /\ p \in unlinking
  /\ unlinking' = unlinking \ {p}
  /\ filesOnDisk' = filesOnDisk \ {p}
  /\ UNCHANGED <<rows, protected, download, cleanup, fileUses>>

\* The tab goes; a tab that starts resets the protections of those before it.
ResetProtected ==
  /\ protected' = {}
  /\ IF OtherTab THEN UNCHANGED <<download, cleanup>>
     ELSE download' = [m \in FileMessage |-> {}] /\ cleanup' = {}
  /\ UNCHANGED <<filesOnDisk, rows, unlinking, fileUses>>

FilesNext ==
  \/ \E m \in FileMessage :
       \/ \E p \in AttachPath : DownloadNew(m, p) \/ DownloadExisting(m, p)
       \/ SaveRows(m) \/ RemoveRows(m) \/ GiveUp(m)
  \/ \E p \in AttachPath : CheckPath(p) \/ UnlinkPath(p)
  \/ ResetProtected
FilesSpec == FilesInit /\ [][FilesNext]_fileVars
----------------------------------------------------------------------------
FilesTypeOK ==
  /\ filesOnDisk \subseteq AttachPath
  /\ rows \in [FileMessage -> SUBSET AttachPath]
  /\ download \in [FileMessage -> SUBSET AttachPath]
  /\ protected \subseteq AttachPath \X FileMessage
  /\ cleanup \subseteq AttachPath /\ unlinking \subseteq AttachPath
  /\ fileUses \in 0..MaxFileUses

(* A file that a message names, or that a download is about to give one, is *)
(* not deleted: neither between the check and the unlink, nor when another  *)
(* message that protects the same file is saved or removed first (sql.js    *)
(* 2655-2700, 4556-4600).                                                   *)
ReferencedFilesStay ==
  \A m \in FileMessage : rows[m] \cup download[m] \subseteq filesOnDisk \ unlinking
=============================================================================
