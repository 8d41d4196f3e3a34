---------------------------- MODULE ChatFolders ----------------------------
(***************************************************************************)
(* Chat folders (bundles/workers/sql.js): the order the user gave them,    *)
(* kept in a position column that creation, deletion, reordering and the   *)
(* storage service all write; the one folder of all chats; and the flag    *)
(* that has a changed row uploaded.  The client edits and uploads rows     *)
(* that it read some calls before, and updateChatFolder writes them back   *)
(* whole.                                                                  *)
(***************************************************************************)
EXTENDS Integers, FiniteSets

CONSTANTS
  ChatFolder,  \* ids of chat folders
  MaxPosition  \* positions that are modelled: 0 .. MaxPosition

ASSUME FoldersAssumption ==
  /\ MaxPosition \in Nat
  /\ IsFiniteSet(ChatFolder) /\ Cardinality(ChatFolder) <= MaxPosition + 1

VARIABLES
  chatFolders,   \* table chatFolders: id -> [there, all, position, deleted, needsSync]
  edited,        \* id -> the row that the client is editing, as it read it but flagged, or
                 \* NoFolder
  sent,          \* id -> the row that the storage job is uploading, as it read it, or NoFolder
  folderStorage, \* id -> the record that the storage service was last told
  ensuring,      \* the client has read that there is no folder of all chats
  kept,          \* history: no position was taken twice, and no row written back stale,
                 \* since the folders were last numbered
  shown,         \* history, while that is so: the current folders as the user last left
                 \* them, the pairs <<f, g>> such that f is g or stands ahead of it
  overtaken      \* history: an all-chats folder came from the storage service between
                 \* the client's question and its creation of one
folderVars == <<chatFolders, edited, sent, folderStorage, ensuring, kept, shown, overtaken>>

NoFolder == [there |-> FALSE, all |-> FALSE, position |-> 0, deleted |-> FALSE, needsSync |-> FALSE]
NewFolder(all, p, flag) ==
  [there |-> TRUE, all |-> all, position |-> p, deleted |-> FALSE, needsSync |-> flag]
NoRows == [f \in ChatFolder |-> NoFolder]
DeletedPosition == MaxPosition + 1 \* stands for the large number of deleted folders
NotTold == -1
FolderRecord(row) == IF row.deleted THEN DeletedPosition ELSE row.position

FoldersInit ==
  /\ chatFolders = NoRows /\ edited = NoRows /\ sent = NoRows
  /\ folderStorage = [f \in ChatFolder |-> NotTold]
  /\ ensuring = FALSE
  /\ shown = {} /\ kept = TRUE /\ overtaken = FALSE

IsCurrent(row)   == row.there /\ ~row.deleted
CurrentOf(table) == {f \in ChatFolder : IsCurrent(table[f])}
\* ORDER BY position: which folder comes ahead of which; two at one position in any order.
getCurrentChatFolders(table) ==
  {e \in CurrentOf(table) \X CurrentOf(table) : table[e[1]].position <= table[e[2]].position}
hasAllChatsChatFolder == \E f \in CurrentOf(chatFolders) : chatFolders[f].all
AtPosition(p) == {f \in CurrentOf(chatFolders) : chatFolders[f].position = p}
\* Ids are UUIDs: one that the client still has in hand is not made again.
FreshId(f) == ~chatFolders[f].there /\ ~edited[f].there /\ ~sent[f].there
\* Storage jobs run one after the other: none merges records while one uploads.
NoUpload == \A f \in ChatFolder : ~sent[f].there

OrderOf(number)    == {e \in (DOMAIN number) \X (DOMAIN number) : number[e[1]] <= number[e[2]]}
OrderWithout(F, order) == {e \in order : e[1] \notin F /\ e[2] \notin F}
\* The place of a folder that is put at position p.
ShownAt(f, p, order) ==
  order \cup {<<f, f>>}
        \cup {<<g, f>> : g \in {h \in ChatFolder : <<h, h>> \in order /\ chatFolders[h].position < p}}
        \cup {<<f, g>> : g \in {h \in ChatFolder : <<h, h>> \in order /\ chatFolders[h].position >= p}}

Shows(order, still) == kept' = still /\ shown' = IF still THEN order ELSE {}

\* The current folders, in order, take the positions from first on.
Numberings(table, first) ==
  {number \in [CurrentOf(table) -> first..MaxPosition] :
     /\ \A f, g \in CurrentOf(table) :
          /\ f # g => number[f] # number[g]
          /\ table[f].position < table[g].position => number[f] < number[g]
     /\ \A f \in CurrentOf(table) :
          number[f] > first => \E g \in CurrentOf(table) : number[g] = number[f] - 1}
NumberedUnflagged(table, number) ==
  [f \in ChatFolder |-> IF f \in DOMAIN number THEN [table[f] EXCEPT !.position = number[f]] ELSE table[f]]
Numbered(table, number) ==
  [f \in ChatFolder |->
     IF f \in DOMAIN number THEN [table[f] EXCEPT !.position = number[f], !.needsSync = TRUE] ELSE table[f]]
----------------------------------------------------------------------------
\* The user's new folder, flagged, or one of another device, at the position it has
\* there.
createChatFolder(f, p, local) ==
  /\ FreshId(f) /\ (local \/ NoUpload)
  /\ chatFolders' = [chatFolders EXCEPT ![f] = NewFolder(FALSE, p, local)]
  /\ folderStorage' = IF local THEN folderStorage ELSE [folderStorage EXCEPT ![f] = p]
  /\ Shows(ShownAt(f, p, shown), kept /\ AtPosition(p) = {})
  /\ UNCHANGED <<edited, sent, ensuring, overtaken>>

AskForAllChats ==
  /\ ~ensuring /\ ~hasAllChatsChatFolder
  /\ ensuring' = TRUE
  /\ UNCHANGED <<chatFolders, edited, sent, folderStorage, shown, kept, overtaken>>

\* It takes position 0; the others, numbered by resetPositions, 1 and following.
createAllChatsChatFolder(f) ==
  /\ ensuring /\ FreshId(f)
  /\ \E number \in Numberings(chatFolders, 1) :
       /\ chatFolders' = [Numbered(chatFolders, number) EXCEPT ![f] = NewFolder(TRUE, 0, TRUE)]
       /\ Shows(ShownAt(f, 0, IF kept THEN shown ELSE OrderOf(number)), TRUE)
  /\ ensuring' = FALSE
  /\ UNCHANGED <<edited, sent, folderStorage, overtaken>>

\* The all-chats folder of the storage service replaces the one that is there, id
\* and all.  A second row of that type makes the UPDATE fail on the primary key.
upsertAllChatsChatFolderFromSync(f, p) ==
  LET alls == {g \in CurrentOf(chatFolders) : chatFolders[g].all} IN
  /\ NoUpload /\ Cardinality(alls) <= 1
  /\ FreshId(f) \/ f \in alls
  /\ chatFolders' = [g \in ChatFolder |-> IF g = f THEN NewFolder(TRUE, p, FALSE)
                                          ELSE IF g \in alls THEN NoFolder ELSE chatFolders[g]]
  /\ folderStorage' = [folderStorage EXCEPT ![f] = p]
  /\ Shows(ShownAt(f, p, OrderWithout(alls, shown)), kept /\ AtPosition(p) \subseteq alls)
  /\ overtaken' = (overtaken \/ ensuring)
  /\ UNCHANGED <<edited, sent, ensuring>>
----------------------------------------------------------------------------
\* updateChatFolder: every column, from the row of the caller; nothing if it is gone.
\* The positions and deletions of the table stay in order if the caller's are those
\* of the table.
RowWritten(f, row) ==
  /\ chatFolders' = [chatFolders EXCEPT ![f] = IF @.there THEN row ELSE @]
  /\ Shows(shown, kept /\ (chatFolders[f].there => row.position = chatFolders[f].position
                                                  /\ row.deleted = chatFolders[f].deleted))

\* The user opens a folder to edit it, one at a time, and saves it or not.
BeginEdit(f) ==
  /\ f \in CurrentOf(chatFolders)
  /\ edited' = [NoRows EXCEPT ![f] = [chatFolders[f] EXCEPT !.needsSync = TRUE]]
  /\ UNCHANGED <<chatFolders, sent, folderStorage, ensuring, kept, shown, overtaken>>
updateChatFolder(f) ==
  /\ edited[f].there
  /\ RowWritten(f, edited[f])
  /\ edited' = NoRows
  /\ UNCHANGED <<sent, folderStorage, ensuring, overtaken>>

\* A chat is added to a folder or taken out: read and written in one transaction.
updateChatFolderToggleChat(f) ==
  /\ chatFolders[f].there
  /\ chatFolders' = [chatFolders EXCEPT ![f].needsSync = TRUE]
  /\ UNCHANGED <<edited, sent, folderStorage, ensuring, kept, shown, overtaken>>

\* A storage job reads all rows and uploads the flagged ones.
BeginFolderUpload ==
  /\ NoUpload
  /\ sent' = [f \in ChatFolder |-> IF chatFolders[f].needsSync THEN chatFolders[f] ELSE NoFolder]
  /\ UNCHANGED <<chatFolders, edited, folderStorage, ensuring, kept, shown, overtaken>>
\* The answer, or the client, may be lost after the service took the record.
FolderUploaded(f) ==
  /\ sent[f].there
  /\ sent' = [sent EXCEPT ![f] = NoFolder]
  /\ folderStorage' = [folderStorage EXCEPT ![f] = FolderRecord(sent[f])]
  /\ RowWritten(f, [sent[f] EXCEPT !.needsSync = FALSE])
  /\ UNCHANGED <<edited, ensuring, overtaken>>
FolderUploadLost(f, taken) ==
  /\ sent[f].there
  /\ sent' = [sent EXCEPT ![f] = NoFolder]
  /\ folderStorage' = IF taken THEN [folderStorage EXCEPT ![f] = FolderRecord(sent[f])] ELSE folderStorage
  /\ UNCHANGED <<chatFolders, edited, ensuring, kept, shown, overtaken>>
----------------------------------------------------------------------------
\* A folder is deleted, never that of all chats: the caller says whether it is to be
\* told.  resetPositions.
markChatFolderDeleted(f, flag) ==
  LET marked == [chatFolders EXCEPT ![f].deleted = TRUE, ![f].position = DeletedPosition,
                                    ![f].needsSync = flag]
  IN
  /\ chatFolders[f].there /\ ~chatFolders[f].all /\ (flag \/ NoUpload)
  /\ folderStorage' = IF flag THEN folderStorage ELSE [folderStorage EXCEPT ![f] = DeletedPosition]
  /\ \E number \in Numberings(marked, 0) :
       /\ chatFolders' = Numbered(marked, number)
       /\ Shows(IF kept THEN OrderWithout({f}, shown) ELSE OrderOf(number), TRUE)
  /\ UNCHANGED <<edited, sent, ensuring, overtaken>>

\* Another device deleted it: neither its position nor those of the others change.
updateChatFolderDeletedAtTimestampMsFromSync(f) ==
  /\ chatFolders[f].there /\ ~chatFolders[f].all /\ NoUpload
  /\ chatFolders' = [chatFolders EXCEPT ![f].deleted = TRUE]
  /\ folderStorage' = [folderStorage EXCEPT ![f] = DeletedPosition]
  /\ Shows(OrderWithout({f}, shown), kept)
  /\ UNCHANGED <<edited, sent, ensuring, overtaken>>

\* The user puts some folders in an order, those that the client has listed: a folder
\* that came since is not among them, and one deleted since may be.
updateChatFolderPositions(number) ==
  /\ \A f \in DOMAIN number : chatFolders[f].there
  /\ chatFolders' = Numbered(chatFolders, number)
  /\ Shows(OrderWithout(ChatFolder \ CurrentOf(chatFolders), OrderOf(number)),
           CurrentOf(chatFolders) \subseteq DOMAIN number)
  /\ UNCHANGED <<edited, sent, folderStorage, ensuring, overtaken>>
Orders(F) ==
  {number \in [F -> 0..MaxPosition] :
     /\ \A f, g \in F : f # g => number[f] # number[g]
     /\ \A f \in F : number[f] > 0 => \E g \in F : number[g] = number[f] - 1}

\* Those deleted longer ago than the limit: which ones, time decides.
deleteExpiredChatFolders(expired) ==
  /\ expired # {} /\ \A f \in expired : chatFolders[f].deleted
  /\ chatFolders' = [f \in ChatFolder |-> IF f \in expired THEN NoFolder ELSE chatFolders[f]]
  /\ UNCHANGED <<edited, sent, folderStorage, ensuring, kept, shown, overtaken>>

FoldersNext ==
  \/ \E f \in ChatFolder, p \in 0..MaxPosition :
       \/ \E local \in BOOLEAN : createChatFolder(f, p, local)
       \/ upsertAllChatsChatFolderFromSync(f, p)
  \/ \E f \in ChatFolder :
       \/ createAllChatsChatFolder(f)
       \/ BeginEdit(f) \/ updateChatFolder(f) \/ updateChatFolderToggleChat(f)
       \/ FolderUploaded(f) \/ \E taken \in BOOLEAN : FolderUploadLost(f, taken)
       \/ \E flag \in BOOLEAN : markChatFolderDeleted(f, flag)
       \/ updateChatFolderDeletedAtTimestampMsFromSync(f)
  \/ AskForAllChats \/ BeginFolderUpload
  \/ \E F \in SUBSET ChatFolder : \E number \in Orders(F) : updateChatFolderPositions(number)
  \/ \E expired \in SUBSET ChatFolder : deleteExpiredChatFolders(expired)
FoldersSpec == FoldersInit /\ [][FoldersNext]_folderVars
----------------------------------------------------------------------------
FolderRows == [there : BOOLEAN, all : BOOLEAN, position : 0..DeletedPosition, deleted : BOOLEAN, needsSync : BOOLEAN]
FoldersTypeOK ==
  /\ chatFolders \in [ChatFolder -> FolderRows]
  /\ edited \in [ChatFolder -> FolderRows] /\ sent \in [ChatFolder -> FolderRows]
  /\ folderStorage \in [ChatFolder -> -1..DeletedPosition]
  /\ ensuring \in BOOLEAN /\ kept \in BOOLEAN /\ overtaken \in BOOLEAN
  /\ shown \subseteq ChatFolder \X ChatFolder

(* However folders come, go and move, here and on other devices, those the *)
(* query returns are the ones the user sees, in the user's order and with   *)
(* no two at one position, unless a folder was put at a taken position or a *)
(* row was written back over a change of its position or deletion, and then *)
(* again from the next numbering on; there is no second folder of all chats *)
(* unless one came from the service between the question and the creation;  *)
(* and over stale writes too, a row that is not flagged stands in the table *)
(* as the storage service has it (sql.js 3903-4025).                        *)
FoldersInOrder ==
  /\ kept => /\ getCurrentChatFolders(chatFolders) = shown
             /\ \A f, g \in CurrentOf(chatFolders) :
                  f # g => chatFolders[f].position # chatFolders[g].position
  /\ ~overtaken => \A f, g \in CurrentOf(chatFolders) : chatFolders[f].all /\ chatFolders[g].all => f = g
  /\ \A f \in ChatFolder :
       chatFolders[f].there /\ ~chatFolders[f].needsSync =>
         folderStorage[f] = FolderRecord(chatFolders[f])
=============================================================================
