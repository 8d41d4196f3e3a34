----------------------------- MODULE CallLinks -----------------------------
(***************************************************************************)
(* Call links (bundles/workers/sql.js) and what the storage service has    *)
(* been told of them.  Only links with an admin key are stored there; one  *)
(* deleted by its admin is marked, uploaded, and only then removed.        *)
(***************************************************************************)
EXTENDS Integers

CONSTANTS
  Link,        \* call links
  DeletesWait  \* the client deletes no link of which an upload is under way

ASSUME LinksAssumption == DeletesWait \in BOOLEAN

VARIABLES
  callLinks,     \* table callLinks: link -> [there, adminKey, deleted, hasID, needsSync]
  linkUploading, \* per link, the record the client is uploading
  linkStorage    \* per link, what the storage service holds
linkVars == <<callLinks, linkUploading, linkStorage>>

NoLink == [there |-> FALSE, adminKey |-> FALSE, deleted |-> FALSE, hasID |-> FALSE, needsSync |-> FALSE]
LinkRecords == {"none", "listed", "deleted"}

LinksInit ==
  /\ callLinks = [l \in Link |-> NoLink]
  /\ linkUploading = [l \in Link |-> "none"]
  /\ linkStorage = [l \in Link |-> "none"]

callLinkExists(l) == callLinks[l].there
MayDelete(l) == DeletesWait => linkUploading[l] = "none"
----------------------------------------------------------------------------
\* A link the user made, or joined without its admin key.
insertCallLink(l, admin) ==
  /\ ~callLinkExists(l) /\ linkStorage[l] # "listed"
  /\ callLinks' = [callLinks EXCEPT ![l] =
                     [NoLink EXCEPT !.there = TRUE, !.adminKey = admin, !.needsSync = admin]]
  /\ UNCHANGED <<linkUploading, linkStorage>>

\* From another device, with its admin key: a row that is there only gets the key.
insertOrUpdateCallLinkFromSync(l) ==
  /\ linkStorage[l] # "deleted"
  /\ callLinks' = [callLinks EXCEPT ![l] =
                     IF callLinkExists(l) THEN [@ EXCEPT !.adminKey = TRUE]
                     ELSE [NoLink EXCEPT !.there = TRUE, !.adminKey = TRUE]]
  /\ UNCHANGED <<linkUploading, linkStorage>>

\* A link without admin key goes, of the others the deletion is to be told first.
Deleted(link) ==
  IF ~link.adminKey THEN NoLink
  ELSE IF link.deleted THEN link
  ELSE [link EXCEPT !.deleted = TRUE, !.needsSync = TRUE]
beginDeleteCallLink(l) ==
  /\ callLinkExists(l) /\ MayDelete(l)
  /\ callLinks' = [callLinks EXCEPT ![l] = Deleted(@)]
  /\ UNCHANGED <<linkUploading, linkStorage>>

beginDeleteAllCallLinks ==
  /\ \A l \in Link : MayDelete(l)
  /\ callLinks' = [l \in Link |-> IF callLinkExists(l) THEN Deleted(callLinks[l]) ELSE NoLink]
  /\ UNCHANGED <<linkUploading, linkStorage>>

\* Another device deleted it: deleteCallLinkFromSync, deleteCallLinkAndHistory.
deleteCallLinkFromSync(l) ==
  /\ callLinkExists(l) /\ MayDelete(l)
  /\ linkStorage' = [linkStorage EXCEPT ![l] = "deleted"]
  /\ callLinks' = [callLinks EXCEPT ![l] = NoLink]
  /\ UNCHANGED linkUploading

finalizeAny(link)      == link.deleted
finalizeIfSynced(link) == link.deleted /\ ~link.needsSync
finalizeDeleteCallLink(l) ==
  /\ finalizeIfSynced(callLinks[l])
  /\ callLinks' = [callLinks EXCEPT ![l] = NoLink]
  /\ UNCHANGED <<linkUploading, linkStorage>>

\* removeAll, when the account is unlinked.
removeAllCallLinks ==
  /\ callLinks' = [l \in Link |-> NoLink]
  /\ linkUploading' = [l \in Link |-> "none"]
  /\ linkStorage' = [l \in Link |-> "none"]
----------------------------------------------------------------------------
\* getAllCallLinkRecordsWithAdminKey: new and flagged ones are uploaded.
LinkRecord(link) == IF link.deleted THEN "deleted" ELSE "listed"
BeginLinkUpload(l) ==
  /\ linkUploading[l] = "none"
  /\ callLinks[l].adminKey /\ (callLinks[l].needsSync \/ ~callLinks[l].hasID)
  /\ linkUploading' = [linkUploading EXCEPT ![l] = LinkRecord(callLinks[l])]
  /\ UNCHANGED <<callLinks, linkStorage>>

\* updateCallLink writes the link as it was read, so with an admin key, and its flag
\* cleared, but not whether it is deleted; the answer, or the client, may be lost after
\* the service took the record.
updateCallLink(l) ==
  callLinks' = [callLinks EXCEPT ![l] =
                  IF callLinkExists(l)
                  THEN [@ EXCEPT !.adminKey = TRUE, !.hasID = TRUE, !.needsSync = FALSE] ELSE @]
EndLinkUpload(l) ==
  /\ linkUploading[l] # "none"
  /\ linkUploading' = [linkUploading EXCEPT ![l] = "none"]
  /\ \/ /\ linkStorage' = [linkStorage EXCEPT ![l] = linkUploading[l]]
        /\ updateCallLink(l)
     \/ /\ linkStorage' \in {linkStorage, [linkStorage EXCEPT ![l] = linkUploading[l]]}
        /\ UNCHANGED callLinks

LinksNext ==
  \/ \E l \in Link :
       \/ \E admin \in BOOLEAN : insertCallLink(l, admin)
       \/ insertOrUpdateCallLinkFromSync(l)
       \/ beginDeleteCallLink(l) \/ deleteCallLinkFromSync(l) \/ finalizeDeleteCallLink(l)
       \/ BeginLinkUpload(l) \/ EndLinkUpload(l)
  \/ beginDeleteAllCallLinks \/ removeAllCallLinks
LinksSpec == LinksInit /\ [][LinksNext]_linkVars
----------------------------------------------------------------------------
LinksTypeOK ==
  /\ callLinks \in [Link -> [there : BOOLEAN, adminKey : BOOLEAN, deleted : BOOLEAN,
                             hasID : BOOLEAN, needsSync : BOOLEAN]]
  /\ linkUploading \in [Link -> LinkRecords] /\ linkStorage \in [Link -> LinkRecords]

(* No deletion is lost: a link that the service still lists is in the      *)
(* table, and if it was deleted here, it is marked to be told, over failed  *)
(* uploads, lost answers and admin keys that arrive meanwhile; one that the *)
(* service does not list is yet to be uploaded (sql.js 3777-3822).          *)
DeletionsAreTold ==
  \A l \in Link : LET link == callLinks[l] IN
    /\ linkStorage[l] = "listed" => link.there /\ (link.deleted => link.needsSync)
    /\ link.adminKey /\ ~link.deleted /\ linkStorage[l] # "listed" => link.needsSync \/ ~link.hasID
=============================================================================
