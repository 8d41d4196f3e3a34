--------------------------- MODULE StorageProofs ----------------------------
(***************************************************************************)
(* Theorems about the records that are synced through the storage service   *)
(* and between devices: call links, sticker packs, pinned messages, folders. *)
(* Each has variables, an invariant and lemmas of its own.                  *)
(***************************************************************************)
EXTENDS CallLinks, StickerPacks, PinnedMessages, ChatFolders, FiniteSetTheorems, DataLemmas, TLAPS

(***************************************************************************)
(* No deletion of a call link is lost, for any set of links, as long as a   *)
(* link is not deleted while an upload of it is under way. What an upload   *)
(* carries must stay true of its row until the answer comes: that is        *)
(* UploadIsCurrent, which DeletesWait buys and finalizeDeleteCallLink       *)
(* keeps, because a row whose upload is under way is not yet told.          *)
(***************************************************************************)

\* Rows grow from nothing: a key, a storage id or a mark needs a row, an id and a
\* listing need the key, and a deletion that was told has an id.
RowGrows ==
  \A l \in Link : LET link == callLinks[l] IN
    /\ link.adminKey \/ link.deleted => link.there
    /\ link.hasID \/ linkStorage[l] = "listed" => link.adminKey
    /\ link.deleted /\ ~link.needsSync => link.hasID

UploadIsCurrent ==
  \A l \in Link : LET link == callLinks[l] IN
    linkUploading[l] # "none" =>
      /\ link.there /\ link.adminKey /\ (link.needsSync \/ ~link.hasID)
      /\ linkUploading[l] = LinkRecord(link)

LinksInv == LinksTypeOK /\ RowGrows /\ UploadIsCurrent /\ DeletionsAreTold

\* At the start no call link is known.
LEMMA LinksStart == LinksInit => LinksInv
BY DEF LinksInit, LinksInv, LinksTypeOK, LinkRecords, NoLink, RowGrows, UploadIsCurrent, DeletionsAreTold

\* New rows, and keys that arrive for rows that are there.
LEMMA InsertKeeps ==
  ASSUME LinksInv, NEW l \in Link, NEW admin \in BOOLEAN,
         insertCallLink(l, admin) \/ insertOrUpdateCallLinkFromSync(l)
  PROVE  LinksInv'
<1>1. CASE insertCallLink(l, admin)
  <2>1. LinksTypeOK'
    BY <1>1 DEF LinksInv, LinksTypeOK, insertCallLink, NoLink
  <2>2. RowGrows' /\ UploadIsCurrent' /\ DeletionsAreTold'
    BY <1>1 DEF LinksInv, LinksTypeOK, RowGrows, UploadIsCurrent, DeletionsAreTold, LinkRecord,
                insertCallLink, callLinkExists, NoLink
  <2>3. QED  BY <2>1, <2>2 DEF LinksInv
<1>2. CASE insertOrUpdateCallLinkFromSync(l)
  <2>1. LinksTypeOK'
    BY <1>2 DEF LinksInv, LinksTypeOK, insertOrUpdateCallLinkFromSync, NoLink
  <2>2. RowGrows' /\ UploadIsCurrent' /\ DeletionsAreTold'
    BY <1>2 DEF LinksInv, LinksTypeOK, RowGrows, UploadIsCurrent, DeletionsAreTold, LinkRecord,
                insertOrUpdateCallLinkFromSync, callLinkExists, NoLink
  <2>3. QED  BY <2>1, <2>2 DEF LinksInv
<1>3. QED  BY <1>1, <1>2

\* A row with the key is marked, one without goes: the service does not list it.
LEMMA DeleteKeeps ==
  ASSUME LinksInv, DeletesWait,
         (\E l \in Link : beginDeleteCallLink(l) \/ deleteCallLinkFromSync(l)) \/ beginDeleteAllCallLinks
  PROVE  LinksInv'
<1>1. CASE \E l \in Link : beginDeleteCallLink(l)
  <2>1. PICK l \in Link : beginDeleteCallLink(l)
    BY <1>1
  <2>2. LinksTypeOK'
    BY <2>1 DEF LinksInv, LinksTypeOK, beginDeleteCallLink, Deleted, NoLink
  <2>3. RowGrows'
    BY <2>1 DEF LinksInv, LinksTypeOK, RowGrows, beginDeleteCallLink, callLinkExists, Deleted, NoLink
  <2>4. UploadIsCurrent'
    BY <2>1 DEF LinksInv, LinksTypeOK, UploadIsCurrent, LinkRecord,
                beginDeleteCallLink, MayDelete, callLinkExists, Deleted, NoLink
  <2>5. DeletionsAreTold'
    BY <2>1 DEF LinksInv, LinksTypeOK, RowGrows, DeletionsAreTold, LinkRecord,
                beginDeleteCallLink, MayDelete, callLinkExists, Deleted, NoLink
  <2>6. QED  BY <2>2, <2>3, <2>4, <2>5 DEF LinksInv
<1>2. CASE \E l \in Link : deleteCallLinkFromSync(l)
  <2>1. PICK l \in Link : deleteCallLinkFromSync(l)
    BY <1>2
  <2>2. LinksTypeOK'
    BY <2>1 DEF LinksInv, LinksTypeOK, LinkRecords, deleteCallLinkFromSync, NoLink
  <2>3. RowGrows' /\ UploadIsCurrent' /\ DeletionsAreTold'
    BY <2>1 DEF LinksInv, LinksTypeOK, RowGrows, UploadIsCurrent, DeletionsAreTold, LinkRecord,
                deleteCallLinkFromSync, MayDelete, NoLink
  <2>4. QED  BY <2>2, <2>3 DEF LinksInv
<1>3. CASE beginDeleteAllCallLinks
  <2>1. LinksTypeOK'
    BY <1>3 DEF LinksInv, LinksTypeOK, beginDeleteAllCallLinks, Deleted, NoLink
  <2>2. \A l \in Link : /\ linkUploading'[l] = "none" /\ linkStorage'[l] = linkStorage[l]
                        /\ callLinks'[l] = IF callLinks[l].there THEN Deleted(callLinks[l]) ELSE NoLink
    BY <1>3 DEF beginDeleteAllCallLinks, MayDelete, callLinkExists
  <2>3. UploadIsCurrent'
    BY <2>2 DEF UploadIsCurrent
  <2>4. \A l \in Link : callLinks[l] \in [there : BOOLEAN, adminKey : BOOLEAN, deleted : BOOLEAN,
                                          hasID : BOOLEAN, needsSync : BOOLEAN]
    BY DEF LinksInv, LinksTypeOK
  <2>5. RowGrows'
    <3> SUFFICES ASSUME NEW l \in Link
                 PROVE  LET link == callLinks'[l] IN
                          /\ link.adminKey \/ link.deleted => link.there
                          /\ link.hasID \/ linkStorage'[l] = "listed" => link.adminKey
                          /\ link.deleted /\ ~link.needsSync => link.hasID
      BY DEF RowGrows
    <3>1. CASE callLinks[l].there /\ callLinks[l].adminKey
      <4>1. PICK old : old = callLinks[l]
        OBVIOUS
      <4>2. PICK new : new = callLinks'[l]
        OBVIOUS
      <4>3. new = IF old.deleted THEN old ELSE [old EXCEPT !.deleted = TRUE, !.needsSync = TRUE]
        BY <2>2, <3>1, <4>1, <4>2 DEF Deleted
      <4>4. new.there /\ new.adminKey /\ new.deleted /\ new.hasID = old.hasID
            /\ (new.needsSync \/ (old.deleted /\ ~old.needsSync))
        BY <2>4, <3>1, <4>1, <4>3
      <4>5. old.deleted /\ ~old.needsSync => old.hasID
        BY <4>1 DEF LinksInv, RowGrows
      <4>6. QED  BY <4>2, <4>4, <4>5
    <3>2. CASE ~(callLinks[l].there /\ callLinks[l].adminKey)
      <4>1. callLinks'[l] = NoLink
        BY <2>2, <3>2 DEF Deleted
      <4>2. linkStorage'[l] # "listed"
        BY <2>2, <3>2 DEF LinksInv, RowGrows
      <4>3. QED  BY <4>1, <4>2 DEF NoLink
    <3>3. QED  BY <3>1, <3>2
  <2>6. DeletionsAreTold'
    <3> SUFFICES ASSUME NEW l \in Link
                 PROVE  LET link == callLinks'[l] IN
                          /\ linkStorage'[l] = "listed" => link.there /\ (link.deleted => link.needsSync)
                          /\ link.adminKey /\ ~link.deleted /\ linkStorage'[l] # "listed"
                               => link.needsSync \/ ~link.hasID
      BY DEF DeletionsAreTold
    <3>1. CASE callLinks[l].there /\ callLinks[l].adminKey
      BY ZenonT(60), <2>2, <2>4, <3>1 DEF LinksInv, DeletionsAreTold, Deleted
    <3>2. CASE ~(callLinks[l].there /\ callLinks[l].adminKey)
      <4>1. callLinks'[l] = NoLink
        BY <2>2, <3>2 DEF Deleted
      <4>2. linkStorage'[l] # "listed"
        BY <2>2, <3>2 DEF LinksInv, RowGrows
      <4>3. QED  BY <4>1, <4>2 DEF NoLink
    <3>3. QED  BY <3>1, <3>2
  <2>7. QED  BY <2>1, <2>3, <2>5, <2>6 DEF LinksInv
<1>4. QED  BY <1>1, <1>2, <1>3

\* Only a deletion that was told is finished, so no upload of the row is under way.
LEMMA FinalizeKeeps ==
  ASSUME LinksInv, (\E l \in Link : finalizeDeleteCallLink(l)) \/ removeAllCallLinks
  PROVE  LinksInv'
<1>1. CASE \E l \in Link : finalizeDeleteCallLink(l)
  <2>1. PICK l \in Link : finalizeDeleteCallLink(l)
    BY <1>1
  <2>2. LinksTypeOK'
    BY <2>1 DEF LinksInv, LinksTypeOK, finalizeDeleteCallLink, NoLink
  <2>3. RowGrows' /\ UploadIsCurrent' /\ DeletionsAreTold'
    BY <2>1 DEF LinksInv, LinksTypeOK, RowGrows, UploadIsCurrent, DeletionsAreTold, LinkRecord,
                finalizeDeleteCallLink, finalizeIfSynced, NoLink
  <2>4. QED  BY <2>2, <2>3 DEF LinksInv
<1>2. CASE removeAllCallLinks
  BY <1>2 DEF removeAllCallLinks, LinksInv, LinksTypeOK, LinkRecords, NoLink, RowGrows,
              UploadIsCurrent, DeletionsAreTold
<1>3. QED  BY <1>1, <1>2

\* A row that the storage service was told of is a row.
LEMMA LinkTold ==
  ASSUME NEW rows, NEW l \in Link,
         rows \in [Link -> [there : BOOLEAN, adminKey : BOOLEAN, deleted : BOOLEAN,
                           hasID : BOOLEAN, needsSync : BOOLEAN]]
  PROVE  [rows EXCEPT ![l] = [rows[l] EXCEPT !.adminKey = TRUE, !.hasID = TRUE, !.needsSync = FALSE]] \in
           [Link -> [there : BOOLEAN, adminKey : BOOLEAN, deleted : BOOLEAN,
                     hasID : BOOLEAN, needsSync : BOOLEAN]]
<1>1. PICK row : row = [rows[l] EXCEPT !.adminKey = TRUE, !.hasID = TRUE, !.needsSync = FALSE]
  OBVIOUS
<1>2. row \in [there : BOOLEAN, adminKey : BOOLEAN, deleted : BOOLEAN, hasID : BOOLEAN, needsSync : BOOLEAN]
  BY <1>1
<1>3. QED  BY <1>1, <1>2

\* What the service takes is what the row says, whether its answer comes or not.
LEMMA UploadKeeps ==
  ASSUME LinksInv, NEW l \in Link, BeginLinkUpload(l) \/ EndLinkUpload(l)
  PROVE  LinksInv'
<1>1. CASE BeginLinkUpload(l)
  BY <1>1 DEF LinksInv, LinksTypeOK, LinkRecords, LinkRecord, RowGrows, UploadIsCurrent,
              DeletionsAreTold, BeginLinkUpload
<1>2. CASE EndLinkUpload(l)
  <2> USE DEF LinksInv, LinksTypeOK, LinkRecord, RowGrows, UploadIsCurrent, DeletionsAreTold
  <2>1. CASE linkStorage' = [linkStorage EXCEPT ![l] = linkUploading[l]] /\ updateCallLink(l)
    <3>1. callLinks[l].there
      BY <1>2 DEF EndLinkUpload
    <3>2. callLinks' = [callLinks EXCEPT ![l] = [@ EXCEPT !.adminKey = TRUE, !.hasID = TRUE, !.needsSync = FALSE]]
      BY <2>1, <3>1 DEF updateCallLink, callLinkExists
    <3>3. LinksTypeOK'
      <4>1. callLinks' \in [Link -> [there : BOOLEAN, adminKey : BOOLEAN, deleted : BOOLEAN,
                                     hasID : BOOLEAN, needsSync : BOOLEAN]]
        BY <3>2, LinkTold
      <4>2. linkUploading' \in [Link -> LinkRecords] /\ linkStorage' \in [Link -> LinkRecords]
        BY <1>2, <2>1 DEF EndLinkUpload, LinkRecords
      <4>3. QED  BY <4>1, <4>2
    <3>4. RowGrows' /\ UploadIsCurrent'
      BY <1>2, <2>1, <3>2 DEF EndLinkUpload
    <3>5. DeletionsAreTold'
      BY <1>2, <2>1, <3>2 DEF EndLinkUpload
    <3>6. QED  BY <3>3, <3>4, <3>5
  <2>2. CASE linkStorage' = [linkStorage EXCEPT ![l] = linkUploading[l]] /\ UNCHANGED callLinks
    <3>1. LinksTypeOK'
      BY <1>2, <2>2 DEF EndLinkUpload, LinkRecords
    <3>2. RowGrows' /\ UploadIsCurrent'
      BY <1>2, <2>2 DEF EndLinkUpload
    <3>3. DeletionsAreTold'
      BY <1>2, <2>2 DEF EndLinkUpload
    <3>4. QED  BY <3>1, <3>2, <3>3
  <2>3. CASE linkStorage' = linkStorage /\ UNCHANGED callLinks
    BY <1>2, <2>3 DEF EndLinkUpload, LinkRecords
  <2>4. QED  BY <1>2, <2>1, <2>2, <2>3 DEF EndLinkUpload
<1>3. QED  BY <1>1, <1>2

\* A link that the service still lists is in the table, marked if it was deleted here,
\* and one that it does not list is yet to be uploaded (sql.js 3714-3827).
THEOREM DeletionsTold ==
  ASSUME DeletesWait
  PROVE  LinksSpec => []DeletionsAreTold
<1>1. LinksInv /\ [LinksNext]_linkVars => LinksInv'
  <2> SUFFICES ASSUME LinksInv, [LinksNext]_linkVars PROVE LinksInv'
    OBVIOUS
  <2>1. CASE LinksNext
    BY <2>1, InsertKeeps, DeleteKeeps, FinalizeKeeps, UploadKeeps DEF LinksNext
  <2>2. CASE UNCHANGED linkVars
    BY <2>2 DEF LinksInv, LinksTypeOK, RowGrows, UploadIsCurrent, DeletionsAreTold, linkVars
  <2>3. QED  BY <2>1, <2>2
<1>2. LinksInv => DeletionsAreTold
  BY DEF LinksInv
<1>3. QED  BY LinksStart, <1>1, <1>2, PTL DEF LinksSpec

----------------------------------------------------------------------------
(***************************************************************************)
(* Sticker packs: the storage service knows what is installed. The same of  *)
(* an upload under way, with the flag that has it corrected: an install or  *)
(* an uninstall that comes meanwhile sets that flag, and so brings back a   *)
(* pack that went astray, whatever is under way for it.                     *)
(***************************************************************************)

\* What an upload carries is still true of its pack, or flagged to be corrected.
PackUploadIsCurrent ==
  \A p \in Pack \ astray :
    /\ uploading[p] = "installed" => Installed(p) \/ uninstalled[p] = "needsSync"
    /\ uploading[p] = "removed" /\ Installed(p) => packs[p].needsSync \/ ~packs[p].hasID

PackRecord == [status : {"absent", "downloaded", "installed"}, hasID : BOOLEAN, needsSync : BOOLEAN]
StickersInv == StickersTypeOK /\ PackUploadIsCurrent /\ StorageKnowsPacks

\* At the start no sticker pack is known.
LEMMA StickersStart == StickersInit => StickersInv
BY DEF StickersInit, StickersInv, StickersTypeOK, Records, NoPack, Installed, PackUploadIsCurrent,
       StorageKnowsPacks

\* A row of a pack and its entry may change, as long as a pack that is not astray after
\* the change keeps both facts.
LEMMA PackKeeps ==
  ASSUME StickersInv, NEW p \in Pack, NEW row \in PackRecord, NEW entry \in {"no", "told", "needsSync"},
         packs' = [packs EXCEPT ![p] = row], uninstalled' = [uninstalled EXCEPT ![p] = entry],
         references' \subseteq RefMessage \X Pack, uploading' = uploading, storage' = storage,
         astray' \subseteq Pack, astray \subseteq astray' \cup {p},
         p \notin astray' =>
           /\ uploading[p] = "installed" \/ storage[p] = "installed" =>
                row.status = "installed" \/ entry = "needsSync"
           /\ uploading[p] = "removed" \/ storage[p] # "installed" =>
                (row.status = "installed" => row.needsSync \/ ~row.hasID)
           /\ row.status = "installed" => entry = "no"
  PROVE  StickersInv'
<1> USE DEF StickersInv, PackRecord, Installed
<1>1. StickersTypeOK'
  BY DEF StickersTypeOK
<1>2. /\ packs'[p] = row /\ uninstalled'[p] = entry
      /\ \A q \in Pack \ {p} : packs'[q] = packs[q] /\ uninstalled'[q] = uninstalled[q]
                               /\ (q \notin astray' => q \notin astray)
  BY DEF StickersTypeOK
<1>3. PackUploadIsCurrent'
  BY <1>2 DEF PackUploadIsCurrent
<1>4. StorageKnowsPacks'
  BY <1>2 DEF StorageKnowsPacks
<1>5. QED  BY <1>1, <1>3, <1>4

\* The row and the entry of a pack have their types, and what is kept of each.
LEMMA PackFields ==
  ASSUME StickersInv, NEW p \in Pack
  PROVE  /\ packs[p] \in PackRecord /\ uninstalled[p] \in {"no", "told", "needsSync"}
         /\ packs = [packs EXCEPT ![p] = packs[p]]
         /\ uninstalled = [uninstalled EXCEPT ![p] = uninstalled[p]]
         /\ references \subseteq RefMessage \X Pack /\ astray \subseteq Pack
         /\ p \notin astray =>
              /\ uploading[p] = "installed" \/ storage[p] = "installed" =>
                   Installed(p) \/ uninstalled[p] = "needsSync"
              /\ uploading[p] = "removed" \/ storage[p] # "installed" =>
                   (Installed(p) => packs[p].needsSync \/ ~packs[p].hasID)
              /\ Installed(p) => uninstalled[p] = "no"
BY DEF StickersInv, StickersTypeOK, PackRecord, PackUploadIsCurrent, StorageKnowsPacks

\* A row written with a status of the caller: astray if that makes a difference.
LEMMA StatusKeeps ==
  ASSUME StickersInv, NEW p \in Pack, NEW status \in Statuses,
         createOrUpdateStickerPack(p, status) \/ updateStickerPackStatus(p, status)
  PROVE  StickersInv'
<1>1. PICK old \in PackRecord : old = packs[p]
  BY PackFields
<1>2. CASE HasPack(p)
  <2>1. PICK row : row = [old EXCEPT !.status = status]
    OBVIOUS
  <2>2. row \in PackRecord /\ row.status = status /\ row.needsSync = old.needsSync /\ row.hasID = old.hasID
    BY <2>1 DEF PackRecord, Statuses
  <2>3. packs' = [packs EXCEPT ![p] = row]
    BY <1>1, <1>2, <2>1, PackFields
       DEF createOrUpdateStickerPack, updateStickerPackStatus, StatusWritten, PackRecord
  <2>4. /\ UNCHANGED <<references, uninstalled, uploading, storage>>
        /\ Astray(p, Installed(p) # (status = "installed"))
    BY <1>2 DEF createOrUpdateStickerPack, updateStickerPackStatus
  <2>5. /\ astray' \subseteq Pack /\ astray \subseteq astray'
        /\ p \notin astray' => (old.status = "installed" <=> status = "installed")
    BY <1>1, <2>4, PackFields DEF Astray, Installed
  <2>6. /\ uninstalled[p] \in {"no", "told", "needsSync"}
        /\ uninstalled' = [uninstalled EXCEPT ![p] = uninstalled[p]]
        /\ references' \subseteq RefMessage \X Pack
    BY <2>4, PackFields
  <2>7. p \notin astray' =>
          /\ uploading[p] = "installed" \/ storage[p] = "installed" =>
               row.status = "installed" \/ uninstalled[p] = "needsSync"
          /\ uploading[p] = "removed" \/ storage[p] # "installed" =>
               (row.status = "installed" => row.needsSync \/ ~row.hasID)
          /\ row.status = "installed" => uninstalled[p] = "no"
    BY <1>1, <2>2, <2>5, PackFields DEF Installed
  <2>8. QED  BY <2>2, <2>3, <2>4, <2>5, <2>6, <2>7, PackKeeps
<1>3. CASE ~HasPack(p) /\ createOrUpdateStickerPack(p, status)
  <2>1. PICK row : row = [NoPack EXCEPT !.status = status]
    OBVIOUS
  <2>2. row \in PackRecord /\ row.status = status /\ ~row.hasID
    BY <2>1 DEF PackRecord, Statuses, NoPack
  <2>3. /\ packs' = [packs EXCEPT ![p] = row]
        /\ UNCHANGED <<references, uninstalled, uploading, storage>>
        /\ Astray(p, Installed(p) # (status = "installed"))
    BY <1>3, <2>1 DEF createOrUpdateStickerPack
  <2>4. ~Installed(p)
    BY <1>3 DEF HasPack, Installed
  <2>5. /\ astray' \subseteq Pack /\ astray \subseteq astray'
        /\ p \notin astray' => status # "installed"
    BY <2>3, <2>4, PackFields DEF Astray
  <2>6. QED  BY <2>2, <2>3, <2>4, <2>5, PackFields, PackKeeps
<1>4. CASE ~HasPack(p) /\ updateStickerPackStatus(p, status)
  <2>1. packs' = [packs EXCEPT ![p] = old]
    BY <1>1, <1>4, PackFields DEF updateStickerPackStatus, StatusWritten, PackRecord
  <2>2. UNCHANGED <<references, uninstalled, uploading, storage, astray>>
    BY <1>4 DEF updateStickerPackStatus, Astray
  <2>3. QED  BY <1>1, <2>1, <2>2, PackFields, PackKeeps DEF Installed
<1>5. QED  BY <1>2, <1>3, <1>4

\* A pack goes by its last reference only if it is not installed; deleted while it is,
\* it is astray.
LEMMA PackGoes ==
  ASSUME StickersInv, NEW p \in Pack,
         deleteStickerPack(p) \/ \E m \in RefMessage : deleteStickerPackReference(m, p)
  PROVE  StickersInv'
<1>1. /\ references' \subseteq references
      /\ astray \subseteq astray' /\ astray' \subseteq Pack
      /\ UNCHANGED <<uninstalled, uploading, storage>>
      /\ packs' = packs \/ (packs' = [packs EXCEPT ![p] = NoPack] /\ (Installed(p) => p \in astray'))
  BY PackFields DEF deleteStickerPack, deleteStickerPackReference, DeletePack, Astray
<1>2. CASE packs' = packs
  BY <1>1, <1>2, PackFields, PackKeeps DEF Installed
<1>3. CASE packs' = [packs EXCEPT ![p] = NoPack] /\ (Installed(p) => p \in astray')
  <2>1. NoPack \in PackRecord /\ NoPack.status = "absent"
    BY DEF NoPack, PackRecord
  <2>2. QED  BY <1>1, <1>3, <2>1, PackFields, PackKeeps
<1>4. QED  BY <1>1, <1>2, <1>3

\* An install flags the pack, an uninstall its entry: the upload in flight is corrected.
LEMMA InstallKeeps ==
  ASSUME StickersInv, NEW p \in Pack, installStickerPack(p) \/ uninstallStickerPack(p)
  PROVE  StickersInv'
<1>1. PICK old \in PackRecord : old = packs[p]
  BY PackFields
<1>2. CASE installStickerPack(p)
  <2>1. PICK flag \in BOOLEAN : flag <=> (old.needsSync \/ ~Installed(p))
    OBVIOUS
  <2>2. PICK row : row = IF HasPack(p)
                         THEN [old EXCEPT !.status = "installed", !.needsSync = old.needsSync \/ ~Installed(p)]
                         ELSE old
    OBVIOUS
  <2>3. /\ row \in PackRecord
        /\ HasPack(p) => row.status = "installed" /\ row.needsSync = flag /\ row.hasID = old.hasID
        /\ ~HasPack(p) => row.status = "absent"
    <3>1. flag = (old.needsSync \/ ~Installed(p))
      BY <2>1 DEF PackRecord
    <3>2. row = IF HasPack(p) THEN [old EXCEPT !.status = "installed", !.needsSync = flag] ELSE old
      BY <2>2, <3>1
    <3>3. QED  BY <1>1, <3>2 DEF PackRecord, HasPack
  <2>4. packs' = [packs EXCEPT ![p] = IF HasPack(p)
                                      THEN [packs[p] EXCEPT !.status = "installed",
                                                            !.needsSync = packs[p].needsSync \/ ~Installed(p)]
                                      ELSE packs[p]]
    BY <1>2 DEF installStickerPack
  <2>5. packs' = [packs EXCEPT ![p] = row]
    BY <1>1, <2>2, <2>4
  <2>6. /\ uninstalled' = [uninstalled EXCEPT ![p] = "no"]
        /\ UNCHANGED <<references, uploading, storage>>
        /\ IF HasPack(p) /\ ~Installed(p) THEN astray' = astray \ {p}
           ELSE Astray(p, ~HasPack(p) /\ uninstalled[p] = "needsSync")
    BY <1>2 DEF installStickerPack
  <2>7. astray' \subseteq Pack /\ astray \subseteq astray' \cup {p}
    BY <2>6, PackFields DEF Astray
  <2>8. CASE HasPack(p) /\ ~Installed(p)
    BY <2>1, <2>3, <2>5, <2>6, <2>7, <2>8, PackFields, PackKeeps
  <2>9. CASE ~HasPack(p)
    <3>1. ~Installed(p) /\ (p \notin astray' => p \notin astray /\ uninstalled[p] # "needsSync")
      BY <2>6, <2>9 DEF Astray, HasPack, Installed
    <3>2. QED  BY <2>3, <2>5, <2>6, <2>7, <2>9, <3>1, PackFields, PackKeeps
  <2>10. CASE Installed(p)
    <3>1. HasPack(p) /\ astray' = astray
      BY <2>6, <2>10 DEF Astray, HasPack, Installed
    <3>2. row.needsSync = old.needsSync
      BY <2>1, <2>3, <2>10, <3>1 DEF PackRecord
    <3>3. QED  BY <1>1, <2>3, <2>5, <2>6, <2>7, <2>10, <3>1, <3>2, PackFields, PackKeeps
  <2>11. QED  BY <2>8, <2>9, <2>10
<1>3. CASE uninstallStickerPack(p)
  <2>1. PICK row : row = IF HasPack(p) THEN [NoPack EXCEPT !.status = "downloaded"] ELSE old
    OBVIOUS
  <2>2. row \in PackRecord /\ row.status # "installed"
    BY <1>1, <2>1 DEF PackRecord, HasPack, NoPack
  <2>3. PICK entry : entry = IF Installed(p) THEN "needsSync" ELSE "told"
    OBVIOUS
  <2>4. /\ packs' = [packs EXCEPT ![p] = row] /\ uninstalled' = [uninstalled EXCEPT ![p] = entry]
        /\ UNCHANGED <<references, uploading, storage>>
        /\ IF Installed(p) THEN astray' = astray \ {p} ELSE Astray(p, uninstalled[p] = "needsSync")
    BY <1>1, <1>3, <2>1, <2>3 DEF uninstallStickerPack
  <2>5. /\ astray' \subseteq Pack /\ astray \subseteq astray' \cup {p}
        /\ ~Installed(p) /\ p \notin astray' => p \notin astray /\ uninstalled[p] # "needsSync"
    BY <2>4, PackFields DEF Astray
  <2>6. QED  BY <2>2, <2>3, <2>4, <2>5, PackFields, PackKeeps
<1>4. QED  BY <1>2, <1>3

\* An entry for a pack that is installed, or over a removal to be told, leads it astray.
LEMMA EntryKeeps ==
  ASSUME StickersInv, NEW p \in Pack, NEW flag \in BOOLEAN, addUninstalledStickerPack(p, flag)
  PROVE  StickersInv'
<1>1. PICK entry : entry = IF flag THEN "needsSync" ELSE "told"
  OBVIOUS
<1>2. /\ uninstalled' = [uninstalled EXCEPT ![p] = entry]
      /\ UNCHANGED <<packs, references, uploading, storage>>
      /\ Astray(p, Installed(p) \/ (~flag /\ uninstalled[p] = "needsSync"))
  BY <1>1 DEF addUninstalledStickerPack
<1>3. /\ astray' \subseteq Pack /\ astray \subseteq astray'
      /\ p \notin astray' => ~Installed(p) /\ (~flag => uninstalled[p] # "needsSync")
  BY <1>2, PackFields DEF Astray
<1>4. QED  BY <1>1, <1>2, <1>3, PackFields, PackKeeps DEF Installed

\* A reference changes nothing that the service is told of.
LEMMA ReferenceKeeps ==
  ASSUME StickersInv, NEW p \in Pack, NEW m \in RefMessage, addStickerPackReference(m, p)
  PROVE  StickersInv'
BY PackFields, PackKeeps DEF addStickerPackReference, Installed

\* So is a pack's.
LEMMA PackTold ==
  ASSUME NEW old \in PackRecord, NEW known \in BOOLEAN, NEW row,
         row = IF known THEN [old EXCEPT !.hasID = TRUE, !.needsSync = FALSE] ELSE old
  PROVE  row \in PackRecord /\ row.status = old.status
BY DEF PackRecord

\* An upload tells the storage service of the packs it read.
LEMMA PackUploadKeeps ==
  ASSUME StickersInv, NEW p \in Pack, BeginUpload(p) \/ EndUpload(p)
  PROVE  StickersInv'
<1> USE DEF StickersInv, StickersTypeOK, Records, Installed, PackUploadIsCurrent, StorageKnowsPacks
<1>1. CASE BeginUpload(p)
  <2>1. /\ uninstalled[p] = "needsSync" => uploading'[p] = "removed"
        /\ uninstalled[p] # "needsSync" => packs[p].status = "installed" /\ uploading'[p] = "installed"
        /\ uploading' \in [Pack -> Records]
        /\ \A q \in Pack \ {p} : uploading'[q] = uploading[q]
        /\ UNCHANGED <<packs, references, uninstalled, storage, astray>>
    BY <1>1 DEF BeginUpload, PendingRecord
  <2>2. QED  BY <2>1
<1>2. CASE EndUpload(p)
  <2>1. /\ uploading' = [uploading EXCEPT ![p] = "none"]
        /\ UNCHANGED <<references, astray>> /\ uploading[p] # "none"
    BY <1>2 DEF EndUpload
  <2>2. CASE /\ storage' = [storage EXCEPT ![p] = "removed"] /\ uploading[p] = "removed"
             /\ uninstalled' = [uninstalled EXCEPT ![p] = IF @ = "no" THEN @ ELSE "told"]
             /\ UNCHANGED packs
    <3>1. StickersTypeOK'
      BY <2>1, <2>2
    <3>2. PackUploadIsCurrent' /\ StorageKnowsPacks'
      BY <2>1, <2>2
    <3>3. QED  BY <3>1, <3>2
  <2>3. CASE /\ storage' = [storage EXCEPT ![p] = "installed"] /\ uploading[p] = "installed"
             /\ packs' = [packs EXCEPT ![p] = IF HasPack(p) THEN [@ EXCEPT !.hasID = TRUE, !.needsSync = FALSE]
                                              ELSE @]
             /\ UNCHANGED uninstalled
    <3>1. packs \in [Pack -> PackRecord]
      BY DEF PackRecord
    <3>2. PICK known \in BOOLEAN : known <=> HasPack(p)
      OBVIOUS
    <3>3. PICK row : row = IF known THEN [packs[p] EXCEPT !.hasID = TRUE, !.needsSync = FALSE] ELSE packs[p]
      OBVIOUS
    <3>4. row \in PackRecord /\ row.status = packs[p].status
      BY <3>1, <3>3, PackTold
    <3>5. packs' = [packs EXCEPT ![p] = row]
      BY <2>3, <3>2, <3>3
    <3>6. packs' \in [Pack -> PackRecord]
      BY <3>1, <3>4, <3>5
    <3>7. /\ \A q \in Pack : packs'[q].status = packs[q].status
          /\ \A q \in Pack \ {p} : packs'[q] = packs[q]
      BY <3>1, <3>4, <3>5
    <3>8. storage'[p] = "installed" /\ uploading'[p] = "none"
      BY <2>1, <2>3
    <3>9. StickersTypeOK'
      BY <2>1, <2>3, <3>6 DEF PackRecord
    <3>10. PackUploadIsCurrent' /\ StorageKnowsPacks'
      BY <2>1, <2>3, <3>7, <3>8
    <3>11. QED  BY <3>9, <3>10
  <2>4. CASE /\ storage' \in {storage, [storage EXCEPT ![p] = uploading[p]]}
             /\ UNCHANGED <<packs, uninstalled>>
    <3>1. StickersTypeOK'
      BY <2>1, <2>4
    <3>2. PackUploadIsCurrent' /\ StorageKnowsPacks'
      BY <2>1, <2>4
    <3>3. QED  BY <3>1, <3>2
  <2>5. QED  BY <1>2, <2>1, <2>2, <2>3, <2>4 DEF EndUpload, updateStickerPackStorageInfo
<1>3. QED  BY <1>1, <1>2

\* Every step keeps the invariant.
LEMMA PacksSafe == StickersSpec => []StickersInv
<1>1. StickersInv /\ [StickersNext]_stickerVars => StickersInv'
  <2> SUFFICES ASSUME StickersInv, [StickersNext]_stickerVars PROVE StickersInv'
    OBVIOUS
  <2>1. CASE removeAllStickers
    BY <2>1 DEF removeAllStickers, StickersInv, StickersTypeOK, Records, NoPack, Installed,
                PackUploadIsCurrent, StorageKnowsPacks
  <2>2. CASE StickersNext /\ ~removeAllStickers
    BY <2>2, StatusKeeps, PackGoes, InstallKeeps, EntryKeeps, ReferenceKeeps, PackUploadKeeps DEF StickersNext
  <2>3. CASE UNCHANGED stickerVars
    BY <2>3 DEF StickersInv, StickersTypeOK, Installed, PackUploadIsCurrent, StorageKnowsPacks, stickerVars
  <2>4. QED  BY <2>1, <2>2, <2>3
<1>2. QED  BY StickersStart, <1>1, PTL DEF StickersSpec

\* A pack that the storage service lists is installed or its removal is flagged, one that
\* it does not list is not installed or flagged, and none is installed and in the list of
\* the uninstalled: for any set of packs and any answer, early or late, except of a pack
\* of which one of the named calls has dropped what is to be told, until its next install
\* or uninstall (sql.js 5622-5716, 5751-5830).
THEOREM PacksAreKnown == StickersSpec => []StorageKnowsPacks
<1>1. StickersInv => StorageKnowsPacks
  BY DEF StickersInv
<1>2. QED  BY PacksSafe, <1>1, PTL

----------------------------------------------------------------------------
(***************************************************************************)
(* Pinned messages: the newest of a conversation are kept.                  *)
(***************************************************************************)

\* The newest of a conversation C: R gives the times received, P those that are kept.
Above(C, R, t) == {n \in C : R[n] > t}
IsCut(C, R, P) ==
  \A m \in C : P[m] = IF Cardinality(Above(C, R, R[m])) < PinLimit THEN R[m] ELSE 0
Pinned == [m \in PinMessage |-> pinned[m].at]
TimesOf == [PinMessage -> 0..PinTimes]

\* Finitely many pins are above a given time.
LEMMA AboveFinite ==
  ASSUME NEW C, NEW R, NEW t \in Nat, IsFiniteSet({n \in C : R[n] > 0}), \A n \in C : R[n] \in Nat
  PROVE  IsFiniteSet(Above(C, R, t)) /\ Cardinality(Above(C, R, t)) \in Nat
<1>1. Above(C, R, t) \subseteq {n \in C : R[n] > 0}
  BY DEF Above
<1>2. IsFiniteSet(Above(C, R, t))
  BY <1>1, FS_Subset
<1>3. QED  BY <1>2, FS_CardinalityType

\* A part of a finite set has no more elements than the set.
LEMMA FewerAbove ==
  ASSUME NEW S, NEW T, IsFiniteSet(T), S \subseteq T
  PROVE  IsFiniteSet(S) /\ Cardinality(S) \in Nat /\ Cardinality(T) \in Nat
         /\ Cardinality(S) <= Cardinality(T)
BY FS_Subset, FS_CardinalityType

\* Above any time, what is kept is what was received, or at least the limit.
LEMMA KeptAbove ==
  ASSUME NEW C \in SUBSET PinMessage, NEW R \in TimesOf, NEW P \in TimesOf,
         IsFiniteSet({n \in C : R[n] > 0}), IsCut(C, R, P), NEW t \in Nat
  PROVE  /\ Above(C, P, t) \subseteq Above(C, R, t)
         /\ Cardinality(Above(C, R, t)) < PinLimit => Above(C, P, t) = Above(C, R, t)
         /\ Cardinality(Above(C, R, t)) >= PinLimit => Cardinality(Above(C, P, t)) >= PinLimit
<1> DEFINE Bad == {n \in C : R[n] > t /\ P[n] # R[n]}
<1>1. PinTimes \in Nat /\ PinLimit \in Nat /\ \A n \in C : R[n] \in Nat /\ R[n] <= PinTimes /\ P[n] \in Nat
  BY PinsAssumption DEF TimesOf
<1>2. IsFiniteSet(Above(C, R, t)) /\ Cardinality(Above(C, R, t)) \in Nat
  BY <1>1, AboveFinite
<1>3. \A n \in C : P[n] = R[n] \/ P[n] = 0
  BY DEF IsCut
<1>4. Above(C, P, t) \subseteq Above(C, R, t)
  BY <1>1, <1>3 DEF Above
<1>5. CASE Bad = {}
  <2>1. Above(C, P, t) = Above(C, R, t)
    BY <1>4, <1>5 DEF Above
  <2>2. QED  BY <1>1, <1>2, <2>1
<1>6. CASE Bad # {}
  <2> DEFINE D == {k \in Nat : \E n \in Bad : k = PinTimes - R[n]}
  <2>1. D # {}
    <3>1. PICK n \in Bad : TRUE
      BY <1>6
    <3>2. PinTimes - R[n] \in Nat
      BY <1>1
    <3>3. PinTimes - R[n] \in D
      BY <3>2
    <3>4. QED  BY <3>3
  <2>2. PICK k \in D : \A j \in D : k <= j
    <3>1. D \in SUBSET Nat
      OBVIOUS
    <3>2. QED  BY <2>1, <3>1, NatLeast
  <2>3. PICK o \in Bad : k = PinTimes - R[o]
    OBVIOUS
  <2>4. \A n \in Bad : R[n] <= R[o]
    <3>1. ASSUME NEW n \in Bad PROVE R[n] <= R[o]
      <4>1. PinTimes - R[n] \in Nat
        BY <1>1
      <4>2. PinTimes - R[n] \in D
        BY <4>1
      <4>3. QED  BY <1>1, <2>2, <2>3, <4>2
    <3>2. QED  BY <3>1
  <2>5. Cardinality(Above(C, R, R[o])) >= PinLimit
    <3>1. ~(Cardinality(Above(C, R, R[o])) < PinLimit)
      BY DEF IsCut
    <3>2. Cardinality(Above(C, R, R[o])) \in Nat
      BY <1>1, AboveFinite
    <3>3. QED  BY <1>1, <3>1, <3>2
  <2>6. Above(C, R, R[o]) \subseteq Above(C, P, t)
    <3>1. SUFFICES ASSUME NEW q \in C, R[q] > R[o] PROVE P[q] > t
      BY DEF Above
    <3>2. R[q] > t /\ q \notin Bad
      BY <1>1, <2>4, <3>1
    <3>3. P[q] = R[q]
      BY <3>2
    <3>4. QED  BY <3>2, <3>3
  <2>7. Cardinality(Above(C, R, R[o])) <= Cardinality(Above(C, P, t)) /\ Cardinality(Above(C, P, t)) \in Nat
        /\ Cardinality(Above(C, R, R[o])) \in Nat
    <3>1. IsFiniteSet(Above(C, P, t))
      BY <1>2, <1>4, FewerAbove
    <3>2. QED  BY <2>6, <3>1, FewerAbove
  <2>8. Cardinality(Above(C, P, t)) <= Cardinality(Above(C, R, t))
    BY <1>2, <1>4, FewerAbove
  <2>9. QED  BY <1>1, <1>2, <1>4, <2>5, <2>7, <2>8
<1>7. QED  BY <1>5, <1>6

\* Whether a time is among the newest only depends on the times above it.
LEMMA CutOf ==
  ASSUME NEW C \in SUBSET PinMessage, NEW R \in TimesOf, NEW P \in TimesOf,
         IsFiniteSet({n \in C : R[n] > 0}), IsCut(C, R, P), NEW n \in C
  PROVE  /\ P[n] = R[n] \/ P[n] = 0
         /\ P[n] # 0 => Cardinality(Above(C, R, R[n])) < PinLimit
         /\ \A o \in C : R[o] > R[n] /\ P[n] # 0 => P[o] = R[o]
<1>1. PinTimes \in Nat /\ PinLimit \in Nat /\ \A q \in C : R[q] \in Nat /\ P[q] \in Nat
  BY PinsAssumption DEF TimesOf
<1>2. P[n] = IF Cardinality(Above(C, R, R[n])) < PinLimit THEN R[n] ELSE 0
  BY DEF IsCut
<1>3. ASSUME NEW o \in C, R[o] > R[n], P[n] # 0 PROVE P[o] = R[o]
  <2>1. Above(C, R, R[o]) \subseteq Above(C, R, R[n])
    BY <1>1, <1>3 DEF Above
  <2>2. IsFiniteSet(Above(C, R, R[n]))
    BY <1>1, AboveFinite
  <2>3. Cardinality(Above(C, R, R[o])) <= Cardinality(Above(C, R, R[n]))
        /\ Cardinality(Above(C, R, R[o])) \in Nat /\ Cardinality(Above(C, R, R[n])) \in Nat
    BY <2>1, <2>2, FewerAbove
  <2>4. Cardinality(Above(C, R, R[o])) < PinLimit
    BY <1>1, <1>2, <1>3, <2>3
  <2>5. QED  BY <2>4 DEF IsCut
<1>4. QED  BY <1>2, <1>3

\* Adding a pin and truncating leaves the newest pins.
LEMMA TruncateCuts ==
  ASSUME NEW C \in SUBSET PinMessage, NEW R \in TimesOf, NEW P \in TimesOf,
         IsFiniteSet({n \in C : R[n] > 0}), IsCut(C, R, P),
         NEW m \in C, NEW at \in 1..PinTimes, R[m] # at,
         NEW T \in TimesOf, \A n \in C \ {m} : T[n] = P[n],
         T[m] = IF P[m] = 0 \/ at > P[m] THEN at ELSE P[m],
         NEW R2 \in TimesOf, \A n \in C \ {m} : R2[n] = R[n],
         R2[m] = IF at > R[m] THEN at ELSE R[m],
         IsFiniteSet({n \in C : R2[n] > 0}),
         NEW P2 \in TimesOf,
         \A n \in C : P2[n] = IF T[n] # 0 /\ Cardinality(Above(C, T, T[n])) >= PinLimit THEN 0 ELSE T[n]
  PROVE  IsCut(C, R2, P2)
<1>1. PinTimes \in Nat /\ PinLimit \in Nat /\ at \in Nat /\ at > 0
  BY PinsAssumption
<1>2. \A n \in C : R[n] \in Nat /\ P[n] \in Nat /\ T[n] \in Nat /\ R2[n] \in Nat /\ P2[n] \in Nat
  BY <1>1 DEF TimesOf
<1>3. \A n \in C : P[n] = R[n] \/ P[n] = 0
  BY CutOf
<1>4. \A t \in Nat : /\ IsFiniteSet(Above(C, R, t)) /\ Cardinality(Above(C, R, t)) \in Nat
                     /\ IsFiniteSet(Above(C, R2, t)) /\ Cardinality(Above(C, R2, t)) \in Nat
  BY <1>2, AboveFinite
<1>5. \A n \in C : P[n] = 0 /\ R[n] # 0 => Cardinality(Above(C, R, R[n])) >= PinLimit
  <2>1. ASSUME NEW n \in C, P[n] = 0, R[n] # 0 PROVE Cardinality(Above(C, R, R[n])) >= PinLimit
    <3>1. ~(Cardinality(Above(C, R, R[n])) < PinLimit)
      BY <2>1 DEF IsCut
    <3>2. Cardinality(Above(C, R, R[n])) \in Nat
      BY <1>2, <1>4
    <3>3. QED  BY <1>1, <3>1, <3>2
  <2>2. QED  BY <2>1
<1>6. SUFFICES ASSUME NEW n \in C
               PROVE  P2[n] = IF Cardinality(Above(C, R2, R2[n])) < PinLimit THEN R2[n] ELSE 0
  BY DEF IsCut
<1>7. CASE at > R[m]
  <2>1. T[m] = at /\ R2[m] = at
    BY <1>1, <1>2, <1>3, <1>7
  <2>2. CASE n = m
    <3>1. Above(C, R2, at) = Above(C, R, at)
      BY <1>1, <1>2, <1>7, <2>1 DEF Above
    <3>2. Above(C, T, at) = Above(C, P, at)
      BY <1>1, <1>2, <1>3, <1>7, <2>1 DEF Above
    <3>3. /\ Cardinality(Above(C, R, at)) < PinLimit => Above(C, P, at) = Above(C, R, at)
          /\ Cardinality(Above(C, R, at)) >= PinLimit => Cardinality(Above(C, P, at)) >= PinLimit
      BY <1>1, KeptAbove
    <3>4. Cardinality(Above(C, R, at)) \in Nat
      BY <1>1, <1>4
    <3>5. P2[n] = IF Cardinality(Above(C, P, at)) >= PinLimit THEN 0 ELSE at
      BY <1>1, <2>1, <2>2, <3>2
    <3>6. CASE Cardinality(Above(C, R, at)) < PinLimit
      <4>1. ~(Cardinality(Above(C, P, at)) >= PinLimit)
        BY <1>1, <3>3, <3>4, <3>6
      <4>2. QED  BY <2>1, <2>2, <3>1, <3>5, <3>6, <4>1
    <3>7. CASE Cardinality(Above(C, R, at)) >= PinLimit
      <4>1. ~(Cardinality(Above(C, R, at)) < PinLimit)
        BY <1>1, <3>4, <3>7
      <4>2. QED  BY <2>1, <2>2, <3>1, <3>3, <3>5, <3>7, <4>1
    <3>8. QED  BY <1>1, <3>4, <3>6, <3>7
  <2>3. CASE n # m /\ P[n] = 0
    <3>1. P2[n] = 0 /\ R2[n] = R[n]
      BY <1>6, <2>3
    <3>2. CASE R[n] = 0
      BY <3>1, <3>2
    <3>3. CASE R[n] # 0
      <4>1. Above(C, R, R[n]) \subseteq Above(C, R2, R[n])
        BY <1>2, <1>7, <2>1 DEF Above
      <4>2. Cardinality(Above(C, R, R[n])) <= Cardinality(Above(C, R2, R[n]))
        BY <1>2, <1>4, <4>1, FewerAbove
      <4>3. ~(Cardinality(Above(C, R2, R[n])) < PinLimit)
        BY <1>1, <1>2, <1>4, <1>5, <2>3, <3>3, <4>2
      <4>4. QED  BY <3>1, <4>3
    <3>4. QED  BY <3>2, <3>3
  <2>4. CASE n # m /\ P[n] # 0
    <3>1. T[n] = P[n] /\ P[n] = R[n] /\ R2[n] = R[n]
      BY <1>3, <2>4
    <3>2. \A o \in C : R[o] > R[n] => P[o] = R[o]
      BY <2>4, CutOf
    <3>3. ASSUME NEW o \in C PROVE T[o] > R[n] <=> R2[o] > R[n]
      <4>1. CASE o = m
        BY <2>1, <4>1
      <4>2. CASE o # m
        <5>1. T[o] = P[o] /\ R2[o] = R[o]
          BY <4>2
        <5>2. QED  BY <1>2, <1>3, <3>2, <5>1
      <4>3. QED  BY <4>1, <4>2
    <3>4. Above(C, T, R[n]) = Above(C, R2, R[n])
      BY <3>3 DEF Above
    <3>5. P2[n] = IF Cardinality(Above(C, R2, R[n])) >= PinLimit THEN 0 ELSE R[n]
      BY <2>4, <3>1, <3>4
    <3>6. Cardinality(Above(C, R2, R[n])) \in Nat
      BY <1>2, <1>4
    <3>7. (Cardinality(Above(C, R2, R[n])) >= PinLimit) <=> ~(Cardinality(Above(C, R2, R[n])) < PinLimit)
      BY <1>1, <3>6
    <3>8. QED  BY <3>1, <3>5, <3>7
  <2>5. QED  BY <2>2, <2>3, <2>4
<1>8. CASE ~(at > R[m])
  <2>1. R2[m] = R[m] /\ R[m] > at
    BY <1>1, <1>2, <1>8
  <2>2. Above(C, R2, R2[n]) = Above(C, R, R[n]) /\ R2[n] = R[n]
    BY <2>1 DEF Above
  <2>3. P[n] = IF Cardinality(Above(C, R, R[n])) < PinLimit THEN R[n] ELSE 0
    BY DEF IsCut
  <2>4. SUFFICES P2[n] = P[n]
    BY <2>2, <2>3
  <2>5. ASSUME P[n] # 0, Above(C, T, P[n]) \subseteq Above(C, P, P[n])
        PROVE  ~(Cardinality(Above(C, T, P[n])) >= PinLimit)
    <3>1. P[n] = R[n] /\ Cardinality(Above(C, R, R[n])) < PinLimit
      BY <2>3, <2>5
    <3>2. Above(C, P, R[n]) \subseteq Above(C, R, R[n])
      BY <1>2, KeptAbove
    <3>3. Above(C, T, P[n]) \subseteq Above(C, R, R[n])
      BY <2>5, <3>1, <3>2
    <3>4. IsFiniteSet(Above(C, R, R[n])) /\ Cardinality(Above(C, R, R[n])) \in Nat
      BY <1>2, <1>4
    <3>5. /\ Cardinality(Above(C, T, P[n])) <= Cardinality(Above(C, R, R[n]))
          /\ Cardinality(Above(C, T, P[n])) \in Nat
      BY <3>3, <3>4, FewerAbove
    <3>6. QED  BY <1>1, <3>1, <3>4, <3>5
  <2>6. CASE P[m] = 0 \/ at > P[m]
    <3>1. P[m] = 0 /\ T[m] = at
      BY <1>2, <1>3, <2>1, <2>6
    <3>2. CASE n = m
      <4>1. Above(C, R, R[m]) \subseteq Above(C, R, at)
        BY <1>1, <1>2, <2>1 DEF Above
      <4>2. Cardinality(Above(C, R, R[m])) >= PinLimit
        BY <1>1, <1>2, <1>5, <2>1, <3>1
      <4>3. /\ IsFiniteSet(Above(C, R, at)) /\ Cardinality(Above(C, R, at)) \in Nat
            /\ Cardinality(Above(C, R, R[m])) \in Nat
        BY <1>1, <1>2, <1>4
      <4>4. Cardinality(Above(C, R, at)) >= PinLimit
        <5>1. Cardinality(Above(C, R, R[m])) <= Cardinality(Above(C, R, at))
          BY <4>1, <4>3, FewerAbove
        <5>2. QED  BY <1>1, <4>2, <4>3, <5>1
      <4>5. Cardinality(Above(C, P, at)) >= PinLimit
        BY <1>1, <4>4, KeptAbove
      <4>6. Above(C, T, at) = Above(C, P, at)
        BY <1>1, <1>2, <3>1 DEF Above
      <4>7. QED  BY <1>1, <3>1, <3>2, <4>5, <4>6
    <3>3. CASE n # m /\ P[n] # 0
      <4>1. P[n] = R[n] /\ T[n] = P[n]
        BY <1>3, <3>3
      <4>2. ~(R[m] > R[n])
        <5>1. R[m] > R[n] => P[m] = R[m]
          BY <3>3, CutOf
        <5>2. QED  BY <1>1, <1>2, <2>1, <3>1, <5>1
      <4>3. Above(C, T, P[n]) \subseteq Above(C, P, P[n])
        BY <1>1, <1>2, <2>1, <3>1, <4>1, <4>2 DEF Above
      <4>4. QED  BY <2>5, <3>3, <4>1, <4>3
    <3>4. CASE n # m /\ P[n] = 0
      BY <3>4
    <3>5. QED  BY <3>2, <3>3, <3>4
  <2>7. CASE ~(P[m] = 0 \/ at > P[m])
    <3>1. \A o \in C : T[o] = P[o]
      BY <2>7
    <3>2. Above(C, T, P[n]) \subseteq Above(C, P, P[n])
      BY <3>1 DEF Above
    <3>3. CASE P[n] = 0
      BY <3>1, <3>3
    <3>4. CASE P[n] # 0
      BY <2>5, <3>1, <3>2, <3>4
    <3>5. QED  BY <3>3, <3>4
  <2>8. QED  BY <2>6, <2>7
<1>9. QED  BY <1>7, <1>8

PinsTyped ==
  /\ pinned \in [PinMessage -> [at : 0..PinTimes, expires : BOOLEAN]]
  /\ \A m \in PinMessage : pinned[m].at = 0 => pinned[m] = NotPinned
  /\ received \in TimesOf
  /\ pinSent \subseteq 1..PinTimes

\* A time that was received was handled, and finitely many messages were ever pinned.
PinsApart ==
  /\ IsFiniteSet({n \in PinMessage : received[n] > 0})
  /\ \A m \in PinMessage : received[m] # 0 => received[m] \in pinSent

PinsCut == \A m \in PinMessage : IsCut(Conversation(m), received, Pinned)
PinsInv == PinsTyped /\ PinsApart /\ PinsCut

\* At the start nothing is pinned.
LEMMA PinsStart == PinsInit => PinsInv
<1> SUFFICES ASSUME PinsInit PROVE PinsInv
  OBVIOUS
<1>1. PinTimes \in Nat /\ 0 \in 0..PinTimes /\ NotPinned.at = 0
  BY PinsAssumption DEF NotPinned
<1>2. PinsTyped
  BY <1>1 DEF PinsInit, PinsTyped, NotPinned, TimesOf
<1>3. PinsApart
  <2>1. {n \in PinMessage : received[n] > 0} = {}
    BY DEF PinsInit
  <2>2. QED  BY <2>1, FS_EmptySet DEF PinsInit, PinsApart
<1>4. PinsCut
  BY <1>1 DEF PinsInit, PinsCut, IsCut, Pinned, Conversation
<1>5. QED  BY <1>2, <1>3, <1>4 DEF PinsInv

\* The pin times of the table are pin times.
LEMMA PinnedTyped ==
  ASSUME PinsTyped
  PROVE  /\ Pinned \in TimesOf /\ \A m \in PinMessage : Pinned[m] = pinned[m].at
         /\ \A m \in PinMessage : pinned[m] \in [at : 0..PinTimes, expires : BOOLEAN]
<1>1. \A m \in PinMessage : pinned[m] \in [at : 0..PinTimes, expires : BOOLEAN]
  BY DEF PinsTyped
<1>2. QED  BY <1>1 DEF Pinned, TimesOf

\* Conversations do not overlap.
LEMMA OneConversation ==
  ASSUME NEW m \in PinMessage
  PROVE  /\ Conversation(m) \in SUBSET PinMessage /\ m \in Conversation(m)
         /\ \A n \in Conversation(m) : Conversation(n) = Conversation(m)
         /\ \A n \in PinMessage \ Conversation(m) : Conversation(n) \cap Conversation(m) = {}
BY DEF Conversation

\* A new pin leaves the newest pins of its conversation.
LEMMA AppendKeeps ==
  ASSUME PinsInv, NEW m \in PinMessage, NEW at \in 1..PinTimes, NEW expires \in BOOLEAN,
         appendPinnedMessage(m, [at |-> at, expires |-> expires])
  PROVE  PinsInv'
<1> DEFINE pin == [at |-> at, expires |-> expires]
           C   == Conversation(m)
<1>1. PinTimes \in Nat /\ at \in Nat /\ at > 0 /\ at \in 0..PinTimes
  BY PinsAssumption
<1>2. PICK table : table = IF IsNewer(pin, pinned[m]) THEN createPinnedMessage(pinned, m, pin) ELSE pinned
  OBVIOUS
<1>3. /\ at \notin pinSent /\ pinSent' = pinSent \cup {at}
      /\ pinned' = truncatePinnedMessages(table, m)
      /\ received' = [received EXCEPT ![m] = IF at > @ THEN at ELSE @]
  BY <1>2 DEF appendPinnedMessage
<1>4. C \in SUBSET PinMessage /\ m \in C
  BY OneConversation
<1>5. PinsTyped /\ received \in TimesOf /\ Pinned \in TimesOf
      /\ \A n \in PinMessage : Pinned[n] = pinned[n].at
  BY PinnedTyped DEF PinsInv, PinsTyped
<1>6. pin \in [at : 0..PinTimes, expires : BOOLEAN] /\ pin.at = at
  BY <1>1
<1>7. \A n \in PinMessage : table[n] = IF n = m /\ IsNewer(pin, pinned[m]) THEN pin ELSE pinned[n]
  <2>1. pinned \in [PinMessage -> [at : 0..PinTimes, expires : BOOLEAN]]
    BY <1>5 DEF PinsTyped
  <2>2. CASE IsNewer(pin, pinned[m])
    BY <1>2, <2>1, <2>2 DEF createPinnedMessage
  <2>3. CASE ~IsNewer(pin, pinned[m])
    BY <1>2, <2>3
  <2>4. QED  BY <2>2, <2>3
<1>8. IsNewer(pin, pinned[m]) <=> (Pinned[m] = 0 \/ at > Pinned[m])
  <2>1. pinned[m] = NotPinned <=> Pinned[m] = 0
    BY <1>5 DEF PinsTyped, NotPinned
  <2>2. QED  BY <1>5, <1>6, <2>1 DEF IsNewer
<1>9. PICK T : T = [n \in PinMessage |-> table[n].at]
  OBVIOUS
<1>10. /\ T \in TimesOf /\ \A n \in PinMessage \ {m} : T[n] = Pinned[n]
       /\ T[m] = IF Pinned[m] = 0 \/ at > Pinned[m] THEN at ELSE Pinned[m]
  <2>1. \A n \in PinMessage \ {m} : T[n] = Pinned[n]
    BY <1>5, <1>7, <1>9
  <2>2. T[m] = IF Pinned[m] = 0 \/ at > Pinned[m] THEN at ELSE Pinned[m]
    BY <1>5, <1>6, <1>7, <1>8, <1>9
  <2>3. \A n \in PinMessage : T[n] \in 0..PinTimes
    BY <1>1, <1>5, <2>1, <2>2 DEF TimesOf
  <2>4. QED  BY <1>9, <2>1, <2>2, <2>3 DEF TimesOf
<1>11. \A n \in PinMessage : table[n] \in [at : 0..PinTimes, expires : BOOLEAN]
       /\ (T[n] = 0 => table[n] = NotPinned) /\ T[n] = table[n].at
  <2>1. \A n \in PinMessage : pinned[n] \in [at : 0..PinTimes, expires : BOOLEAN]
    BY <1>5, PinnedTyped
  <2>2. ASSUME NEW n \in PinMessage
        PROVE  table[n] \in [at : 0..PinTimes, expires : BOOLEAN] /\ (T[n] = 0 => table[n] = NotPinned)
               /\ T[n] = table[n].at
    <3>1. CASE n = m /\ IsNewer(pin, pinned[m])
      BY <1>1, <1>6, <1>7, <1>9, <3>1
    <3>2. CASE ~(n = m /\ IsNewer(pin, pinned[m]))
      BY <1>5, <1>7, <1>9, <2>1, <3>2 DEF PinsTyped
    <3>3. QED  BY <3>1, <3>2
  <2>3. QED  BY <2>2
<1>12. \A n \in PinsIn(table, m) : {o \in PinsIn(table, m) : table[o].at > table[n].at} = Above(C, T, T[n])
  <2>1. ASSUME NEW n \in PinsIn(table, m)
        PROVE  {o \in PinsIn(table, m) : table[o].at > table[n].at} = Above(C, T, T[n])
    <3>1. n \in C /\ T[n] \in Nat
      BY <1>1, <1>4, <1>10 DEF PinsIn, TimesOf
    <3>2. \A o \in C : T[o] = table[o].at /\ T[o] \in Nat /\ (o \in PinsIn(table, m) <=> T[o] # 0)
      BY <1>1, <1>4, <1>9, <1>10 DEF PinsIn, TimesOf
    <3>3. \A o \in PinsIn(table, m) : o \in C
      BY DEF PinsIn
    <3>4. QED  BY <3>1, <3>2, <3>3 DEF Above
  <2>2. QED  BY <2>1
<1>13. \A n \in PinMessage :
         pinned'[n] = IF n \in C /\ T[n] # 0 /\ Cardinality(Above(C, T, T[n])) >= PinLimit
                      THEN NotPinned ELSE table[n]
  <2>1. \A n \in PinMessage : n \in PinsIn(table, m) <=> n \in C /\ T[n] # 0
    BY <1>4, <1>9 DEF PinsIn
  <2>2. QED  BY <1>3, <1>12, <2>1 DEF truncatePinnedMessages
<1>14. NotPinned \in [at : 0..PinTimes, expires : BOOLEAN] /\ NotPinned.at = 0
  BY <1>1 DEF NotPinned
<1>15. pinned' \in [PinMessage -> [at : 0..PinTimes, expires : BOOLEAN]]
  <2>1. \A n \in PinMessage : pinned'[n] \in [at : 0..PinTimes, expires : BOOLEAN]
    BY <1>11, <1>13, <1>14
  <2>2. QED  BY <1>3, <2>1 DEF truncatePinnedMessages
<1>16. /\ received' \in TimesOf /\ \A n \in PinMessage \ {m} : received'[n] = received[n]
       /\ received'[m] = IF at > received[m] THEN at ELSE received[m]
  BY <1>1, <1>3, <1>5 DEF TimesOf
<1>17. \A n \in PinMessage : pinned'[n].at = 0 => pinned'[n] = NotPinned
  BY <1>11, <1>13
<1>18. PinsTyped'
  BY <1>3, <1>5, <1>15, <1>16, <1>17 DEF PinsTyped
<1>19. PinsApart'
  <2>1. {n \in PinMessage : received'[n] > 0} \subseteq {n \in PinMessage : received[n] > 0} \cup {m}
    BY <1>16
  <2>2. IsFiniteSet({n \in PinMessage : received[n] > 0} \cup {m})
    BY FS_AddElement DEF PinsInv, PinsApart
  <2>3. IsFiniteSet({n \in PinMessage : received'[n] > 0})
    BY <2>1, <2>2, FS_Subset
  <2>4. \A n \in PinMessage : received'[n] # 0 => received'[n] \in pinSent'
    BY <1>3, <1>16 DEF PinsInv, PinsApart
  <2>5. QED  BY <2>3, <2>4 DEF PinsApart
<1>20. Pinned' \in TimesOf /\ \A n \in PinMessage : Pinned'[n] = pinned'[n].at
  <2>1. PICK new : new = pinned'
    OBVIOUS
  <2>2. Pinned' = [n \in PinMessage |-> new[n].at]
    BY <2>1 DEF Pinned
  <2>3. \A n \in PinMessage : new[n].at \in 0..PinTimes
    BY <1>15, <2>1
  <2>4. QED  BY <2>1, <2>2, <2>3 DEF TimesOf
<1>21. IsCut(C, received', Pinned')
  <2>1. IsFiniteSet({n \in C : received[n] > 0}) /\ IsFiniteSet({n \in C : received'[n] > 0})
    <3>1. {n \in C : received[n] > 0} \subseteq {n \in PinMessage : received[n] > 0}
      BY <1>4
    <3>2. {n \in C : received'[n] > 0} \subseteq {n \in PinMessage : received'[n] > 0}
      BY <1>4
    <3>3. QED  BY <1>19, <3>1, <3>2, FS_Subset DEF PinsInv, PinsApart
  <2>2. IsCut(C, received, Pinned)
    BY DEF PinsInv, PinsCut
  <2>3. received[m] # at
    BY <1>1, <1>3 DEF PinsInv, PinsApart
  <2>4. \A n \in C : Pinned'[n] = IF T[n] # 0 /\ Cardinality(Above(C, T, T[n])) >= PinLimit
                                  THEN 0 ELSE T[n]
    BY <1>4, <1>11, <1>13, <1>14, <1>20
  <2>5. \A n \in C \ {m} : T[n] = Pinned[n] /\ received'[n] = received[n]
    BY <1>4, <1>10, <1>16
  <2>6. PICK old, new, R, R2 : old = Pinned /\ new = Pinned' /\ R = received /\ R2 = received'
    OBVIOUS
  <2>7. /\ old \in TimesOf /\ new \in TimesOf /\ R \in TimesOf /\ R2 \in TimesOf
        /\ IsFiniteSet({n \in C : R[n] > 0}) /\ IsFiniteSet({n \in C : R2[n] > 0})
        /\ IsCut(C, R, old) /\ R[m] # at
    BY <1>5, <1>16, <1>20, <2>1, <2>2, <2>3, <2>6
  <2>8. /\ \A n \in C \ {m} : T[n] = old[n]
        /\ \A n \in C \ {m} : R2[n] = R[n]
        /\ T[m] = IF old[m] = 0 \/ at > old[m] THEN at ELSE old[m]
        /\ R2[m] = IF at > R[m] THEN at ELSE R[m]
        /\ \A n \in C : new[n] = IF T[n] # 0 /\ Cardinality(Above(C, T, T[n])) >= PinLimit THEN 0 ELSE T[n]
    BY <1>10, <1>16, <2>4, <2>5, <2>6
  <2>9. IsCut(C, R2, new)
    BY <1>4, <1>10, <2>7, <2>8, TruncateCuts
  <2>10. QED  BY <2>6, <2>9
<1>22. PinsCut'
  <2>1. ASSUME NEW n \in PinMessage PROVE IsCut(Conversation(n), received', Pinned')
    <3>1. CASE n \in C
      <4>1. Conversation(n) = C
        BY <3>1, OneConversation
      <4>2. QED  BY <1>21, <4>1
    <3>2. CASE n \notin C
      <4>1. PICK D \in SUBSET PinMessage : D = Conversation(n) /\ D \cap C = {}
        BY <3>2, OneConversation
      <4>2. \A o \in D : received'[o] = received[o]
        BY <1>4, <1>16, <4>1
      <4>3. \A o \in D : Pinned'[o] = Pinned[o]
        <5>1. \A o \in D : pinned'[o] = pinned[o]
          BY <1>4, <1>7, <1>13, <4>1
        <5>2. QED  BY <1>5, <1>20, <4>1, <5>1
      <4>4. IsCut(D, received, Pinned)
        BY <4>1 DEF PinsInv, PinsCut
      <4>5. \A t : Above(D, received', t) = Above(D, received, t)
        BY <4>2 DEF Above
      <4>6. IsCut(D, received', Pinned')
        BY <4>2, <4>3, <4>4, <4>5 DEF IsCut
      <4>7. QED  BY <4>1, <4>6
    <3>3. QED  BY <3>1, <3>2
  <2>2. QED  BY <2>1 DEF PinsCut, Conversation
<1>23. QED  BY <1>18, <1>19, <1>22 DEF PinsInv

\* Pins that are taken off leave the newest of the rest.
LEMMA TakeKeeps ==
  ASSUME PinsInv, NEW taken \in SUBSET PinMessage, Take(taken)
  PROVE  PinsInv'
<1>1. PinsTyped /\ received \in TimesOf /\ Pinned \in TimesOf
      /\ \A n \in PinMessage : Pinned[n] = pinned[n].at
  BY PinnedTyped DEF PinsInv, PinsTyped
<1>2. PinTimes \in Nat /\ PinLimit \in Nat /\ PinLimit > 0
  BY PinsAssumption
<1>3. /\ pinned' = [m \in PinMessage |-> IF m \in taken THEN NotPinned ELSE pinned[m]]
      /\ received' = [m \in PinMessage |->
                        IF Conversation(m) \cap taken # {} THEN pinned'[m].at ELSE received[m]]
      /\ UNCHANGED pinSent
  BY DEF Take
<1>4. NotPinned \in [at : 0..PinTimes, expires : BOOLEAN] /\ NotPinned.at = 0
  BY <1>2 DEF NotPinned
<1>5. \A m \in PinMessage : /\ pinned'[m] = IF m \in taken THEN NotPinned ELSE pinned[m]
                            /\ pinned[m] \in [at : 0..PinTimes, expires : BOOLEAN]
  BY <1>1, <1>3, PinnedTyped
<1>6. pinned' \in [PinMessage -> [at : 0..PinTimes, expires : BOOLEAN]]
  BY <1>3, <1>4, <1>5
<1>7. Pinned' \in TimesOf /\ \A n \in PinMessage : Pinned'[n] = pinned'[n].at
  <2>1. PICK new : new = pinned'
    OBVIOUS
  <2>2. Pinned' = [n \in PinMessage |-> new[n].at]
    BY <2>1 DEF Pinned
  <2>3. \A n \in PinMessage : new[n].at \in 0..PinTimes
    BY <1>6, <2>1
  <2>4. QED  BY <2>1, <2>2, <2>3 DEF TimesOf
<1>8. \A n \in PinMessage : Pinned'[n] = IF n \in taken THEN 0 ELSE Pinned[n]
  BY <1>1, <1>4, <1>5, <1>7
<1>9. PICK R2 : R2 = received'
  OBVIOUS
<1>10. \A n \in PinMessage : R2[n] = IF Conversation(n) \cap taken # {} THEN Pinned'[n] ELSE received[n]
  BY <1>3, <1>7, <1>9
<1>11. R2 \in TimesOf
  <2>1. \A n \in PinMessage : R2[n] \in 0..PinTimes
    BY <1>1, <1>7, <1>10 DEF TimesOf
  <2>2. QED  BY <1>3, <1>9, <2>1 DEF TimesOf
<1>12. PinsTyped'
  <2>1. \A m \in PinMessage : pinned'[m].at = 0 => pinned'[m] = NotPinned
    BY <1>1, <1>4, <1>5 DEF PinsTyped
  <2>2. QED  BY <1>1, <1>3, <1>6, <1>9, <1>11, <2>1 DEF PinsTyped
<1>13. \A n \in PinMessage : Pinned[n] = received[n] \/ Pinned[n] = 0
  <2>1. \A n \in PinMessage : IsCut(Conversation(n), received, Pinned) /\ n \in Conversation(n)
    BY OneConversation DEF PinsInv, PinsCut
  <2>2. QED  BY <2>1 DEF IsCut
<1>14. \A n \in PinMessage : R2[n] = received[n] \/ R2[n] = 0
  BY <1>8, <1>10, <1>13
<1>15. PinsApart'
  <2>1. {n \in PinMessage : R2[n] > 0} \subseteq {n \in PinMessage : received[n] > 0}
    BY <1>14
  <2>2. IsFiniteSet({n \in PinMessage : R2[n] > 0})
    BY <2>1, FS_Subset DEF PinsInv, PinsApart
  <2>3. \A n \in PinMessage : R2[n] # 0 => R2[n] \in pinSent'
    BY <1>3, <1>14 DEF PinsInv, PinsApart
  <2>4. QED  BY <1>9, <2>2, <2>3 DEF PinsApart
<1>16. PinsCut'
  <2>1. ASSUME NEW m \in PinMessage PROVE IsCut(Conversation(m), R2, Pinned')
    <3>1. PICK C \in SUBSET PinMessage : C = Conversation(m)
      BY OneConversation
    <3>2. \A n \in C : Conversation(n) = C
      BY <3>1, OneConversation
    <3>3. IsCut(C, received, Pinned)
      BY <3>1 DEF PinsInv, PinsCut
    <3>4. CASE C \cap taken = {}
      <4>1. \A n \in C : R2[n] = received[n] /\ Pinned'[n] = Pinned[n]
        BY <1>8, <1>10, <3>2, <3>4
      <4>2. \A t : Above(C, R2, t) = Above(C, received, t)
        BY <4>1 DEF Above
      <4>3. QED  BY <3>1, <3>3, <4>1, <4>2 DEF IsCut
    <3>5. CASE C \cap taken # {}
      <4>1. \A n \in C : R2[n] = Pinned'[n] /\ R2[n] \in Nat /\ received[n] \in Nat
        BY <1>1, <1>2, <1>10, <1>11, <3>2, <3>5 DEF TimesOf
      <4>2. SUFFICES ASSUME NEW n \in C, R2[n] # 0 PROVE Cardinality(Above(C, R2, R2[n])) < PinLimit
        BY <3>1, <4>1 DEF IsCut
      <4>3. Pinned[n] # 0 /\ R2[n] = received[n]
        BY <1>8, <1>13, <4>1, <4>2
      <4>4. Cardinality(Above(C, received, received[n])) < PinLimit
        <5>1. Pinned[n] = IF Cardinality(Above(C, received, received[n])) < PinLimit THEN received[n] ELSE 0
          BY <3>3 DEF IsCut
        <5>2. QED  BY <4>3, <5>1
      <4>5. Above(C, R2, R2[n]) \subseteq Above(C, received, received[n])
        BY <1>14, <4>1, <4>3 DEF Above
      <4>6. IsFiniteSet(Above(C, received, received[n]))
        <5>1. {q \in C : received[q] > 0} \subseteq {q \in PinMessage : received[q] > 0}
          OBVIOUS
        <5>2. IsFiniteSet({q \in C : received[q] > 0})
          BY <5>1, FS_Subset DEF PinsInv, PinsApart
        <5>3. received[n] \in Nat
          BY <4>1
        <5>4. QED  BY <4>1, <5>2, <5>3, AboveFinite
      <4>7. /\ Cardinality(Above(C, R2, R2[n])) <= Cardinality(Above(C, received, received[n]))
            /\ Cardinality(Above(C, R2, R2[n])) \in Nat /\ Cardinality(Above(C, received, received[n])) \in Nat
        BY <4>5, <4>6, FewerAbove
      <4>8. QED  BY <1>2, <4>4, <4>7
    <3>6. QED  BY <3>4, <3>5
  <2>2. QED  BY <1>9, <2>1 DEF PinsCut, Conversation
<1>17. QED  BY <1>12, <1>15, <1>16 DEF PinsInv

\* The invariant of the pins holds throughout.
LEMMA PinsSafe == PinsSpec => []PinsInv
<1>1. PinsInv /\ [PinsNext]_pinVars => PinsInv'
  <2> SUFFICES ASSUME PinsInv, [PinsNext]_pinVars PROVE PinsInv'
    OBVIOUS
  <2>1. ASSUME NEW m \in PinMessage, NEW at \in 1..PinTimes, NEW expires \in BOOLEAN,
               appendPinnedMessage(m, [at |-> at, expires |-> expires])
        PROVE  PinsInv'
    BY <2>1, AppendKeeps
  <2>2. ASSUME NEW m \in PinMessage, deletePinnedMessageByMessageId(m) PROVE PinsInv'
    <3>1. PICK taken \in SUBSET PinMessage : taken = {m}
      OBVIOUS
    <3>2. Take(taken)
      BY <2>2, <3>1 DEF deletePinnedMessageByMessageId
    <3>3. QED  BY <3>2, TakeKeeps
  <2>3. ASSUME NEW expired \in SUBSET PinMessage, deleteAllExpiredPinnedMessagesBefore(expired)
        PROVE  PinsInv'
    BY <2>3, TakeKeeps DEF deleteAllExpiredPinnedMessagesBefore
  <2>4. CASE UNCHANGED pinVars
    <3>1. UNCHANGED <<pinned, received, pinSent>>
      BY <2>4 DEF pinVars
    <3>2. Pinned' = Pinned
      BY <3>1 DEF Pinned
    <3>3. PinsCut'
      BY <3>1, <3>2 DEF PinsInv, PinsCut, Conversation
    <3>4. QED  BY <3>1, <3>3 DEF PinsInv, PinsTyped, PinsApart
  <2>5. QED  BY <2>1, <2>2, <2>3, <2>4 DEF PinsNext
<1>2. QED  BY PinsStart, <1>1, PTL DEF PinsSpec

\* In whatever order the pins of a conversation come, again or late, the newest of them
\* are those the table holds (sql.js 4049-4075).
THEOREM NewestPinsAreKept == PinsSpec => []NewestPinsStay
<1>1. PinsInv => NewestPinsStay
  <2>1. SUFFICES ASSUME PinsInv, NEW m \in PinMessage
                 PROVE  pinned[m].at =
                          IF Cardinality({n \in Conversation(m) : received[n] > received[m]}) < PinLimit
                          THEN received[m] ELSE 0
    BY DEF NewestPinsStay
  <2>2. IsCut(Conversation(m), received, Pinned) /\ m \in Conversation(m)
    BY <2>1, OneConversation DEF PinsInv, PinsCut
  <2>3. QED  BY <2>1, <2>2, PinnedTyped DEF PinsInv, IsCut, Above
<1>2. QED  BY <1>1, PinsSafe, PTL

----------------------------------------------------------------------------
(***************************************************************************)
(* The query returns the chat folders in the user's order, for any folders  *)
(* and positions, as long as no position was taken twice and no row written  *)
(* back stale since the last numbering; a numbering mends both, because it   *)
(* gives each current folder a position of its own. What the client has in   *)
(* hand is flagged in the table as long as it is there, so an upload that    *)
(* ends, with its stale row or without an answer, leaves no unflagged row    *)
(* that the storage service does not have.                                   *)
(***************************************************************************)

\* The folder of all chats is never deleted, and there is one, or none while the client
\* ensures it, as long as the storage service did not overtake the client.
AllsCurrent == \A f \in ChatFolder : chatFolders[f].all => IsCurrent(chatFolders[f])
OneOfAll ==
  ~overtaken => /\ \A f, g \in ChatFolder : chatFolders[f].all /\ chatFolders[g].all => f = g
                /\ ensuring => \A f \in ChatFolder : ~chatFolders[f].all

\* The rows that the client has in hand are of the kind that the table has.
InHand(copy) ==
  \A f \in ChatFolder :
    /\ copy[f].all => IsCurrent(copy[f])
    /\ copy[f].there /\ chatFolders[f].there => copy[f].all = chatFolders[f].all

\* What is not flagged has been told; what is edited or sent is flagged.
AllTold ==
  \A f \in ChatFolder :
    chatFolders[f].there /\ ~chatFolders[f].needsSync => folderStorage[f] = FolderRecord(chatFolders[f])
Flagged ==
  \A f \in ChatFolder :
    /\ edited[f].there => edited[f].needsSync
    /\ sent[f].there /\ chatFolders[f].there => chatFolders[f].needsSync

\* Each folder of a table has a position of its own.
Apart(table) ==
  \A f, g \in CurrentOf(table) : f # g => table[f].position # table[g].position
InOrder == kept => getCurrentChatFolders(chatFolders) = shown /\ Apart(chatFolders)

FoldersSynced == AllsCurrent /\ OneOfAll /\ InHand(edited) /\ InHand(sent) /\ AllTold /\ Flagged
FoldersInv == FoldersTypeOK /\ FoldersSynced /\ InOrder

\* Positions are natural numbers up to the one of deleted folders.
LEMMA PositionsFit ==
  /\ DeletedPosition \in Nat /\ MaxPosition < DeletedPosition
  /\ \A p \in 0..MaxPosition : p \in 0..DeletedPosition /\ p \in Int /\ p >= 0
  /\ \A row \in FolderRows : row.position \in Int /\ row.position >= 0
  /\ NoFolder \in FolderRows
BY FoldersAssumption DEF DeletedPosition, FolderRows, NoFolder

\* Numbered folders keep all but their positions and flags, stand in the order of the
\* numbers, and so in the one they had if each had a position of its own.
LEMMA NumbersKeepOrder ==
  ASSUME NEW table \in [ChatFolder -> FolderRows], NEW first \in Nat,
         NEW number \in Numberings(table, first), NEW new, new = Numbered(table, number)
  PROVE  /\ new \in [ChatFolder -> FolderRows]
         /\ CurrentOf(new) = CurrentOf(table)
         /\ getCurrentChatFolders(new) = OrderOf(number)
         /\ Apart(new)
         /\ Apart(table) => getCurrentChatFolders(table) = OrderOf(number)
         /\ \A f \in CurrentOf(table) : new[f].position >= first /\ new[f].needsSync
         /\ \A f \in ChatFolder : /\ new[f].there = table[f].there /\ new[f].all = table[f].all
                                  /\ new[f].deleted = table[f].deleted
         /\ \A f \in ChatFolder \ CurrentOf(table) : new[f] = table[f]
<1>1. PICK C \in SUBSET ChatFolder : C = CurrentOf(table)
  BY DEF CurrentOf
<1>2. /\ number \in [C -> first..MaxPosition]
      /\ \A f, g \in C : f # g => number[f] # number[g]
      /\ \A f, g \in C : table[f].position < table[g].position => number[f] < number[g]
  BY <1>1 DEF Numberings
<1>3. \A f \in C : number[f] \in Int /\ number[f] >= first /\ number[f] \in 0..DeletedPosition
  BY <1>2, PositionsFit, FoldersAssumption
<1>4. new = [f \in ChatFolder |->
               IF f \in C THEN [table[f] EXCEPT !.position = number[f], !.needsSync = TRUE] ELSE table[f]]
  BY <1>2 DEF Numbered
<1>5. \A f \in ChatFolder \ C : new[f] = table[f]
  BY <1>4
<1>6. ASSUME NEW f \in C
      PROVE  /\ new[f] \in FolderRows
             /\ new[f].position = number[f] /\ new[f].needsSync = TRUE
             /\ new[f].there = table[f].there /\ new[f].all = table[f].all
             /\ new[f].deleted = table[f].deleted
  <2>1. PICK n \in 0..DeletedPosition : n = number[f]
    BY <1>3
  <2>2. table[f] \in FolderRows /\ new[f] = [table[f] EXCEPT !.position = n, !.needsSync = TRUE]
    BY <1>4, <2>1
  <2>3. QED  BY <2>1, <2>2 DEF FolderRows
<1>7. new \in [ChatFolder -> FolderRows]
  BY <1>4, <1>5, <1>6
<1>8. \A f \in ChatFolder : /\ new[f].there = table[f].there /\ new[f].all = table[f].all
                            /\ new[f].deleted = table[f].deleted
  BY <1>5, <1>6
<1>9. CurrentOf(new) = C
  BY <1>1, <1>8 DEF CurrentOf, IsCurrent
<1>10. DOMAIN number = C
  BY <1>2
<1>11. getCurrentChatFolders(new) = OrderOf(number)
  <2>1. getCurrentChatFolders(new) = {e \in C \X C : new[e[1]].position <= new[e[2]].position}
    BY <1>9 DEF getCurrentChatFolders
  <2>2. OrderOf(number) = {e \in C \X C : number[e[1]] <= number[e[2]]}
    BY <1>10 DEF OrderOf
  <2>3. \A f \in C : new[f].position = number[f]
    BY <1>6
  <2>4. QED  BY <2>1, <2>2, <2>3
<1>12. Apart(new)
  <2>1. ASSUME NEW f \in C, NEW g \in C, f # g PROVE new[f].position # new[g].position
    <3>1. number[f] # number[g]
      BY <1>2, <2>1
    <3>2. new[f].position = number[f] /\ new[g].position = number[g]
      BY <1>6
    <3>3. QED  BY <3>1, <3>2
  <2>2. QED  BY <1>9, <2>1 DEF Apart
<1>13. ASSUME Apart(table)
       PROVE  getCurrentChatFolders(table) = OrderOf(number)
  <2>1. ASSUME NEW f \in C, NEW g \in C
        PROVE  table[f].position <= table[g].position <=> number[f] <= number[g]
    <3>1. PICK p \in Int, q \in Int : p = table[f].position /\ q = table[g].position
      BY PositionsFit
    <3>2. PICK m \in Int, n \in Int : m = number[f] /\ n = number[g]
      BY <1>3
    <3>3. (p < q => m < n) /\ (q < p => n < m) /\ (f = g => p = q /\ m = n) /\ (f # g => p # q)
      BY <1>1, <1>2, <1>13, <3>1, <3>2 DEF Apart
    <3>4. QED  BY <3>1, <3>2, <3>3
  <2>2. QED  BY <1>1, <1>10, <2>1 DEF getCurrentChatFolders, OrderOf
<1>14. QED  BY <1>1, <1>3, <1>5, <1>6, <1>7, <1>8, <1>9, <1>11, <1>12, <1>13

\* The place where a folder is shown is the one where its position has it: the others
\* stand in an order that is that of their positions, the old ones and the new.
LEMMA PlaceByPosition ==
  ASSUME FoldersTypeOK, NEW C \in SUBSET ChatFolder, NEW order, NEW f \in ChatFolder \ C, NEW p \in Int,
         NEW new \in [ChatFolder -> FolderRows], CurrentOf(new) = C \cup {f},
         new[f].position = p, order \subseteq C \X C, \A g \in C : <<g, g>> \in order,
         \A g, h \in C : <<g, h>> \in order <=> new[g].position <= new[h].position,
         \A g \in C : /\ new[g].position # p
                      /\ chatFolders[g].position < p <=> new[g].position < p
  PROVE  getCurrentChatFolders(new) = ShownAt(f, p, order)
<1>1. PICK at : at = ShownAt(f, p, order)
  OBVIOUS
<1>2. \A g \in ChatFolder : <<g, g>> \in order <=> g \in C
  OBVIOUS
<1>3. \A g \in C : chatFolders[g].position \in Int /\ new[g].position \in Int
  BY PositionsFit DEF FoldersTypeOK
<1>4. at = order \cup {<<f, f>>} \cup {<<g, f>> : g \in {h \in C : chatFolders[h].position < p}}
                 \cup {<<f, g>> : g \in {h \in C : chatFolders[h].position >= p}}
  <2>1. {h \in ChatFolder : <<h, h>> \in order /\ chatFolders[h].position < p}
          = {h \in C : chatFolders[h].position < p}
    BY <1>2
  <2>2. {h \in ChatFolder : <<h, h>> \in order /\ chatFolders[h].position >= p}
          = {h \in C : chatFolders[h].position >= p}
    BY <1>2
  <2>3. QED  BY <1>1, <2>1, <2>2 DEF ShownAt
<1>5. at \subseteq (C \cup {f}) \X (C \cup {f})
  BY <1>4
<1>6. ASSUME NEW g \in C \cup {f}, NEW h \in C \cup {f}
      PROVE  <<g, h>> \in at <=> new[g].position <= new[h].position
  <2>1. CASE g \in C /\ h \in C
    BY <1>4, <2>1
  <2>2. CASE g \in C /\ h = f
    <3>1. PICK q \in Int : q = new[g].position /\ q # p
      BY <1>3, <2>2
    <3>2. <<g, f>> \in at <=> q < p
      BY <1>4, <2>2, <3>1
    <3>3. QED  BY <2>2, <3>1, <3>2
  <2>3. CASE g = f /\ h \in C
    <3>1. PICK q \in Int, old \in Int : q = new[h].position /\ q # p /\ old = chatFolders[h].position
      BY <1>3, <2>3
    <3>2. <<f, h>> \in at <=> old >= p
      BY <1>4, <2>3, <3>1
    <3>3. old < p <=> q < p
      BY <2>3, <3>1
    <3>4. QED  BY <2>3, <3>1, <3>2, <3>3
  <2>4. CASE g = f /\ h = f
    BY <1>4, <2>4
  <2>5. QED  BY <2>1, <2>2, <2>3, <2>4
<1>7. QED  BY <1>1, <1>5, <1>6 DEF getCurrentChatFolders

\* Without some folders, the order is that of the others.
LEMMA OrderOfOthers ==
  ASSUME NEW table \in [ChatFolder -> FolderRows], NEW F
  PROVE  LET C == CurrentOf(table) \ F
             order == OrderWithout(F, getCurrentChatFolders(table)) IN
         /\ C \in SUBSET ChatFolder
         /\ order \subseteq C \X C /\ \A g \in C : <<g, g>> \in order
         /\ \A g, h \in C : <<g, h>> \in order <=> table[g].position <= table[h].position
<1>1. \A g \in ChatFolder : table[g].position <= table[g].position
  BY PositionsFit
<1>2. QED  BY <1>1 DEF OrderWithout, getCurrentChatFolders, CurrentOf

\* A place that no current folder has, other than those that go.
LEMMA FolderPlaced ==
  ASSUME FoldersTypeOK, InOrder, kept, NEW F, NEW f \in ChatFolder, f \notin CurrentOf(chatFolders) \ F,
         NEW p \in 0..MaxPosition, AtPosition(p) \subseteq F,
         NEW new \in [ChatFolder -> FolderRows],
         CurrentOf(new) = (CurrentOf(chatFolders) \ F) \cup {f}, new[f].position = p,
         \A g \in CurrentOf(chatFolders) \ F : new[g].position = chatFolders[g].position
  PROVE  getCurrentChatFolders(new) = ShownAt(f, p, OrderWithout(F, shown)) /\ Apart(new)
<1>1. PICK C : C = CurrentOf(chatFolders) \ F
  OBVIOUS
<1>2. PICK order : order = OrderWithout(F, shown)
  OBVIOUS
<1>3. /\ C \in SUBSET ChatFolder /\ order \subseteq C \X C /\ \A g \in C : <<g, g>> \in order
      /\ \A g, h \in C : <<g, h>> \in order <=> chatFolders[g].position <= chatFolders[h].position
  BY <1>1, <1>2, OrderOfOthers DEF FoldersTypeOK, InOrder
<1>4. p \in Int
  BY PositionsFit
<1>5. \A g \in C : new[g].position = chatFolders[g].position /\ chatFolders[g].position # p
  BY <1>1 DEF AtPosition
<1>6. getCurrentChatFolders(new) = ShownAt(f, p, order)
  <2>1. f \in ChatFolder \ C /\ CurrentOf(new) = C \cup {f}
    BY <1>1
  <2>2. /\ \A g, h \in C : <<g, h>> \in order <=> new[g].position <= new[h].position
        /\ \A g \in C : /\ new[g].position # p
                        /\ chatFolders[g].position < p <=> new[g].position < p
    BY <1>3, <1>5
  <2>3. QED  BY <1>3, <1>4, <2>1, <2>2, PlaceByPosition
<1>7. Apart(new)
  BY <1>1, <1>5 DEF InOrder, Apart
<1>8. QED  BY <1>2, <1>6, <1>7

\* At the start there are no folders.
LEMMA FoldersStart == FoldersInit => FoldersInv
<1> SUFFICES ASSUME FoldersInit PROVE FoldersInv
  OBVIOUS
<1>1. /\ \A f \in ChatFolder : chatFolders[f] = NoFolder /\ edited[f] = NoFolder /\ sent[f] = NoFolder
      /\ NoRows \in [ChatFolder -> FolderRows]
  BY PositionsFit DEF FoldersInit, NoRows
<1>2. FoldersTypeOK
  <2>1. -1 \in -1..DeletedPosition
    BY PositionsFit
  <2>2. folderStorage \in [ChatFolder -> -1..DeletedPosition]
    BY <2>1 DEF FoldersInit, NotTold
  <2>3. QED  BY <1>1, <2>2 DEF FoldersInit, FoldersTypeOK
<1>3. FoldersSynced
  BY <1>1 DEF FoldersInit, FoldersSynced, AllsCurrent, OneOfAll, InHand, AllTold, Flagged, NoFolder
<1>4. CurrentOf(chatFolders) = {}
  BY <1>1 DEF CurrentOf, IsCurrent, NoFolder
<1>5. InOrder
  BY <1>4 DEF FoldersInit, InOrder, Apart, getCurrentChatFolders
<1>6. QED  BY <1>2, <1>3, <1>5 DEF FoldersInv

\* Steps that leave the table alone: questions, reads, and uploads without an answer.
LEMMA ReadsKeep ==
  ASSUME FoldersInv,
         \/ AskForAllChats \/ BeginFolderUpload
         \/ \E f \in ChatFolder : BeginEdit(f) \/ \E taken \in BOOLEAN : FolderUploadLost(f, taken)
  PROVE  FoldersInv'
<1> USE DEF FoldersInv
<1>1. UNCHANGED <<chatFolders, kept, shown>>
  BY DEF AskForAllChats, BeginFolderUpload, BeginEdit, FolderUploadLost
<1>2. InOrder'
  BY <1>1 DEF InOrder, Apart, getCurrentChatFolders, CurrentOf, IsCurrent
<1>3. CASE AskForAllChats
  <2>1. \A f \in ChatFolder : ~chatFolders[f].all
    BY <1>3 DEF AskForAllChats, hasAllChatsChatFolder, FoldersSynced, AllsCurrent, CurrentOf
  <2>2. FoldersTypeOK'
    BY <1>3 DEF AskForAllChats, FoldersTypeOK
  <2>3. FoldersSynced'
    BY <1>3, <2>1
    DEF AskForAllChats, FoldersSynced, AllsCurrent, OneOfAll, InHand, AllTold, Flagged, FolderRecord, IsCurrent
  <2>4. QED  BY <1>2, <2>2, <2>3
<1>4. CASE BeginFolderUpload
  <2>1. /\ sent' = [f \in ChatFolder |-> IF chatFolders[f].needsSync THEN chatFolders[f] ELSE NoFolder]
        /\ UNCHANGED <<chatFolders, edited, folderStorage, ensuring, kept, shown, overtaken>>
    BY <1>4 DEF BeginFolderUpload
  <2>2. FoldersTypeOK'
    BY <2>1, PositionsFit DEF FoldersTypeOK
  <2>3. InHand(sent)'
    BY <2>1 DEF FoldersSynced, AllsCurrent, InHand, IsCurrent, NoFolder
  <2>4. Flagged'
    BY <2>1 DEF FoldersSynced, Flagged, NoFolder
  <2>5. AllsCurrent' /\ OneOfAll' /\ InHand(edited)' /\ AllTold'
    BY <2>1 DEF FoldersSynced, AllsCurrent, OneOfAll, InHand, AllTold, FolderRecord, IsCurrent
  <2>6. QED  BY <1>2, <2>2, <2>3, <2>4, <2>5 DEF FoldersSynced
<1>5. ASSUME NEW f \in ChatFolder, BeginEdit(f)
      PROVE  FoldersInv'
  <2>1. PICK row : row = [chatFolders[f] EXCEPT !.needsSync = TRUE]
    OBVIOUS
  <2>2. /\ row \in FolderRows /\ row.needsSync = TRUE /\ row.all = chatFolders[f].all
        /\ row.there = chatFolders[f].there /\ row.deleted = chatFolders[f].deleted
    BY <2>1 DEF FoldersTypeOK, FolderRows
  <2>3. /\ edited' = [NoRows EXCEPT ![f] = row]
        /\ UNCHANGED <<chatFolders, sent, folderStorage, ensuring, kept, shown, overtaken>>
    BY <1>5, <2>1 DEF BeginEdit
  <2>4. /\ NoRows \in [ChatFolder -> FolderRows]
        /\ edited'[f] = row /\ \A g \in ChatFolder \ {f} : edited'[g] = NoFolder
    BY <2>3, PositionsFit DEF NoRows
  <2>5. FoldersTypeOK'
    BY <2>2, <2>3, <2>4 DEF FoldersTypeOK
  <2>6. InHand(edited)'
    BY <2>2, <2>3, <2>4 DEF FoldersSynced, AllsCurrent, InHand, IsCurrent, NoFolder
  <2>7. Flagged'
    BY <2>2, <2>3, <2>4 DEF FoldersSynced, Flagged, NoFolder
  <2>8. AllsCurrent' /\ OneOfAll' /\ InHand(sent)' /\ AllTold'
    BY <2>3 DEF FoldersSynced, AllsCurrent, OneOfAll, InHand, AllTold, FolderRecord, IsCurrent
  <2>9. QED  BY <1>2, <2>5, <2>6, <2>7, <2>8 DEF FoldersSynced
<1>6. ASSUME NEW f \in ChatFolder, NEW taken \in BOOLEAN, FolderUploadLost(f, taken)
      PROVE  FoldersInv'
  <2>1. PICK told \in -1..DeletedPosition : folderStorage' = [folderStorage EXCEPT ![f] = told]
    <3>1. FolderRecord(sent[f]) \in -1..DeletedPosition /\ folderStorage[f] \in -1..DeletedPosition
      BY PositionsFit DEF FoldersTypeOK, FolderRecord, FolderRows
    <3>2. folderStorage = [folderStorage EXCEPT ![f] = folderStorage[f]]
      BY DEF FoldersTypeOK
    <3>3. QED  BY <1>6, <3>1, <3>2 DEF FolderUploadLost
  <2>2. /\ sent[f].there /\ sent' = [sent EXCEPT ![f] = NoFolder]
        /\ UNCHANGED <<chatFolders, edited, ensuring, kept, shown, overtaken>>
    BY <1>6 DEF FolderUploadLost
  <2>3. FoldersTypeOK'
    BY <2>1, <2>2, PositionsFit DEF FoldersTypeOK
  <2>4. /\ sent'[f] = NoFolder
        /\ \A g \in ChatFolder \ {f} : sent'[g] = sent[g] /\ folderStorage'[g] = folderStorage[g]
    BY <2>1, <2>2 DEF FoldersTypeOK
  <2>5. InHand(sent)' /\ Flagged'
    <3>1. ASSUME NEW g \in ChatFolder
          PROVE  /\ sent'[g].all => IsCurrent(sent'[g])
                 /\ sent'[g].there /\ chatFolders[g].there =>
                      sent'[g].all = chatFolders[g].all /\ chatFolders[g].needsSync
      <4>1. CASE g = f
        BY <2>4, <4>1 DEF NoFolder
      <4>2. CASE g # f
        BY <2>4, <4>2 DEF FoldersSynced, InHand, Flagged
      <4>3. QED  BY <4>1, <4>2
    <3>2. QED  BY <2>2, <3>1 DEF FoldersSynced, InHand, Flagged, IsCurrent
  <2>6. AllTold'
    BY <2>2, <2>4 DEF FoldersSynced, Flagged, AllTold, FolderRecord
  <2>7. AllsCurrent' /\ OneOfAll' /\ InHand(edited)'
    BY <2>2 DEF FoldersSynced, AllsCurrent, OneOfAll, InHand, IsCurrent
  <2>8. QED  BY <1>2, <2>3, <2>5, <2>6, <2>7 DEF FoldersSynced
<1>7. QED  BY <1>3, <1>4, <1>5, <1>6

\* One row is written over: it stays, or not, of the kind it was, and if positions and
\* deletions are those that it had, so does the order.
LEMMA RowKeeps ==
  ASSUME FoldersInv, NEW f \in ChatFolder, NEW row \in FolderRows, NEW told \in -1..DeletedPosition,
         chatFolders[f].there, chatFolders' = [chatFolders EXCEPT ![f] = row],
         row.there, row.all = chatFolders[f].all, row.all => ~row.deleted,
         folderStorage' = [folderStorage EXCEPT ![f] = told],
         row.needsSync \/ (told = FolderRecord(row) /\ ~sent'[f].there),
         sent' = sent \/ sent' = [sent EXCEPT ![f] = NoFolder],
         edited' = edited \/ edited' = NoRows,
         UNCHANGED <<ensuring, overtaken>>,
         kept' \in BOOLEAN, shown' \subseteq ChatFolder \X ChatFolder,
         kept' => /\ kept /\ shown' = shown
                  /\ row.position = chatFolders[f].position /\ row.deleted = chatFolders[f].deleted
  PROVE  FoldersInv'
<1> USE DEF FoldersInv
<1>1. /\ chatFolders'[f] = row /\ folderStorage'[f] = told
      /\ \A g \in ChatFolder \ {f} : chatFolders'[g] = chatFolders[g] /\ folderStorage'[g] = folderStorage[g]
  BY DEF FoldersTypeOK
<1>2. /\ NoRows \in [ChatFolder -> FolderRows] /\ NoFolder \in FolderRows
      /\ \A g \in ChatFolder : edited'[g] = edited[g] \/ edited'[g] = NoFolder
      /\ \A g \in ChatFolder : sent'[g] = sent[g] \/ sent'[g] = NoFolder
  BY PositionsFit DEF FoldersTypeOK, NoRows
<1>3. FoldersTypeOK'
  BY <1>2 DEF FoldersTypeOK
<1>4. \A g \in ChatFolder : chatFolders'[g].all = chatFolders[g].all /\ chatFolders'[g].there = chatFolders[g].there
  <2>1. row.there = TRUE /\ chatFolders[f].there = TRUE
    BY DEF FoldersTypeOK, FolderRows
  <2>2. QED  BY <1>1, <2>1
<1>5. AllsCurrent'
  BY <1>1 DEF FoldersSynced, AllsCurrent, IsCurrent
<1>6. OneOfAll'
  BY <1>4 DEF FoldersSynced, OneOfAll
<1>7. InHand(edited)' /\ InHand(sent)'
  <2>1. ASSUME NEW copy, NEW new, InHand(copy), \A g \in ChatFolder : new[g] = copy[g] \/ new[g] = NoFolder,
               NEW g \in ChatFolder
        PROVE  /\ new[g].all => IsCurrent(new[g])
               /\ new[g].there /\ chatFolders'[g].there => new[g].all = chatFolders'[g].all
    BY <1>4, <2>1 DEF InHand, NoFolder
  <2>2. InHand(edited) /\ InHand(sent)
    BY DEF FoldersSynced
  <2>3. QED  BY <1>2, <2>1, <2>2 DEF InHand, IsCurrent
<1>8. AllTold'
  <2>1. ASSUME NEW g \in ChatFolder, chatFolders'[g].there, ~chatFolders'[g].needsSync
        PROVE  folderStorage'[g] = FolderRecord(chatFolders'[g])
    BY <1>1, <2>1 DEF FoldersSynced, AllTold
  <2>2. QED  BY <2>1 DEF AllTold, FolderRecord
<1>9. Flagged'
  <2>1. ASSUME NEW g \in ChatFolder
        PROVE  /\ edited'[g].there => edited'[g].needsSync
               /\ sent'[g].there /\ chatFolders'[g].there => chatFolders'[g].needsSync
    BY <1>1, <1>2, <1>4 DEF FoldersSynced, Flagged, NoFolder
  <2>2. QED  BY <2>1 DEF Flagged
<1>10. InOrder'
  <2> SUFFICES ASSUME kept' PROVE getCurrentChatFolders(chatFolders') = shown' /\ Apart(chatFolders')
    BY DEF InOrder, getCurrentChatFolders, Apart, CurrentOf, IsCurrent
  <2>1. kept /\ shown' = shown /\ row.position = chatFolders[f].position /\ row.deleted = chatFolders[f].deleted
    OBVIOUS
  <2>2. \A g \in ChatFolder : /\ chatFolders'[g].position = chatFolders[g].position
                              /\ IsCurrent(chatFolders'[g]) <=> IsCurrent(chatFolders[g])
    BY <1>1, <2>1 DEF IsCurrent
  <2>3. PICK C \in SUBSET ChatFolder : C = CurrentOf(chatFolders) /\ C = CurrentOf(chatFolders')
    BY <2>2 DEF CurrentOf
  <2>4. getCurrentChatFolders(chatFolders') = getCurrentChatFolders(chatFolders)
    BY <2>2, <2>3 DEF getCurrentChatFolders
  <2>5. Apart(chatFolders')
    <3>1. \A g, h \in C : g # h => chatFolders[g].position # chatFolders[h].position
      BY <2>1, <2>3 DEF InOrder, Apart
    <3>2. ASSUME NEW g \in C, NEW h \in C, g # h
          PROVE  chatFolders'[g].position # chatFolders'[h].position
      <4>1. chatFolders'[g].position = chatFolders[g].position /\ chatFolders'[h].position = chatFolders[h].position
        BY <2>2
      <4>2. QED  BY <3>1, <3>2, <4>1
    <3>3. QED  BY <2>3, <3>2 DEF Apart
  <2>6. QED  BY <2>1, <2>4, <2>5 DEF InOrder
<1>11. QED  BY <1>3, <1>5, <1>6, <1>7, <1>8, <1>9, <1>10 DEF FoldersSynced

\* What comes back for a row that is gone writes nothing.
LEMMA RowGone ==
  ASSUME FoldersInv, UNCHANGED <<chatFolders, ensuring, overtaken>>,
         \/ edited' = NoRows /\ UNCHANGED <<sent, folderStorage>>
         \/ \E f \in ChatFolder, told \in -1..DeletedPosition :
              /\ ~chatFolders[f].there /\ edited' = edited /\ sent' = [sent EXCEPT ![f] = NoFolder]
              /\ folderStorage' = [folderStorage EXCEPT ![f] = told],
         kept' = kept, kept' => shown' = shown, shown' \subseteq ChatFolder \X ChatFolder
  PROVE  FoldersInv'
<1> USE DEF FoldersInv
<1>1. /\ NoRows \in [ChatFolder -> FolderRows] /\ NoFolder \in FolderRows
      /\ \A g \in ChatFolder : edited'[g] = edited[g] \/ edited'[g] = NoFolder
      /\ \A g \in ChatFolder : sent'[g] = sent[g] \/ sent'[g] = NoFolder
      /\ \A g \in ChatFolder : chatFolders[g].there => folderStorage'[g] = folderStorage[g]
  BY PositionsFit DEF FoldersTypeOK, NoRows
<1>2. FoldersTypeOK'
  BY <1>1 DEF FoldersTypeOK
<1>3. InHand(edited)' /\ InHand(sent)' /\ Flagged'
  <2>1. ASSUME NEW g \in ChatFolder
        PROVE  /\ edited'[g].all => IsCurrent(edited'[g])
               /\ sent'[g].all => IsCurrent(sent'[g])
               /\ edited'[g].there => edited'[g].needsSync
               /\ edited'[g].there /\ chatFolders[g].there => edited'[g].all = chatFolders[g].all
               /\ sent'[g].there /\ chatFolders[g].there =>
                    sent'[g].all = chatFolders[g].all /\ chatFolders[g].needsSync
    <3>1. ~NoFolder.all /\ ~NoFolder.there
      BY DEF NoFolder
    <3>2. QED  BY <1>1, <3>1 DEF FoldersSynced, InHand, Flagged
  <2>2. QED  BY <2>1 DEF InHand, Flagged, IsCurrent
<1>4. AllsCurrent' /\ OneOfAll' /\ AllTold'
  BY <1>1 DEF FoldersSynced, AllsCurrent, OneOfAll, AllTold, FolderRecord, IsCurrent
<1>5. InOrder'
  BY DEF InOrder, Apart, getCurrentChatFolders, CurrentOf, IsCurrent
<1>6. QED  BY <1>2, <1>3, <1>4, <1>5 DEF FoldersSynced

\* Edits, chats added and taken out, and answered uploads: the whole row is written, as
\* long as it is there.
LEMMA WritesKeep ==
  ASSUME FoldersInv, NEW f \in ChatFolder,
         updateChatFolder(f) \/ updateChatFolderToggleChat(f) \/ FolderUploaded(f)
  PROVE  FoldersInv'
<1> USE DEF FoldersInv
<1>1. /\ chatFolders[f] \in FolderRows /\ edited[f] \in FolderRows /\ sent[f] \in FolderRows
      /\ folderStorage[f] \in -1..DeletedPosition /\ folderStorage = [folderStorage EXCEPT ![f] = folderStorage[f]]
      /\ chatFolders = [chatFolders EXCEPT ![f] = chatFolders[f]]
      /\ kept \in BOOLEAN /\ shown \subseteq ChatFolder \X ChatFolder
  BY DEF FoldersTypeOK
<1>2. CASE updateChatFolderToggleChat(f)
  <2>1. PICK row : row = [chatFolders[f] EXCEPT !.needsSync = TRUE]
    OBVIOUS
  <2>2. /\ row \in FolderRows /\ row.needsSync = TRUE /\ row.all = chatFolders[f].all
        /\ row.there = chatFolders[f].there /\ row.deleted = chatFolders[f].deleted
        /\ row.position = chatFolders[f].position
    BY <1>1, <2>1 DEF FolderRows
  <2>3. /\ chatFolders[f].there /\ chatFolders' = [chatFolders EXCEPT ![f] = row]
        /\ UNCHANGED <<edited, sent, folderStorage, ensuring, kept, shown, overtaken>>
    BY <1>2, <2>1 DEF updateChatFolderToggleChat
  <2>4. QED  BY <1>1, <2>2, <2>3, RowKeeps DEF FoldersSynced, AllsCurrent, IsCurrent
<1>3. CASE updateChatFolder(f)
  <2>1. /\ edited[f].there /\ RowWritten(f, edited[f]) /\ edited' = NoRows
        /\ UNCHANGED <<sent, folderStorage, ensuring, overtaken>>
    BY <1>3 DEF updateChatFolder
  <2>2. edited[f].needsSync /\ (edited[f].all => ~edited[f].deleted)
        /\ (chatFolders[f].there => edited[f].all = chatFolders[f].all)
    BY <2>1 DEF FoldersSynced, Flagged, InHand, IsCurrent
  <2>3. CASE chatFolders[f].there
    <3>1. /\ chatFolders' = [chatFolders EXCEPT ![f] = edited[f]]
          /\ kept' \in BOOLEAN /\ shown' \subseteq ChatFolder \X ChatFolder
          /\ kept' => /\ kept /\ shown' = shown
                      /\ edited[f].position = chatFolders[f].position /\ edited[f].deleted = chatFolders[f].deleted
      BY <1>1, <2>1, <2>3 DEF RowWritten, Shows
    <3>2. QED  BY <1>1, <2>1, <2>2, <2>3, <3>1, RowKeeps
  <2>4. CASE ~chatFolders[f].there
    <3>1. chatFolders' = chatFolders
      BY <1>1, <2>1, <2>4 DEF RowWritten
    <3>2. (kept' = kept) /\ (kept' => shown' = shown) /\ shown' \subseteq ChatFolder \X ChatFolder
      BY <1>1, <2>1, <2>4 DEF RowWritten, Shows
    <3>3. QED  BY <2>1, <3>1, <3>2, RowGone
  <2>5. QED  BY <2>3, <2>4
<1>4. CASE FolderUploaded(f)
  <2>1. PICK row : row = [sent[f] EXCEPT !.needsSync = FALSE]
    OBVIOUS
  <2>2. /\ row \in FolderRows /\ row.needsSync = FALSE /\ row.all = sent[f].all
        /\ row.there = sent[f].there /\ row.deleted = sent[f].deleted /\ row.position = sent[f].position
    BY <1>1, <2>1 DEF FolderRows
  <2>3. PICK told \in -1..DeletedPosition : told = FolderRecord(sent[f]) /\ told = FolderRecord(row)
    BY <1>1, <2>2, PositionsFit DEF FolderRecord, FolderRows
  <2>4. /\ sent[f].there /\ sent' = [sent EXCEPT ![f] = NoFolder] /\ sent'[f] = NoFolder
        /\ folderStorage' = [folderStorage EXCEPT ![f] = told]
        /\ RowWritten(f, row)
        /\ UNCHANGED <<edited, ensuring, overtaken>>
    BY <1>4, <2>1, <2>3 DEF FolderUploaded, FoldersTypeOK
  <2>5. (row.all => ~row.deleted) /\ (chatFolders[f].there => row.all = chatFolders[f].all)
    BY <2>2, <2>4 DEF FoldersSynced, InHand, IsCurrent
  <2>6. CASE chatFolders[f].there
    <3>1. /\ chatFolders' = [chatFolders EXCEPT ![f] = row]
          /\ kept' \in BOOLEAN /\ shown' \subseteq ChatFolder \X ChatFolder
          /\ kept' => /\ kept /\ shown' = shown
                      /\ row.position = chatFolders[f].position /\ row.deleted = chatFolders[f].deleted
      BY <1>1, <2>4, <2>6 DEF RowWritten, Shows
    <3>2. ~sent'[f].there
      BY <2>4 DEF NoFolder
    <3>3. QED  BY <2>2, <2>3, <2>4, <2>5, <2>6, <3>1, <3>2, RowKeeps
  <2>7. CASE ~chatFolders[f].there
    <3>1. chatFolders' = chatFolders
      BY <1>1, <2>4, <2>7 DEF RowWritten
    <3>2. (kept' = kept) /\ (kept' => shown' = shown) /\ shown' \subseteq ChatFolder \X ChatFolder
      BY <1>1, <2>4, <2>7 DEF RowWritten, Shows
    <3>3. QED  BY <2>4, <2>7, <3>1, <3>2, RowGone
  <2>8. QED  BY <2>6, <2>7
<1>5. QED  BY <1>2, <1>3, <1>4

\* Rows that come, go, or take a number are flagged or told.
LEMMA SyncedKeeps ==
  ASSUME FoldersInv, chatFolders' \in [ChatFolder -> FolderRows],
         folderStorage' \in [ChatFolder -> -1..DeletedPosition], UNCHANGED <<edited, sent>>,
         \A f \in ChatFolder :
           LET row == chatFolders'[f]
               old == chatFolders[f] IN
           /\ row.all => row.there /\ ~row.deleted
           /\ row.there /\ ~old.there => ~edited[f].there /\ ~sent[f].there
           /\ row.there /\ old.there => row.all = old.all
           /\ row.there => \/ row.needsSync
                           \/ folderStorage'[f] = FolderRecord(row) /\ ~sent[f].there
                           \/ /\ old.there /\ row.needsSync = old.needsSync
                              /\ FolderRecord(row) = FolderRecord(old) /\ folderStorage'[f] = folderStorage[f]
  PROVE  AllsCurrent' /\ InHand(edited)' /\ InHand(sent)' /\ AllTold' /\ Flagged'
<1> USE DEF FoldersInv
<1>1. AllsCurrent'
  BY DEF AllsCurrent, IsCurrent
<1>2. InHand(edited)' /\ InHand(sent)'
  <2>1. ASSUME NEW f \in ChatFolder
        PROVE  /\ edited[f].all => IsCurrent(edited[f])
               /\ sent[f].all => IsCurrent(sent[f])
               /\ edited[f].there /\ chatFolders'[f].there => edited[f].all = chatFolders'[f].all
               /\ sent[f].there /\ chatFolders'[f].there => sent[f].all = chatFolders'[f].all
    BY DEF FoldersSynced, InHand
  <2>2. QED  BY <2>1 DEF InHand, IsCurrent
<1>3. AllTold'
  <2>1. ASSUME NEW f \in ChatFolder, chatFolders'[f].there, ~chatFolders'[f].needsSync
        PROVE  folderStorage'[f] = FolderRecord(chatFolders'[f])
    BY <2>1 DEF FoldersSynced, AllTold
  <2>2. QED  BY <2>1 DEF AllTold, FolderRecord
<1>4. Flagged'
  <2>1. ASSUME NEW f \in ChatFolder
        PROVE  /\ edited[f].there => edited[f].needsSync
               /\ sent[f].there /\ chatFolders'[f].there => chatFolders'[f].needsSync
    BY DEF FoldersSynced, Flagged
  <2>2. QED  BY <2>1 DEF Flagged
<1>5. QED  BY <1>1, <1>2, <1>3, <1>4

\* A new folder, the user's or of another device, takes its place.
LEMMA CreateKeeps ==
  ASSUME FoldersInv, NEW f \in ChatFolder, NEW p \in 0..MaxPosition, NEW local \in BOOLEAN,
         createChatFolder(f, p, local)
  PROVE  FoldersInv'
<1> USE DEF FoldersInv
<1>1. PICK row : row = NewFolder(FALSE, p, local)
  OBVIOUS
<1>2. /\ row \in FolderRows /\ row.there /\ row.all = FALSE /\ row.position = p /\ ~row.deleted
      /\ row.needsSync = local /\ FolderRecord(row) = p
  BY <1>1, PositionsFit DEF NewFolder, FolderRows, FolderRecord
<1>3. /\ ~chatFolders[f].there /\ ~edited[f].there /\ ~sent[f].there
      /\ chatFolders' = [chatFolders EXCEPT ![f] = row]
      /\ folderStorage' = IF local THEN folderStorage ELSE [folderStorage EXCEPT ![f] = p]
      /\ Shows(ShownAt(f, p, shown), kept /\ AtPosition(p) = {})
      /\ UNCHANGED <<edited, sent, ensuring, overtaken>>
  BY <1>1 DEF createChatFolder, FreshId
<1>4. /\ chatFolders' \in [ChatFolder -> FolderRows] /\ chatFolders'[f] = row
      /\ \A g \in ChatFolder \ {f} : chatFolders'[g] = chatFolders[g]
  BY <1>2, <1>3 DEF FoldersTypeOK
<1>5. /\ folderStorage' \in [ChatFolder -> -1..DeletedPosition]
      /\ \A g \in ChatFolder \ {f} : folderStorage'[g] = folderStorage[g]
      /\ ~local => folderStorage'[f] = p
  BY <1>3, PositionsFit DEF FoldersTypeOK
<1>6. AllsCurrent' /\ InHand(edited)' /\ InHand(sent)' /\ AllTold' /\ Flagged'
  BY <1>2, <1>3, <1>4, <1>5, SyncedKeeps DEF FoldersSynced, AllsCurrent, IsCurrent, AllTold
<1>7. OneOfAll'
  BY <1>2, <1>3, <1>4 DEF FoldersSynced, OneOfAll
<1>8. CurrentOf(chatFolders') = (CurrentOf(chatFolders) \ {}) \cup {f} /\ f \notin CurrentOf(chatFolders)
  BY <1>2, <1>3, <1>4 DEF CurrentOf, IsCurrent
<1>9. kept' => kept /\ AtPosition(p) = {} /\ shown' = ShownAt(f, p, shown)
  BY <1>3 DEF Shows
<1>10. OrderWithout({}, shown) = shown
  BY DEF OrderWithout
<1>11. kept' => getCurrentChatFolders(chatFolders') = shown' /\ Apart(chatFolders')
  <2> SUFFICES ASSUME kept'
               PROVE  getCurrentChatFolders(chatFolders') = shown' /\ Apart(chatFolders')
    OBVIOUS
  <2>1. PICK none : none = {}
    OBVIOUS
  <2>2. /\ f \notin CurrentOf(chatFolders) \ none /\ AtPosition(p) \subseteq none
        /\ CurrentOf(chatFolders') = (CurrentOf(chatFolders) \ none) \cup {f}
        /\ \A g \in CurrentOf(chatFolders) \ none : chatFolders'[g].position = chatFolders[g].position
    BY <1>4, <1>8, <1>9, <2>1 DEF CurrentOf
  <2>3. chatFolders'[f].position = p /\ kept
    BY <1>2, <1>4, <1>9
  <2>4. getCurrentChatFolders(chatFolders') = ShownAt(f, p, OrderWithout(none, shown)) /\ Apart(chatFolders')
    BY <1>4, <2>2, <2>3, FolderPlaced
  <2>5. QED  BY <1>9, <1>10, <2>1, <2>4
<1>12. shown' \subseteq ChatFolder \X ChatFolder /\ kept' \in BOOLEAN
  BY <1>3, <1>11 DEF Shows, getCurrentChatFolders, CurrentOf
<1>13. FoldersTypeOK'
  BY <1>3, <1>4, <1>5, <1>12 DEF FoldersTypeOK
<1>14. InOrder'
  BY <1>11 DEF InOrder, getCurrentChatFolders, Apart, CurrentOf, IsCurrent
<1>15. QED  BY <1>6, <1>7, <1>13, <1>14 DEF FoldersSynced

\* The all-chats folder of another device takes its place instead of the one there is.
LEMMA UpsertKeeps ==
  ASSUME FoldersInv, NEW f \in ChatFolder, NEW p \in 0..MaxPosition,
         upsertAllChatsChatFolderFromSync(f, p)
  PROVE  FoldersInv'
<1> USE DEF FoldersInv
<1>1. PICK row : row = NewFolder(TRUE, p, FALSE)
  OBVIOUS
<1>2. /\ row \in FolderRows /\ row.there = TRUE /\ row.all = TRUE /\ row.position = p /\ row.deleted = FALSE
      /\ row.needsSync = FALSE /\ FolderRecord(row) = p
  BY <1>1, PositionsFit DEF NewFolder, FolderRows, FolderRecord
<1>3. PICK alls : alls = {g \in CurrentOf(chatFolders) : chatFolders[g].all}
  OBVIOUS
<1>4. /\ NoUpload /\ (FreshId(f) \/ f \in alls)
      /\ chatFolders' = [g \in ChatFolder |-> IF g = f THEN row ELSE IF g \in alls THEN NoFolder ELSE chatFolders[g]]
      /\ folderStorage' = [folderStorage EXCEPT ![f] = p]
      /\ Shows(ShownAt(f, p, OrderWithout(alls, shown)), kept /\ AtPosition(p) \subseteq alls)
      /\ overtaken' = (overtaken \/ ensuring)
      /\ UNCHANGED <<edited, sent, ensuring>>
  BY <1>1, <1>3 DEF upsertAllChatsChatFolderFromSync
<1>5. \A g \in ChatFolder : g \in alls <=> chatFolders[g].all
  BY <1>3 DEF FoldersSynced, AllsCurrent, CurrentOf
<1>6. /\ chatFolders' \in [ChatFolder -> FolderRows] /\ chatFolders'[f] = row
      /\ \A g \in ChatFolder \ {f} : chatFolders'[g] = IF g \in alls THEN NoFolder ELSE chatFolders[g]
  BY <1>2, <1>4, PositionsFit DEF FoldersTypeOK
<1>7. /\ folderStorage' \in [ChatFolder -> -1..DeletedPosition] /\ folderStorage'[f] = p
      /\ \A g \in ChatFolder \ {f} : folderStorage'[g] = folderStorage[g]
  BY <1>4, PositionsFit DEF FoldersTypeOK
<1>8. /\ \A g \in ChatFolder : ~sent[g].there
      /\ chatFolders[f].there => chatFolders[f].all = TRUE
      /\ ~chatFolders[f].there => ~edited[f].there
  <2>1. FreshId(f) => ~chatFolders[f].there /\ ~edited[f].there
    BY DEF FreshId
  <2>2. f \in alls => chatFolders[f].there = TRUE /\ chatFolders[f].all = TRUE
    BY <1>3 DEF CurrentOf, IsCurrent, FoldersTypeOK, FolderRows
  <2>3. QED  BY <1>4, <2>1, <2>2 DEF NoUpload
<1>9. \A g \in ChatFolder \ {f} :
        /\ chatFolders'[g].there => chatFolders'[g] = chatFolders[g]
        /\ ~chatFolders'[g].all
  BY <1>5, <1>6 DEF NoFolder
<1>10. AllsCurrent' /\ InHand(edited)' /\ InHand(sent)' /\ AllTold' /\ Flagged'
  <2>1. ASSUME NEW g \in ChatFolder
        PROVE  /\ chatFolders'[g].all => chatFolders'[g].there /\ ~chatFolders'[g].deleted
               /\ chatFolders'[g].there /\ ~chatFolders[g].there => ~edited[g].there /\ ~sent[g].there
               /\ chatFolders'[g].there /\ chatFolders[g].there => chatFolders'[g].all = chatFolders[g].all
               /\ chatFolders'[g].there =>
                    \/ chatFolders'[g].needsSync
                    \/ folderStorage'[g] = FolderRecord(chatFolders'[g]) /\ ~sent[g].there
                    \/ /\ chatFolders[g].there /\ chatFolders'[g].needsSync = chatFolders[g].needsSync
                       /\ FolderRecord(chatFolders'[g]) = FolderRecord(chatFolders[g])
                       /\ folderStorage'[g] = folderStorage[g]
    <3>1. CASE g = f
      BY <1>2, <1>6, <1>7, <1>8, <3>1
    <3>2. CASE g # f
      BY <1>7, <1>9, <3>2
    <3>3. QED  BY <3>1, <3>2
  <2>2. UNCHANGED <<edited, sent>>
    BY <1>4
  <2>3. QED  BY <1>6, <1>7, <2>1, <2>2, SyncedKeeps
<1>11. OneOfAll'
  BY <1>4, <1>9 DEF FoldersSynced, OneOfAll
<1>12. CurrentOf(chatFolders') = (CurrentOf(chatFolders) \ alls) \cup {f}
       /\ f \notin CurrentOf(chatFolders) \ alls
  <2>1. \A g \in ChatFolder : IsCurrent(chatFolders'[g]) <=>
          g = f \/ (g \notin alls /\ IsCurrent(chatFolders[g]))
    BY <1>2, <1>6 DEF IsCurrent, NoFolder
  <2>2. f \in alls \/ ~IsCurrent(chatFolders[f])
    BY <1>4 DEF FreshId, IsCurrent
  <2>3. QED  BY <2>1, <2>2 DEF CurrentOf
<1>13. kept' => getCurrentChatFolders(chatFolders') = shown' /\ Apart(chatFolders')
  <2> SUFFICES ASSUME kept'
               PROVE  getCurrentChatFolders(chatFolders') = shown' /\ Apart(chatFolders')
    OBVIOUS
  <2>1. kept /\ AtPosition(p) \subseteq alls /\ shown' = ShownAt(f, p, OrderWithout(alls, shown))
    BY <1>4 DEF Shows
  <2>2. chatFolders'[f].position = p
    BY <1>2, <1>6
  <2>3. \A g \in CurrentOf(chatFolders) \ alls : chatFolders'[g].position = chatFolders[g].position
    BY <1>6, <1>12 DEF CurrentOf
  <2>4. QED  BY <1>6, <1>12, <2>1, <2>2, <2>3, FolderPlaced
<1>14. shown' \subseteq ChatFolder \X ChatFolder /\ kept' \in BOOLEAN
  BY <1>4, <1>13 DEF Shows, getCurrentChatFolders, CurrentOf
<1>15. FoldersTypeOK'
  BY <1>4, <1>6, <1>7, <1>14 DEF FoldersTypeOK
<1>16. InOrder'
  BY <1>13 DEF InOrder, getCurrentChatFolders, Apart, CurrentOf, IsCurrent
<1>17. QED  BY <1>10, <1>11, <1>15, <1>16 DEF FoldersSynced

\* The client's own all-chats folder stands ahead of the others, which are numbered.
LEMMA CreateAllKeeps ==
  ASSUME FoldersInv, NEW f \in ChatFolder, createAllChatsChatFolder(f)
  PROVE  FoldersInv'
<1> USE DEF FoldersInv
<1>1. PICK row : row = NewFolder(TRUE, 0, TRUE)
  OBVIOUS
<1>2. /\ row \in FolderRows /\ row.there = TRUE /\ row.all = TRUE /\ row.position = 0 /\ row.deleted = FALSE
      /\ row.needsSync = TRUE
  BY <1>1, PositionsFit DEF NewFolder, FolderRows
<1>3. /\ ensuring /\ ~chatFolders[f].there /\ ~edited[f].there /\ ~sent[f].there /\ ensuring' = FALSE
      /\ UNCHANGED <<edited, sent, folderStorage, overtaken>>
  BY DEF createAllChatsChatFolder, FreshId
<1>4. PICK number \in Numberings(chatFolders, 1) :
        /\ chatFolders' = [Numbered(chatFolders, number) EXCEPT ![f] = row]
        /\ Shows(ShownAt(f, 0, IF kept THEN shown ELSE OrderOf(number)), TRUE)
  BY <1>1 DEF createAllChatsChatFolder
<1>5. PICK moved : moved = Numbered(chatFolders, number)
  OBVIOUS
<1>6. PICK C \in SUBSET ChatFolder : C = CurrentOf(chatFolders)
  BY DEF CurrentOf
<1>7. /\ moved \in [ChatFolder -> FolderRows] /\ CurrentOf(moved) = C
      /\ getCurrentChatFolders(moved) = OrderOf(number)
      /\ Apart(moved)
      /\ Apart(chatFolders) => getCurrentChatFolders(chatFolders) = OrderOf(number)
      /\ \A g \in C : moved[g].position >= 1 /\ moved[g].needsSync
      /\ \A g \in ChatFolder : /\ moved[g].there = chatFolders[g].there /\ moved[g].all = chatFolders[g].all
                               /\ moved[g].deleted = chatFolders[g].deleted
      /\ \A g \in ChatFolder \ C : moved[g] = chatFolders[g]
  BY <1>4, <1>5, <1>6, NumbersKeepOrder DEF FoldersTypeOK
<1>8. /\ chatFolders' \in [ChatFolder -> FolderRows] /\ chatFolders'[f] = row
      /\ \A g \in ChatFolder \ {f} : chatFolders'[g] = moved[g]
  BY <1>2, <1>4, <1>5, <1>7
<1>9. AllsCurrent' /\ InHand(edited)' /\ InHand(sent)' /\ AllTold' /\ Flagged'
  <2>1. ASSUME NEW g \in ChatFolder
        PROVE  /\ chatFolders'[g].all => chatFolders'[g].there /\ ~chatFolders'[g].deleted
               /\ chatFolders'[g].there /\ ~chatFolders[g].there => ~edited[g].there /\ ~sent[g].there
               /\ chatFolders'[g].there /\ chatFolders[g].there => chatFolders'[g].all = chatFolders[g].all
               /\ chatFolders'[g].there =>
                    \/ chatFolders'[g].needsSync
                    \/ /\ chatFolders[g].there /\ chatFolders'[g].needsSync = chatFolders[g].needsSync
                       /\ FolderRecord(chatFolders'[g]) = FolderRecord(chatFolders[g])
                       /\ folderStorage'[g] = folderStorage[g]
    <3>1. CASE g = f
      BY <1>2, <1>3, <1>8, <3>1
    <3>2. CASE g # f
      BY <1>3, <1>7, <1>8, <3>2 DEF FoldersSynced, AllsCurrent, IsCurrent
    <3>3. QED  BY <3>1, <3>2
  <2>2. UNCHANGED <<edited, sent>> /\ folderStorage' \in [ChatFolder -> -1..DeletedPosition]
    BY <1>3 DEF FoldersTypeOK
  <2>3. QED  BY <1>8, <2>1, <2>2, SyncedKeeps
<1>10. OneOfAll'
  <2>1. ~overtaken => \A g \in ChatFolder \ {f} : ~chatFolders'[g].all
    BY <1>3, <1>7, <1>8 DEF FoldersSynced, OneOfAll
  <2>2. QED  BY <1>3, <2>1 DEF OneOfAll
<1>11. CurrentOf(chatFolders') = C \cup {f} /\ f \in ChatFolder \ C
  <2>1. \A g \in ChatFolder : IsCurrent(chatFolders'[g]) <=> g = f \/ IsCurrent(chatFolders[g])
    BY <1>2, <1>7, <1>8 DEF IsCurrent
  <2>2. ~IsCurrent(chatFolders[f])
    BY <1>3 DEF IsCurrent
  <2>3. QED  BY <1>6, <2>1, <2>2 DEF CurrentOf
<1>12. PICK order : order = OrderOf(number)
  OBVIOUS
<1>13. shown' = ShownAt(f, 0, order) /\ kept' = TRUE
  BY <1>4, <1>7, <1>12 DEF Shows, InOrder
<1>14. PICK new : new = chatFolders'
  OBVIOUS
<1>15. /\ \A g \in C : new[g].position = moved[g].position /\ new[g].position \in Int /\ new[g].position >= 1
       /\ \A g \in C : chatFolders[g].position \in Int /\ chatFolders[g].position >= 0
       /\ new[f].position = 0 /\ new \in [ChatFolder -> FolderRows]
  <2>1. ASSUME NEW g \in C
        PROVE  /\ new[g].position = moved[g].position /\ moved[g] \in FolderRows /\ moved[g].position >= 1
               /\ chatFolders[g] \in FolderRows
    BY <1>7, <1>8, <1>11, <1>14 DEF FoldersTypeOK
  <2>2. QED  BY <1>2, <1>8, <1>14, <2>1, PositionsFit
<1>16. getCurrentChatFolders(new) = ShownAt(f, 0, order)
  <2>1. /\ order \subseteq C \X C /\ \A g \in C : <<g, g>> \in order
        /\ \A g, h \in C : <<g, h>> \in order <=> new[g].position <= new[h].position
    <3>1. order = {e \in C \X C : moved[e[1]].position <= moved[e[2]].position}
      BY <1>7, <1>12 DEF getCurrentChatFolders
    <3>2. QED  BY <1>15, <3>1
  <2>2. \A g \in C : new[g].position # 0 /\ (chatFolders[g].position < 0 <=> new[g].position < 0)
    BY <1>15
  <2>3. QED  BY <1>11, <1>14, <1>15, <2>1, <2>2, PlaceByPosition
<1>17. Apart(new)
  <2>1. ASSUME NEW g \in C, NEW h \in C, g # h PROVE new[g].position # new[h].position
    BY <1>7, <1>15, <2>1 DEF Apart
  <2>2. \A g \in C : new[g].position # 0
    BY <1>15
  <2>3. QED  BY <1>11, <1>14, <1>15, <2>1, <2>2 DEF Apart
<1>18. shown' \subseteq ChatFolder \X ChatFolder
  BY <1>13, <1>16 DEF getCurrentChatFolders, CurrentOf
<1>19. FoldersTypeOK'
  BY <1>3, <1>8, <1>13, <1>18 DEF FoldersTypeOK
<1>20. InOrder'
  BY <1>13, <1>14, <1>16, <1>17 DEF InOrder, getCurrentChatFolders, Apart, CurrentOf, IsCurrent
<1>21. QED  BY <1>9, <1>10, <1>19, <1>20 DEF FoldersSynced

\* Folders that are deleted leave the order; the others stay as they were.
LEMMA OrderOfRest ==
  ASSUME FoldersInv, NEW gone \in [ChatFolder -> FolderRows], NEW f \in ChatFolder, gone[f].deleted,
         \A g \in ChatFolder \ {f} : gone[g] = chatFolders[g]
  PROVE  /\ CurrentOf(gone) = CurrentOf(chatFolders) \ {f}
         /\ kept => getCurrentChatFolders(gone) = OrderWithout({f}, shown) /\ Apart(gone)
<1>1. PICK C \in SUBSET ChatFolder : C = CurrentOf(chatFolders)
  BY DEF CurrentOf
<1>2. CurrentOf(gone) = C \ {f}
  BY <1>1 DEF CurrentOf, IsCurrent
<1>3. ASSUME kept
      PROVE  getCurrentChatFolders(gone) = OrderWithout({f}, shown) /\ Apart(gone)
  <2>1. /\ shown = {e \in C \X C : chatFolders[e[1]].position <= chatFolders[e[2]].position}
        /\ \A g, h \in C : g # h => chatFolders[g].position # chatFolders[h].position
    BY <1>1, <1>3 DEF FoldersInv, InOrder, getCurrentChatFolders, Apart
  <2>2. \A g \in C \ {f} : gone[g].position = chatFolders[g].position
    OBVIOUS
  <2>3. getCurrentChatFolders(gone) = OrderWithout({f}, shown)
    BY <1>2, <2>1, <2>2 DEF getCurrentChatFolders, OrderWithout
  <2>4. Apart(gone)
    BY <1>2, <2>1, <2>2 DEF Apart
  <2>5. QED  BY <2>3, <2>4
<1>4. QED  BY <1>1, <1>2, <1>3

\* A deleted folder leaves the order, which closes up or, by another device, does not.
LEMMA FolderDeleteKeeps ==
  ASSUME FoldersInv, NEW f \in ChatFolder,
         \/ \E flag \in BOOLEAN : markChatFolderDeleted(f, flag)
         \/ updateChatFolderDeletedAtTimestampMsFromSync(f)
  PROVE  FoldersInv'
<1> USE DEF FoldersInv
<1>1. DeletedPosition \in -1..DeletedPosition /\ DeletedPosition \in 0..DeletedPosition
  BY PositionsFit
<1>2. ASSUME NEW flag \in BOOLEAN, markChatFolderDeleted(f, flag)
      PROVE  FoldersInv'
  <2>1. PICK row : row = [chatFolders[f] EXCEPT !.deleted = TRUE, !.position = DeletedPosition, !.needsSync = flag]
    OBVIOUS
  <2>2. /\ row \in FolderRows /\ row.deleted = TRUE /\ row.needsSync = flag /\ row.all = chatFolders[f].all
        /\ row.there = chatFolders[f].there
    <3>1. chatFolders[f] \in FolderRows
      BY DEF FoldersTypeOK
    <3>2. PICK at \in 0..DeletedPosition : at = DeletedPosition
      BY <1>1
    <3>3. row = [chatFolders[f] EXCEPT !.deleted = TRUE, !.position = at, !.needsSync = flag]
      BY <2>1, <3>2
    <3>4. QED  BY <3>1, <3>3 DEF FolderRows
  <2>3. FolderRecord(row) = DeletedPosition
    BY <2>2 DEF FolderRecord
  <2>4. PICK marked : marked = [chatFolders EXCEPT ![f] = row]
    OBVIOUS
  <2>5. /\ marked \in [ChatFolder -> FolderRows] /\ marked[f] = row
        /\ \A g \in ChatFolder \ {f} : marked[g] = chatFolders[g]
    BY <2>2, <2>4 DEF FoldersTypeOK
  <2>6. marked = [chatFolders EXCEPT ![f].deleted = TRUE, ![f].position = DeletedPosition, ![f].needsSync = flag]
    BY <2>1, <2>4 DEF FoldersTypeOK
  <2>7. /\ chatFolders[f].there /\ ~chatFolders[f].all /\ (flag \/ NoUpload)
        /\ folderStorage' = IF flag THEN folderStorage ELSE [folderStorage EXCEPT ![f] = DeletedPosition]
        /\ UNCHANGED <<edited, sent, ensuring, overtaken>>
    BY <1>2 DEF markChatFolderDeleted
  <2>8. PICK number \in Numberings(marked, 0) :
          /\ chatFolders' = Numbered(marked, number)
          /\ Shows(IF kept THEN OrderWithout({f}, shown) ELSE OrderOf(number), TRUE)
    BY <1>2, <2>6 DEF markChatFolderDeleted
  <2>9. PICK new : new = chatFolders'
    OBVIOUS
  <2>10. /\ new \in [ChatFolder -> FolderRows] /\ CurrentOf(new) = CurrentOf(marked)
         /\ getCurrentChatFolders(new) = OrderOf(number)
         /\ Apart(new)
         /\ Apart(marked) => getCurrentChatFolders(marked) = OrderOf(number)
         /\ \A g \in CurrentOf(marked) : new[g].needsSync
         /\ \A g \in ChatFolder : /\ new[g].there = marked[g].there /\ new[g].all = marked[g].all
                                  /\ new[g].deleted = marked[g].deleted
         /\ \A g \in ChatFolder \ CurrentOf(marked) : new[g] = marked[g]
    BY <2>5, <2>8, <2>9, NumbersKeepOrder
  <2>11. /\ CurrentOf(marked) = CurrentOf(chatFolders) \ {f}
         /\ kept => getCurrentChatFolders(marked) = OrderWithout({f}, shown) /\ Apart(marked)
    BY <2>2, <2>5, OrderOfRest
  <2>12. kept' = TRUE /\ shown' = OrderOf(number)
    BY <2>8, <2>10, <2>11 DEF Shows
  <2>13. /\ folderStorage' \in [ChatFolder -> -1..DeletedPosition]
         /\ \A g \in ChatFolder \ {f} : folderStorage'[g] = folderStorage[g]
         /\ ~flag => folderStorage'[f] = DeletedPosition /\ ~sent[f].there
    BY <1>1, <2>7 DEF FoldersTypeOK, NoUpload
  <2>14. new[f] = row
    BY <2>5, <2>10, <2>11
  <2>15. AllsCurrent' /\ InHand(edited)' /\ InHand(sent)' /\ AllTold' /\ Flagged'
    <3>1. ASSUME NEW g \in ChatFolder
          PROVE  /\ new[g].all => new[g].there /\ ~new[g].deleted
                 /\ new[g].there /\ ~chatFolders[g].there => ~edited[g].there /\ ~sent[g].there
                 /\ new[g].there /\ chatFolders[g].there => new[g].all = chatFolders[g].all
                 /\ new[g].there =>
                      \/ new[g].needsSync
                      \/ folderStorage'[g] = FolderRecord(new[g]) /\ ~sent[g].there
                      \/ /\ chatFolders[g].there /\ new[g].needsSync = chatFolders[g].needsSync
                         /\ FolderRecord(new[g]) = FolderRecord(chatFolders[g])
                         /\ folderStorage'[g] = folderStorage[g]
      <4>1. CASE g = f
        BY <2>2, <2>3, <2>7, <2>13, <2>14, <4>1
      <4>2. CASE g # f
        BY <2>5, <2>10, <2>13, <4>2 DEF FoldersSynced, AllsCurrent, IsCurrent
      <4>3. QED  BY <4>1, <4>2
    <3>2. UNCHANGED <<edited, sent>>
      BY <2>7
    <3>3. QED  BY <2>9, <2>10, <2>13, <3>1, <3>2, SyncedKeeps
  <2>16. \A g \in ChatFolder : new[g].all = chatFolders[g].all
    BY <2>2, <2>5, <2>10
  <2>17. OneOfAll'
    BY <2>7, <2>9, <2>16 DEF FoldersSynced, OneOfAll
  <2>18. shown' \subseteq ChatFolder \X ChatFolder
    BY <2>10, <2>12 DEF getCurrentChatFolders, CurrentOf
  <2>19. FoldersTypeOK'
    BY <2>7, <2>9, <2>10, <2>12, <2>13, <2>18 DEF FoldersTypeOK
  <2>20. InOrder'
    BY <2>9, <2>10, <2>12 DEF InOrder, getCurrentChatFolders, Apart, CurrentOf, IsCurrent
  <2>21. QED  BY <2>15, <2>17, <2>19, <2>20 DEF FoldersSynced
<1>3. ASSUME updateChatFolderDeletedAtTimestampMsFromSync(f)
      PROVE  FoldersInv'
  <2>1. PICK row : row = [chatFolders[f] EXCEPT !.deleted = TRUE]
    OBVIOUS
  <2>2. /\ row \in FolderRows /\ row.deleted = TRUE /\ row.all = chatFolders[f].all
        /\ row.there = chatFolders[f].there
    BY <2>1 DEF FoldersTypeOK, FolderRows
  <2>3. FolderRecord(row) = DeletedPosition
    BY <2>2 DEF FolderRecord
  <2>4. /\ chatFolders[f].there /\ ~chatFolders[f].all /\ NoUpload
        /\ chatFolders' = [chatFolders EXCEPT ![f] = row]
        /\ folderStorage' = [folderStorage EXCEPT ![f] = DeletedPosition]
        /\ Shows(OrderWithout({f}, shown), kept)
        /\ UNCHANGED <<edited, sent, ensuring, overtaken>>
    BY <1>3, <2>1 DEF updateChatFolderDeletedAtTimestampMsFromSync, FoldersTypeOK
  <2>5. PICK new : new = chatFolders'
    OBVIOUS
  <2>6. /\ new \in [ChatFolder -> FolderRows] /\ new[f] = row
        /\ \A g \in ChatFolder \ {f} : new[g] = chatFolders[g]
    BY <2>2, <2>4, <2>5 DEF FoldersTypeOK
  <2>7. /\ folderStorage' \in [ChatFolder -> -1..DeletedPosition] /\ folderStorage'[f] = DeletedPosition
        /\ \A g \in ChatFolder \ {f} : folderStorage'[g] = folderStorage[g]
    BY <1>1, <2>4 DEF FoldersTypeOK
  <2>8. kept => getCurrentChatFolders(new) = OrderWithout({f}, shown) /\ Apart(new)
    BY <2>2, <2>6, OrderOfRest
  <2>9. AllsCurrent' /\ InHand(edited)' /\ InHand(sent)' /\ AllTold' /\ Flagged'
    <3>1. ASSUME NEW g \in ChatFolder
          PROVE  /\ new[g].all => new[g].there /\ ~new[g].deleted
                 /\ new[g].there /\ ~chatFolders[g].there => ~edited[g].there /\ ~sent[g].there
                 /\ new[g].there /\ chatFolders[g].there => new[g].all = chatFolders[g].all
                 /\ new[g].there =>
                      \/ new[g].needsSync
                      \/ folderStorage'[g] = FolderRecord(new[g]) /\ ~sent[g].there
                      \/ /\ chatFolders[g].there /\ new[g].needsSync = chatFolders[g].needsSync
                         /\ FolderRecord(new[g]) = FolderRecord(chatFolders[g])
                         /\ folderStorage'[g] = folderStorage[g]
      <4>1. CASE g = f
        BY <2>2, <2>3, <2>4, <2>6, <2>7, <4>1 DEF NoUpload
      <4>2. CASE g # f
        BY <2>6, <2>7, <4>2 DEF FoldersSynced, AllsCurrent, IsCurrent
      <4>3. QED  BY <4>1, <4>2
    <3>2. UNCHANGED <<edited, sent>>
      BY <2>4
    <3>3. QED  BY <2>5, <2>6, <2>7, <3>1, <3>2, SyncedKeeps
  <2>10. \A g \in ChatFolder : new[g].all = chatFolders[g].all
    BY <2>2, <2>6
  <2>11. OneOfAll'
    BY <2>4, <2>5, <2>10 DEF FoldersSynced, OneOfAll
  <2>12. kept' = kept /\ (kept => shown' = OrderWithout({f}, shown)) /\ shown' \subseteq ChatFolder \X ChatFolder
    BY <2>4 DEF Shows, OrderWithout, FoldersTypeOK
  <2>13. FoldersTypeOK'
    BY <2>4, <2>5, <2>6, <2>7, <2>12 DEF FoldersTypeOK
  <2>14. InOrder'
    BY <2>5, <2>8, <2>12 DEF InOrder, getCurrentChatFolders, Apart, CurrentOf, IsCurrent
  <2>15. QED  BY <2>9, <2>11, <2>13, <2>14 DEF FoldersSynced
<1>4. QED  BY <1>2, <1>3

\* Rows of deleted folders go.
LEMMA ExpiredKeep ==
  ASSUME FoldersInv, NEW expired \in SUBSET ChatFolder, deleteExpiredChatFolders(expired)
  PROVE  FoldersInv'
<1> USE DEF FoldersInv
<1>1. /\ \A g \in expired : chatFolders[g].deleted
      /\ chatFolders' = [g \in ChatFolder |-> IF g \in expired THEN NoFolder ELSE chatFolders[g]]
      /\ UNCHANGED <<edited, sent, folderStorage, ensuring, kept, shown, overtaken>>
  BY DEF deleteExpiredChatFolders
<1>2. FoldersTypeOK'
  BY <1>1, PositionsFit DEF FoldersTypeOK
<1>3. \A g \in ChatFolder : IF g \in expired THEN chatFolders'[g] = NoFolder ELSE chatFolders'[g] = chatFolders[g]
  BY <1>1
<1>4. AllsCurrent' /\ InHand(edited)' /\ InHand(sent)' /\ AllTold' /\ Flagged'
  <2>1. ASSUME NEW g \in ChatFolder
        PROVE  /\ chatFolders'[g].all => chatFolders'[g].there /\ ~chatFolders'[g].deleted
               /\ chatFolders'[g].there => chatFolders'[g] = chatFolders[g]
    BY <1>3 DEF FoldersSynced, AllsCurrent, IsCurrent, NoFolder
  <2>2. chatFolders' \in [ChatFolder -> FolderRows] /\ folderStorage' \in [ChatFolder -> -1..DeletedPosition]
    BY <1>2 DEF FoldersTypeOK
  <2>3. QED  BY <1>1, <2>1, <2>2, SyncedKeeps
<1>5. OneOfAll'
  BY <1>1, <1>3 DEF FoldersSynced, OneOfAll, NoFolder
<1>6. PICK C \in SUBSET ChatFolder : C = CurrentOf(chatFolders) /\ C = CurrentOf(chatFolders')
  BY <1>1, <1>3 DEF CurrentOf, IsCurrent, NoFolder
<1>7. \A g \in C : chatFolders'[g] = chatFolders[g]
  BY <1>1, <1>3, <1>6 DEF CurrentOf, IsCurrent
<1>8. getCurrentChatFolders(chatFolders') = getCurrentChatFolders(chatFolders)
  BY <1>6, <1>7 DEF getCurrentChatFolders
<1>9. Apart(chatFolders) => Apart(chatFolders')
  BY <1>6, <1>7 DEF Apart
<1>10. InOrder'
  BY <1>1, <1>8, <1>9 DEF InOrder, getCurrentChatFolders, Apart, CurrentOf, IsCurrent
<1>11. QED  BY <1>2, <1>4, <1>5, <1>10 DEF FoldersSynced

\* An order of the user: all current folders take its numbers, or it does not mend.
LEMMA PositionsMoveKeeps ==
  ASSUME FoldersInv, NEW F \in SUBSET ChatFolder, NEW number \in Orders(F), updateChatFolderPositions(number)
  PROVE  FoldersInv'
<1> USE DEF FoldersInv
<1>1. /\ number \in [F -> 0..MaxPosition] /\ DOMAIN number = F
      /\ \A g, h \in F : g # h => number[g] # number[h]
  BY DEF Orders
<1>2. /\ chatFolders' = Numbered(chatFolders, number)
      /\ Shows(OrderWithout(ChatFolder \ CurrentOf(chatFolders), OrderOf(number)),
               CurrentOf(chatFolders) \subseteq F)
      /\ UNCHANGED <<edited, sent, folderStorage, ensuring, overtaken>>
  BY <1>1 DEF updateChatFolderPositions
<1>3. PICK new : new = chatFolders'
  OBVIOUS
<1>4. /\ new = [g \in ChatFolder |-> IF g \in F
                  THEN [chatFolders[g] EXCEPT !.position = number[g], !.needsSync = TRUE] ELSE chatFolders[g]]
  BY <1>1, <1>2, <1>3 DEF Numbered
<1>5. ASSUME NEW g \in F
      PROVE  /\ new[g] \in FolderRows
             /\ new[g].position = number[g] /\ new[g].needsSync = TRUE
             /\ new[g].there = chatFolders[g].there /\ new[g].all = chatFolders[g].all
             /\ new[g].deleted = chatFolders[g].deleted
  <2>1. PICK n \in 0..DeletedPosition : n = number[g]
    BY <1>1, PositionsFit
  <2>2. chatFolders[g] \in FolderRows /\ new[g] = [chatFolders[g] EXCEPT !.position = n, !.needsSync = TRUE]
    BY <1>4, <2>1 DEF FoldersTypeOK
  <2>3. QED  BY <2>1, <2>2 DEF FolderRows
<1>6. \A g \in ChatFolder \ F : new[g] = chatFolders[g]
  BY <1>4
<1>7. new \in [ChatFolder -> FolderRows]
  BY <1>4, <1>5, <1>6 DEF FoldersTypeOK
<1>8. \A g \in ChatFolder : /\ new[g].there = chatFolders[g].there /\ new[g].all = chatFolders[g].all
                            /\ new[g].deleted = chatFolders[g].deleted
  BY <1>5, <1>6
<1>9. AllsCurrent' /\ InHand(edited)' /\ InHand(sent)' /\ AllTold' /\ Flagged'
  <2>1. ASSUME NEW g \in ChatFolder
        PROVE  /\ new[g].all => new[g].there /\ ~new[g].deleted
               /\ new[g].there = chatFolders[g].there /\ new[g].all = chatFolders[g].all
               /\ new[g].needsSync \/ new[g] = chatFolders[g]
    BY <1>5, <1>6, <1>8 DEF FoldersSynced, AllsCurrent, IsCurrent
  <2>2. UNCHANGED <<edited, sent, folderStorage>> /\ folderStorage' \in [ChatFolder -> -1..DeletedPosition]
    BY <1>2 DEF FoldersTypeOK
  <2>3. QED  BY <1>3, <1>7, <2>1, <2>2, SyncedKeeps
<1>10. OneOfAll'
  BY <1>2, <1>3, <1>8 DEF FoldersSynced, OneOfAll
<1>11. PICK C \in SUBSET ChatFolder : C = CurrentOf(chatFolders) /\ C = CurrentOf(new)
  BY <1>8 DEF CurrentOf, IsCurrent
<1>12. ASSUME kept' PROVE getCurrentChatFolders(new) = shown' /\ Apart(new)
  <2>1. C \subseteq F /\ shown' = OrderWithout(ChatFolder \ C, OrderOf(number))
    BY <1>2, <1>11, <1>12 DEF Shows
  <2>2. OrderOf(number) = {e \in F \X F : number[e[1]] <= number[e[2]]}
    BY <1>1 DEF OrderOf
  <2>3. shown' = {e \in C \X C : number[e[1]] <= number[e[2]]}
    BY <2>1, <2>2 DEF OrderWithout
  <2>4. \A g \in C : new[g].position = number[g]
    BY <1>5, <2>1
  <2>5. getCurrentChatFolders(new) = shown'
    BY <1>11, <2>3, <2>4 DEF getCurrentChatFolders
  <2>6. ASSUME NEW g \in C, NEW h \in C, g # h PROVE new[g].position # new[h].position
    <3>1. number[g] # number[h]
      BY <1>1, <2>1, <2>6
    <3>2. QED  BY <2>4, <3>1
  <2>7. Apart(new)
    BY <1>11, <2>6 DEF Apart
  <2>8. QED  BY <2>5, <2>7
<1>13. shown' \subseteq ChatFolder \X ChatFolder /\ kept' \in BOOLEAN
  BY <1>2, <1>12 DEF Shows, getCurrentChatFolders, CurrentOf
<1>14. FoldersTypeOK'
  BY <1>2, <1>3, <1>7, <1>13 DEF FoldersTypeOK
<1>15. InOrder'
  BY <1>3, <1>12 DEF InOrder, getCurrentChatFolders, Apart, CurrentOf, IsCurrent
<1>16. QED  BY <1>9, <1>10, <1>14, <1>15 DEF FoldersSynced

\* Every step keeps the invariant.
LEMMA FoldersSafe == FoldersSpec => []FoldersInv
<1>1. FoldersInv /\ [FoldersNext]_folderVars => FoldersInv'
  <2> SUFFICES ASSUME FoldersInv, [FoldersNext]_folderVars PROVE FoldersInv'
    OBVIOUS
  <2>1. CASE FoldersNext
    BY <2>1, ReadsKeep, WritesKeep, CreateKeeps, UpsertKeeps, CreateAllKeeps, FolderDeleteKeeps,
       ExpiredKeep, PositionsMoveKeeps DEF FoldersNext
  <2>2. CASE UNCHANGED folderVars
    <3>1. FoldersTypeOK'
      BY <2>2 DEF folderVars, FoldersInv, FoldersTypeOK
    <3>2. FoldersSynced'
      BY <2>2 DEF folderVars, FoldersInv, FoldersSynced, AllsCurrent, OneOfAll, InHand, AllTold, Flagged,
                  FolderRecord, IsCurrent
    <3>3. InOrder'
      BY <2>2 DEF folderVars, FoldersInv, InOrder, Apart, getCurrentChatFolders, CurrentOf, IsCurrent
    <3>4. QED  BY <3>1, <3>2, <3>3 DEF FoldersInv
  <2>3. QED  BY <2>1, <2>2
<1>2. QED  BY FoldersStart, <1>1, PTL DEF FoldersSpec

\* However folders come, go and move, here and on other devices, over edits and uploads
\* that write back the row they read: the query returns the current folders as the user
\* left them, at positions of their own, as long as no position was taken twice and no
\* row written back over a change of its position or deletion, and again from the next
\* numbering on; there is one folder of all chats at most, unless the storage service
\* overtook the client's creation of one; and what is not flagged the service has
\* (sql.js 3903-4025).
THEOREM FoldersStayInOrder == FoldersSpec => []FoldersInOrder
<1>1. FoldersInv => FoldersInOrder
  BY DEF FoldersInv, FoldersInOrder, FoldersSynced, InOrder, Apart, OneOfAll, AllTold, CurrentOf
<1>2. QED  BY <1>1, FoldersSafe, PTL
=============================================================================
