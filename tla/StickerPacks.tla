---------------------------- MODULE StickerPacks ----------------------------
(***************************************************************************)
(* Sticker packs (bundles/workers/sql.js): the packs, the references that  *)
(* messages hold on them, the list of uninstalled packs, and what the      *)
(* storage service of the account has been told of either.  The client     *)
(* reads a pack's record, uploads it, and stores the outcome in a third    *)
(* call: installs and removals come between.                               *)
(***************************************************************************)
EXTENDS Integers

CONSTANTS
  Pack,       \* sticker packs
  RefMessage  \* messages with stickers

VARIABLES
  packs,       \* table sticker_packs: pack -> [status, hasID, needsSync], status "absent" if none
  references,  \* table sticker_references: <<message, pack>>
  uninstalled, \* table uninstalled_sticker_packs: pack -> "no", "told" or "needsSync"
  uploading,   \* per pack, the record the client is uploading
  storage,     \* per pack, what the storage service holds
  astray       \* history, read by no action: the packs of which a call dropped what the
               \* service is to be told, until they are next installed or uninstalled
stickerVars == <<packs, references, uninstalled, uploading, storage, astray>>

NoPack == [status |-> "absent", hasID |-> FALSE, needsSync |-> FALSE]
Records == {"none", "installed", "removed"}

StickersInit ==
  /\ packs = [p \in Pack |-> NoPack]
  /\ references = {}
  /\ uninstalled = [p \in Pack |-> "no"]
  /\ uploading = [p \in Pack |-> "none"]
  /\ storage = [p \in Pack |-> "none"]
  /\ astray = {}

HasPack(p)   == packs[p].status # "absent"
Installed(p) == packs[p].status = "installed"
\* "downloaded" stands for every status of a pack that is there and not installed.
Statuses == {"downloaded", "installed"}
Astray(p, dropped) == astray' = IF dropped THEN astray \cup {p} ELSE astray
----------------------------------------------------------------------------
\* UPDATE ... SET status WHERE id: nothing else of the row that matters here.
StatusWritten(p, status) ==
  packs' = [packs EXCEPT ![p].status = IF HasPack(p) THEN status ELSE @]

\* Inserted, or written over with the status of the caller, whatever it was; the
\* columns of the storage service stay.
createOrUpdateStickerPack(p, status) ==
  /\ \/ HasPack(p) /\ StatusWritten(p, status)
     \/ ~HasPack(p) /\ packs' = [packs EXCEPT ![p] = [NoPack EXCEPT !.status = status]]
  /\ Astray(p, Installed(p) # (status = "installed"))
  /\ UNCHANGED <<references, uninstalled, uploading, storage>>

updateStickerPackStatus(p, status) ==
  /\ StatusWritten(p, status)
  /\ Astray(p, HasPack(p) /\ Installed(p) # (status = "installed"))
  /\ UNCHANGED <<references, uninstalled, uploading, storage>>

addStickerPackReference(m, p) ==
  /\ HasPack(p)
  /\ references' = references \cup {<<m, p>>}
  /\ UNCHANGED <<packs, uninstalled, uploading, storage, astray>>

\* ON DELETE CASCADE takes the references and stickers with the pack.
DeletePack(p) ==
  /\ packs' = [packs EXCEPT ![p] = NoPack]
  /\ references' = {r \in references : r[2] # p}

deleteStickerPackReference(m, p) ==
  LET others == {r \in references : r[2] = p} \ {<<m, p>>} IN
  /\ IF others = {} /\ ~Installed(p)
     THEN DeletePack(p)
     ELSE references' = references \ {<<m, p>>} /\ UNCHANGED packs
  /\ UNCHANGED <<uninstalled, uploading, storage, astray>>

deleteStickerPack(p) ==
  /\ DeletePack(p)
  /\ Astray(p, Installed(p))
  /\ UNCHANGED <<uninstalled, uploading, storage>>

\* removeUninstalledStickerPack, updateStickerPackStatus, and the flag if it was not
\* installed before; of a pack that has no row only the removal is forgotten.
installStickerPack(p) ==
  /\ uninstalled' = [uninstalled EXCEPT ![p] = "no"]
  /\ packs' = [packs EXCEPT ![p] =
                 IF HasPack(p)
                 THEN [@ EXCEPT !.status = "installed", !.needsSync = packs[p].needsSync \/ ~Installed(p)]
                 ELSE @]
  /\ IF HasPack(p) /\ ~Installed(p) THEN astray' = astray \ {p}
     ELSE Astray(p, ~HasPack(p) /\ uninstalled[p] = "needsSync")
  /\ UNCHANGED <<references, uploading, storage>>

\* INSERT OR REPLACE: a removal that is still to be told is written over.
addUninstalledStickerPack(p, flag) ==
  /\ uninstalled' = [uninstalled EXCEPT ![p] = IF flag THEN "needsSync" ELSE "told"]
  /\ Astray(p, Installed(p) \/ (~flag /\ uninstalled[p] = "needsSync"))
  /\ UNCHANGED <<packs, references, uploading, storage>>

\* updateStickerPackStatus, the storage columns, and addUninstalledStickerPack with the
\* flag if it was installed before.
uninstallStickerPack(p) ==
  /\ uninstalled' = [uninstalled EXCEPT ![p] = IF Installed(p) THEN "needsSync" ELSE "told"]
  /\ packs' = [packs EXCEPT ![p] = IF HasPack(p) THEN [NoPack EXCEPT !.status = "downloaded"] ELSE @]
  /\ IF Installed(p) THEN astray' = astray \ {p}
     ELSE Astray(p, uninstalled[p] = "needsSync")
  /\ UNCHANGED <<references, uploading, storage>>
----------------------------------------------------------------------------
\* getInstalledStickerPacks and getUninstalledStickerPacks: what an upload finds to do.
PendingRecord(p) ==
  CASE uninstalled[p] = "needsSync" -> "removed"
    [] uninstalled[p] # "needsSync" /\ Installed(p)
         /\ (packs[p].needsSync \/ ~packs[p].hasID) -> "installed"
    [] OTHER -> "none"
BeginUpload(p) ==
  /\ uploading[p] = "none" /\ PendingRecord(p) # "none"
  /\ uploading' = [uploading EXCEPT ![p] = PendingRecord(p)]
  /\ UNCHANGED <<packs, references, uninstalled, storage, astray>>

\* updateStickerPackStorageInfo writes the table that the uploaded record came from.
updateStorageOfBoth(p, record) ==
  /\ uninstalled' = [uninstalled EXCEPT ![p] = IF @ = "no" THEN @ ELSE "told"]
  /\ packs' = [packs EXCEPT ![p] = IF HasPack(p) THEN [@ EXCEPT !.hasID = TRUE, !.needsSync = FALSE] ELSE @]
updateStickerPackStorageInfo(p, record) ==
  \/ /\ record = "removed"
     /\ uninstalled' = [uninstalled EXCEPT ![p] = IF @ = "no" THEN @ ELSE "told"]
     /\ UNCHANGED packs
  \/ /\ record = "installed"
     /\ packs' = [packs EXCEPT ![p] = IF HasPack(p) THEN [@ EXCEPT !.hasID = TRUE, !.needsSync = FALSE] ELSE @]
     /\ UNCHANGED uninstalled

\* The service took the record or not; the answer, or the client, may be lost after
\* it did.
EndUpload(p) ==
  /\ uploading[p] # "none"
  /\ uploading' = [uploading EXCEPT ![p] = "none"]
  /\ \/ /\ storage' = [storage EXCEPT ![p] = uploading[p]]
        /\ updateStickerPackStorageInfo(p, uploading[p])
     \/ /\ storage' \in {storage, [storage EXCEPT ![p] = uploading[p]]}
        /\ UNCHANGED <<packs, uninstalled>>
  /\ UNCHANGED <<references, astray>>

\* removeAll, when the account is unlinked.
removeAllStickers ==
  /\ packs' = [p \in Pack |-> NoPack]
  /\ references' = {}
  /\ uninstalled' = [p \in Pack |-> "no"]
  /\ uploading' = [p \in Pack |-> "none"]
  /\ storage' = [p \in Pack |-> "none"]
  /\ astray' = {}

StickersNext ==
  \/ \E p \in Pack :
       \/ \E status \in Statuses :
            createOrUpdateStickerPack(p, status) \/ updateStickerPackStatus(p, status)
       \/ deleteStickerPack(p)
       \/ \E flag \in BOOLEAN : addUninstalledStickerPack(p, flag)
       \/ installStickerPack(p) \/ uninstallStickerPack(p)
       \/ BeginUpload(p) \/ EndUpload(p)
       \/ \E m \in RefMessage : addStickerPackReference(m, p) \/ deleteStickerPackReference(m, p)
  \/ removeAllStickers
StickersSpec == StickersInit /\ [][StickersNext]_stickerVars
----------------------------------------------------------------------------
StickersTypeOK ==
  /\ packs \in [Pack -> [status : {"absent", "downloaded", "installed"}, hasID : BOOLEAN, needsSync : BOOLEAN]]
  /\ references \subseteq RefMessage \X Pack
  /\ uninstalled \in [Pack -> {"no", "told", "needsSync"}]
  /\ uploading \in [Pack -> Records] /\ storage \in [Pack -> Records]
  /\ astray \subseteq Pack

(* No install or removal is lost to an upload that was under way, nor to    *)
(* the pack going with its last reference: a pack that the service lists is *)
(* installed or its removal is still to be uploaded, one it does not list   *)
(* is not installed or still to be uploaded, and none is both installed and *)
(* in the list of uninstalled.  The calls that drop what the service is to  *)
(* be told are these alone: a write of the status, or a deletion of the     *)
(* row, that changes whether the pack is installed; an entry in the list    *)
(* for an installed pack; and an unflagged entry, an uninstall of a pack    *)
(* that is not installed or an install of one that has no row, each over a  *)
(* removal yet to be told.  The next install or uninstall of the pack mends *)
(* it, whatever upload is under way (sql.js 5622-5716, 5751-5830).          *)
StorageKnowsPacks ==
  \A p \in Pack \ astray :
    /\ storage[p] = "installed" => Installed(p) \/ uninstalled[p] = "needsSync"
    /\ storage[p] # "installed" /\ Installed(p) => packs[p].needsSync \/ ~packs[p].hasID
    /\ Installed(p) => uninstalled[p] = "no"
=============================================================================
