------------------------------ MODULE MCParts ------------------------------
(***************************************************************************)
(* The parts of the server that share no state with one another, checked   *)
(* in one run: a behaviour picks one part and runs it; the others rest in  *)
(* an initial state, pinned to one where theirs leaves a choice.           *)
(***************************************************************************)
EXTENDS AttachmentServer, OptionalResources, ServerStart, HttpExchange, NestStream,
        AttachmentJobs, AttachmentFiles, MessageTables, SendLog, StickerPacks, CallLinks,
        ChatFolders, PinnedMessages, SignalInbox, BootPayload, SyncTasks

Asked == [method |-> "GET", version |-> "v2", path |-> "ok", disposition |-> TRUE,
          hasKey |-> TRUE, hasSize |-> TRUE, range |-> NoRange]
MCQueries ==
  {Asked,
   [Asked EXCEPT !.range = [start |-> 1, end |-> -1]],
   [Asked EXCEPT !.range = [start |-> 0, end |-> 3]],
   [Asked EXCEPT !.method = "HEAD"],
   [Asked EXCEPT !.version = "v1"],
   [Asked EXCEPT !.version = "v1", !.range = [start |-> 1, end |-> 1]],
   [Asked EXCEPT !.path = "dots"],
   [Asked EXCEPT !.path = "linkOut"],
   [Asked EXCEPT !.hasKey = FALSE],
   [Asked EXCEPT !.method = "POST"]}
MCBodies == {<<"ready", "event">>, <<"bad", "blank", "ready">>}
MCDeviceOf == [r \in Recipient |-> IF r = "a" THEN {1, 2} ELSE {1}]

MCConversationOf == [m \in PinMessage |-> IF m = "p4" THEN "c2" ELSE "c1"]

\* e1 and e4, and e2 and e3, are one message sent twice.
MCKeyOf     == [e \in Envelope |-> IF e \in {"e1", "e4"} THEN "own" ELSE "last"]
MCBaseKeyOf == [e \in Envelope |-> IF e \in {"e1", "e4"} THEN "b1" ELSE "b2"]

Values(paths, v) == [p \in paths |-> Plain(v)]
Cdn == <<"cdn">> :> Object
AllFiles ==
  [default |-> Json(Values({<<"url">>, <<"cdn", "x">>, <<"cdn", "y">>}, "d") @@ Cdn),
   env |-> Missing, local |-> Missing, package |-> Json("p"), hint |-> <<"de", "DE">>,
   available |-> Json(<<<<"de", "AT">>, English>>), compact |-> TRUE,
   english |-> Json({"k1", "k2"}), own |-> Json({"k1"})]
Layers ==
  {Missing, Broken, Json(Values({<<"url">>, <<"extra">>}, "l")),
   Json(Values({<<"cdn", "x">>}, "l") @@ Cdn), Json(Values({<<"cdn">>}, "l")), Json(<<"url">> :> Null)}
Lists ==
  {Missing, Broken, Json(<<<<"de", "AT">>, English>>), Json(<<English, <<"de", "">>, <<"de", "DE">>>>)}
MCBootInputs ==
  {[AllFiles EXCEPT !.env = e, !.local = l] : e, l \in Layers}
  \cup {[AllFiles EXCEPT !.default = Missing], [AllFiles EXCEPT !.package = Broken]}
  \cup {[AllFiles EXCEPT !.hint = h, !.available = a, !.own = o, !.english = g, !.compact = c] :
         h \in {<<"de", "DE">>, <<"de", "">>, English, <<"xx", "">>}, a \in Lists,
         o \in {Missing, Broken, Json({"k1", "k3"})}, g \in {Broken, Json({"k1", "k2"})}, c \in BOOLEAN}
MCConfigPath == {<<"url">>, <<"extra">>, <<"cdn", "x">>, <<"cdn", "y">>}
----------------------------------------------------------------------------
VARIABLE part
vars == <<part, attachVars, optVars, startVars, httpVars, nestVars, jobVars, fileVars,
          tableVars, sendLogVars, stickerVars, linkVars,
          folderVars, pinVars, inboxVars, bootVars, syncVars>>

Parts == {"attach", "opt", "start", "http", "nest", "job", "files", "tables", "sendLog",
          "stickers", "links", "folders", "pins", "inbox", "boot", "sync"}

Init ==
  /\ part \in Parts
  /\ AttachInit /\ OptInit /\ StartInit /\ HttpInit /\ NestInit
  /\ JobInit /\ FilesInit /\ TablesInit /\ SendLogInit /\ StickersInit /\ LinksInit
  /\ FoldersInit /\ PinsInit /\ InboxInit /\ BootInit /\ SyncInit
  /\ part # "attach" => \A f \in File : onDisk[f] = FileBytes
  /\ part # "opt" => declared /\ cacheFile = "absent"
  /\ part # "nest" => nest.linked
  /\ part # "tables" => \A m \in MessageId : messages[m].searchable
  /\ part # "boot" => bootFiles = AllFiles

server_ == <<attachVars, optVars, startVars, httpVars, nestVars>>
data_   == <<jobVars, fileVars, tableVars, sendLogVars, stickerVars, linkVars>>
more_   == <<folderVars, pinVars, inboxVars, bootVars, syncVars>>
Next ==
  \/ /\ part = "attach" /\ AttachNext
     /\ UNCHANGED <<part, optVars, startVars, httpVars, nestVars, data_, more_>>
  \/ /\ part = "opt" /\ OptNext
     /\ UNCHANGED <<part, attachVars, startVars, httpVars, nestVars, data_, more_>>
  \/ /\ part = "start" /\ StartNext
     /\ UNCHANGED <<part, attachVars, optVars, httpVars, nestVars, data_, more_>>
  \/ /\ part = "http" /\ HttpNext
     /\ UNCHANGED <<part, attachVars, optVars, startVars, nestVars, data_, more_>>
  \/ /\ part = "nest" /\ NestNext
     /\ UNCHANGED <<part, attachVars, optVars, startVars, httpVars, data_, more_>>
  \/ /\ part = "job" /\ JobNext
     /\ UNCHANGED <<part, server_, more_, fileVars, tableVars, sendLogVars, stickerVars, linkVars>>
  \/ /\ part = "files" /\ FilesNext
     /\ UNCHANGED <<part, server_, more_, jobVars, tableVars, sendLogVars, stickerVars, linkVars>>
  \/ /\ part = "tables" /\ TablesNext
     /\ UNCHANGED <<part, server_, more_, jobVars, fileVars, sendLogVars, stickerVars, linkVars>>
  \/ /\ part = "sendLog" /\ SendLogNext
     /\ UNCHANGED <<part, server_, more_, jobVars, fileVars, tableVars, stickerVars, linkVars>>
  \/ /\ part = "stickers" /\ StickersNext
     /\ UNCHANGED <<part, server_, more_, jobVars, fileVars, tableVars, sendLogVars, linkVars>>
  \/ /\ part = "links" /\ LinksNext
     /\ UNCHANGED <<part, server_, more_, jobVars, fileVars, tableVars, sendLogVars, stickerVars>>
  \/ /\ part = "folders" /\ FoldersNext
     /\ UNCHANGED <<part, server_, data_, pinVars, inboxVars, bootVars, syncVars>>
  \/ /\ part = "pins" /\ PinsNext
     /\ UNCHANGED <<part, server_, data_, folderVars, inboxVars, bootVars, syncVars>>
  \/ /\ part = "inbox" /\ InboxNext
     /\ UNCHANGED <<part, server_, data_, folderVars, pinVars, bootVars, syncVars>>
  \/ /\ part = "boot" /\ BootNext
     /\ UNCHANGED <<part, server_, data_, folderVars, pinVars, inboxVars, syncVars>>
  \/ /\ part = "sync" /\ SyncNext
     /\ UNCHANGED <<part, server_, data_, folderVars, pinVars, inboxVars, bootVars>>
Spec == Init /\ [][Next]_vars
----------------------------------------------------------------------------
(* Every variable of every part has its type.                              *)
PartsTypeOK ==
  /\ part \in Parts
  /\ AttachTypeOK /\ OptTypeOK /\ StartTypeOK /\ HttpTypeOK /\ NestTypeOK
  /\ JobTypeOK /\ FilesTypeOK /\ TablesTypeOK /\ SendLogTypeOK /\ StickersTypeOK /\ LinksTypeOK
  /\ FoldersTypeOK /\ PinsTypeOK /\ InboxTypeOK /\ BootTypeOK /\ SyncTypeOK
=============================================================================
