------------------------------ MODULE SendLog ------------------------------
(***************************************************************************)
(* The log of sent messages (bundles/workers/sql.js): a payload waits in   *)
(* sendLogPayloads, with one row of sendLogRecipients for every device     *)
(* that has not yet acknowledged it, so that it can be sent again.  The    *)
(* client inserts, adds devices and reports receipts in calls of their     *)
(* own, in any order; the primary runs each in one transaction.            *)
(***************************************************************************)
EXTENDS Integers, FiniteSets, Sequences

CONSTANTS
  Recipient, DeviceOf, \* recipients, and the devices of each
  LogMessage,          \* ids of table messages
  LogTimes,            \* bound: timestamps 1..LogTimes of payloads
  MaxSends,            \* bound: payloads inserted
  RecipientsInTime     \* the client adds devices only while its payload is in the log

ASSUME SendLogAssumption ==
  /\ LogTimes \in Nat /\ MaxSends \in Nat
  /\ RecipientsInTime \in BOOLEAN
  /\ DeviceOf \in [Recipient -> SUBSET Nat]

VARIABLES
  payloads,    \* table sendLogPayloads: rowid -> [send, timestamp, messageIds]
  recipients,  \* table sendLogRecipients: <<rowid, device>>
  sends        \* history, one entry per insertSentProto: [rowid, waiting, dropped]
sendLogVars == <<payloads, recipients, sends>>

LogDevice == UNION {{r} \X DeviceOf[r] : r \in Recipient}
Waiting(id) == {d \in LogDevice : <<id, d>> \in recipients}

SendLogInit ==
  /\ payloads = [id \in {} |-> {}]
  /\ recipients = {}
  /\ sends = <<>>

\* What DELETE FROM sendLogPayloads takes with it: ON DELETE CASCADE.
DeletePayloads(ids) ==
  /\ payloads' = [id \in DOMAIN payloads \ ids |-> payloads[id]]
  /\ recipients' = {row \in recipients : row[1] \notin ids}
DropSends(ids) ==
  sends' = [s \in DOMAIN sends |->
              [sends[s] EXCEPT !.dropped = @ \/ \E id \in ids : payloads[id].send = s]]
----------------------------------------------------------------------------
\* INTEGER PRIMARY KEY without AUTOINCREMENT: one more than the largest there is.
IsNextRowid(id) ==
  /\ \A other \in DOMAIN payloads : other < id
  /\ id = 1 \/ id - 1 \in DOMAIN payloads

insertSentProto(devices, messageIds, time) ==
  /\ Len(sends) < MaxSends
  /\ \E id \in 1..MaxSends :
       /\ IsNextRowid(id)
       /\ payloads' = [i \in DOMAIN payloads \cup {id} |->
                         IF i = id THEN [send |-> Len(sends) + 1, timestamp |-> time,
                                         messageIds |-> messageIds]
                         ELSE payloads[i]]
       /\ recipients' = recipients \cup ({id} \X devices)
       /\ sends' = Append(sends, [rowid |-> id, waiting |-> devices, dropped |-> FALSE])

\* With the rowid that insertSentProto gave; a row that is gone breaks the foreign
\* key, a device that is there the primary key, and nothing is inserted.
insertProtoRecipients(s, device) ==
  LET id == sends[s].rowid IN
  /\ RecipientsInTime => id \in DOMAIN payloads /\ payloads[id].send = s
  /\ id \in DOMAIN payloads /\ <<id, device>> \notin recipients
  /\ recipients' = recipients \cup {<<id, device>>}
  /\ sends' = [sends EXCEPT ![s].waiting = @ \cup {device}]
  /\ UNCHANGED payloads

\* A receipt: the first payload of the timestamp that waits for the device. It goes
\* when it waits for none.
LastOfRecipient(id, device) ==
  \A d \in Waiting(id) \ {device} : d[1] # device[1]
LastOfPayload(id, device) == Waiting(id) \ {device} = {}
deleteSentProtoRecipient(device, time) ==
  \E id \in DOMAIN payloads :
    /\ payloads[id].timestamp = time /\ <<id, device>> \in recipients
    /\ sends' = [sends EXCEPT ![payloads[id].send].waiting = @ \ {device}]
    /\ IF LastOfPayload(id, device)
       THEN DeletePayloads({id})
       ELSE recipients' = recipients \ {<<id, device>>} /\ UNCHANGED payloads

\* deleteSentProtosOlderThan; getSentProtoByRecipient begins with one.
deleteSentProtosOlderThan(time) ==
  LET ids == {id \in DOMAIN payloads : payloads[id].timestamp < time} IN
  ids # {} /\ DeletePayloads(ids) /\ DropSends(ids)

\* deleteSentProtoByMessageId, and the trigger messages_on_delete.
deleteSentProtoByMessageId(m) ==
  LET ids == {id \in DOMAIN payloads : m \in payloads[id].messageIds} IN
  ids # {} /\ DeletePayloads(ids) /\ DropSends(ids)

\* deleteAllSentProtos, removeAll and removeAllConfiguration.
deleteAllSentProtos ==
  DOMAIN payloads # {} /\ DeletePayloads(DOMAIN payloads) /\ DropSends(DOMAIN payloads)

SendLogNext ==
  \/ \E ds \in SUBSET LogDevice \ {{}}, ms \in SUBSET LogMessage, t \in 1..LogTimes :
       insertSentProto(ds, ms, t)
  \/ \E s \in DOMAIN sends, d \in LogDevice : insertProtoRecipients(s, d)
  \/ \E d \in LogDevice, t \in 1..LogTimes : deleteSentProtoRecipient(d, t)
  \/ \E t \in 1..LogTimes : deleteSentProtosOlderThan(t)
  \/ \E m \in LogMessage : deleteSentProtoByMessageId(m)
  \/ deleteAllSentProtos
SendLogSpec == SendLogInit /\ [][SendLogNext]_sendLogVars
----------------------------------------------------------------------------
SendLogTypeOK ==
  /\ DOMAIN payloads \subseteq 1..MaxSends
  /\ \A id \in DOMAIN payloads :
       payloads[id] \in [send : DOMAIN sends, timestamp : 1..LogTimes, messageIds : SUBSET LogMessage]
  /\ recipients \subseteq (1..MaxSends) \X LogDevice
  /\ \A s \in DOMAIN sends :
       sends[s] \in [rowid : 1..MaxSends, waiting : SUBSET LogDevice, dropped : BOOLEAN]

(* The log is what may have to be sent again: a payload stays, waiting for  *)
(* exactly the devices it was sent to and that have not acknowledged it,    *)
(* until the last one did or it was dropped, although rowids are used again *)
(* (sql.js 4219-4300).                                                      *)
LogMatchesSends ==
  /\ \A id \in DOMAIN payloads : LET send == sends[payloads[id].send] IN
       send.rowid = id /\ ~send.dropped /\ Waiting(id) = send.waiting
  /\ \A s \in DOMAIN sends : sends[s].waiting # {} /\ ~sends[s].dropped =>
       \E id \in DOMAIN payloads : payloads[id].send = s
=============================================================================
