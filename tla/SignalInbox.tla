---------------------------- MODULE SignalInbox ----------------------------
(***************************************************************************)
(* Incoming envelopes (bundles/workers/sql.js): decrypting one advances the *)
(* session and uses up a key, so the outcomes and texts of a batch are      *)
(* committed in one transaction; a text stays in "unprocessed" until the    *)
(* client has handled it, over client crashes at any point.  An envelope    *)
(* that brings the client down each time is given up after MaxAttempts.     *)
(***************************************************************************)
EXTENDS Integers, FiniteSets

CONSTANTS
  Envelope,    \* envelopes that the Signal server may deliver
  KeyOf,       \* envelope -> the kyber pre-key that starts its session
  BaseKeyOf,   \* envelope -> the base key of its sender; a replay bears the same
  LastResort,  \* pre-keys that are not removed when they are used
  MaxAttempts, \* 10 in the code
  KeyUsedOnce  \* with a key of its own, that is to be removed, the client decrypts no
               \* second envelope while the first is yet to be committed

ASSUME InboxAssumption == MaxAttempts \in Nat \ {0} /\ KeyUsedOnce \in BOOLEAN

VARIABLES
  preKeys,     \* table kyberPreKeys
  triples,     \* table kyberPreKey_triples: <<key, base key>>
  sessions,    \* table sessions: the envelopes that the ratchets have moved past
  unprocessed, \* table unprocessed: envelope -> its attempts, NoRow if it is not there
  decrypting,  \* envelopes the client has decrypted in memory
  startIds,    \* ids that getAllUnprocessedIds returned to the client, yet to be read
  handling,    \* envelopes the client has in hand
  settled,     \* envelopes that were handled, or given up
  tries        \* how often the client has begun to handle an envelope
inboxVars == <<preKeys, triples, sessions, unprocessed, decrypting, startIds, handling, settled, tries>>

NoRow == -1
Keys == {KeyOf[e] : e \in Envelope}

InboxInit ==
  /\ preKeys = Keys /\ triples = {} /\ sessions = {}
  /\ unprocessed = [e \in Envelope |-> NoRow]
  /\ decrypting = {} /\ startIds = {} /\ handling = {} /\ settled = {}
  /\ tries = [e \in Envelope |-> 0]

InInbox(e) == unprocessed[e] # NoRow
----------------------------------------------------------------------------
\* The server delivers an envelope until it is committed; with its key there, the
\* client decrypts it, whatever else it has decrypted.
Decrypt(e) ==
  /\ e \notin sessions \cup decrypting /\ KeyOf[e] \in preKeys
  /\ KeyUsedOnce => KeyOf[e] \in LastResort \/ \A d \in decrypting : KeyOf[d] # KeyOf[e]
  /\ decrypting' = decrypting \cup {e}
  /\ UNCHANGED <<preKeys, triples, sessions, unprocessed, startIds, handling, settled, tries>>

saveUnprocessed(batch) == [e \in Envelope |-> IF e \in batch THEN 0 ELSE unprocessed[e]]

\* What the transaction writes: keys of their own go, and their triples with them; one
\* of last resort gets a triple.
TripleOf(e) == <<KeyOf[e], BaseKeyOf[e]>>
OfLastResort(batch) == {e \in batch : KeyOf[e] \in LastResort}
Committed(batch) ==
  /\ preKeys' = preKeys \ ({KeyOf[e] : e \in batch} \ LastResort)
  /\ triples' = triples \cup {TripleOf(e) : e \in OfLastResort(batch)}
  /\ sessions' = sessions \cup batch
  /\ unprocessed' = saveUnprocessed(batch)

\* INSERT OR FAIL: a triple is there already, or comes twice.
isDuplicate(batch) ==
  \E e \in OfLastResort(batch) :
    TripleOf(e) \in triples \/ \E d \in batch : d # e /\ TripleOf(d) = TripleOf(e)
KeptSoFar(batch)   ==
  /\ sessions' = sessions \cup batch
  /\ unprocessed' = saveUnprocessed(batch)
  /\ UNCHANGED <<preKeys, triples>>
RolledBack(batch)  == UNCHANGED <<preKeys, triples, sessions, unprocessed>>

commitDecryptResult(batch) ==
  /\ batch # {} /\ batch \subseteq decrypting
  /\ decrypting' = decrypting \ batch
  /\ \/ isDuplicate(batch) /\ RolledBack(batch) /\ UNCHANGED <<handling, tries>>
     \/ /\ ~isDuplicate(batch) /\ Committed(batch)
        /\ handling' = handling \cup batch
        /\ tries' = [e \in Envelope |-> IF e \in batch THEN tries[e] + 1 ELSE tries[e]]
  /\ UNCHANGED <<startIds, settled>>

\* At its start the client asks for what it had not finished: envelopes that are old,
\* or were tried too often, are removed first.
getAllUnprocessedIds(old) ==
  LET worn == {e \in Envelope : unprocessed[e] >= MaxAttempts}
      gone == old \cup worn
  IN
  /\ handling = {} /\ startIds = {}
  /\ \A e \in old : InInbox(e)
  /\ {e \in Envelope : InInbox(e)} # {}
  /\ unprocessed' = [e \in Envelope |-> IF e \in gone THEN NoRow ELSE unprocessed[e]]
  /\ settled' = settled \cup gone
  /\ startIds' = {e \in Envelope : InInbox(e)} \ gone
  /\ UNCHANGED <<preKeys, triples, sessions, decrypting, handling, tries>>

Counted(attempts) == attempts + 1
getUnprocessedByIdsAndIncrementAttempts(ids) ==
  LET found == {e \in ids : InInbox(e)} IN
  /\ ids # {} /\ ids \subseteq startIds
  /\ unprocessed' = [e \in Envelope |-> IF e \in found THEN Counted(unprocessed[e]) ELSE unprocessed[e]]
  /\ startIds' = startIds \ ids
  /\ handling' = handling \cup found
  /\ tries' = [e \in Envelope |-> IF e \in found THEN tries[e] + 1 ELSE tries[e]]
  /\ UNCHANGED <<preKeys, triples, sessions, decrypting, settled>>

\* The client has handled the envelopes.
removeUnprocessed(done) ==
  /\ done # {} /\ done \subseteq handling
  /\ unprocessed' = [e \in Envelope |-> IF e \in done THEN NoRow ELSE unprocessed[e]]
  /\ handling' = handling \ done
  /\ settled' = settled \cup done
  /\ UNCHANGED <<preKeys, triples, sessions, decrypting, startIds, tries>>

\* The page is closed, reloaded, or brought down by an envelope.
ClientCrash ==
  /\ decrypting \cup handling \cup startIds # {}
  /\ decrypting' = {} /\ handling' = {} /\ startIds' = {}
  /\ UNCHANGED <<preKeys, triples, sessions, unprocessed, settled, tries>>

InboxNext ==
  \/ \E e \in Envelope : Decrypt(e)
  \/ \E some \in SUBSET Envelope :
       \/ commitDecryptResult(some)
       \/ getAllUnprocessedIds(some)
       \/ getUnprocessedByIdsAndIncrementAttempts(some)
       \/ removeUnprocessed(some)
  \/ ClientCrash
InboxSpec == InboxInit /\ [][InboxNext]_inboxVars
----------------------------------------------------------------------------
InboxTypeOK ==
  /\ preKeys \subseteq Keys /\ triples \subseteq Keys \X {BaseKeyOf[e] : e \in Envelope}
  /\ unprocessed \in [Envelope -> NoRow..MaxAttempts]
  /\ sessions \cup decrypting \cup startIds \cup handling \cup settled \subseteq Envelope
  /\ tries \in [Envelope -> Nat]

(* Crashes of the client at any point lose no text and repeat nothing       *)
(* without end: an envelope the session has moved past, which cannot be      *)
(* decrypted again, is in the table until it is handled or given up; the     *)
(* client begins it at most MaxAttempts times after the first; and of two     *)
(* that bear one base key only one was ever committed (sql.js 4195-4317,     *)
(* 5418-5489).                                                              *)
NothingDecryptedIsLost ==
  /\ \A e \in sessions : InInbox(e) \/ e \in settled
  /\ \A e \in Envelope : tries[e] <= MaxAttempts + 1
  /\ \A e, f \in sessions :
       KeyOf[e] = KeyOf[f] /\ BaseKeyOf[e] = BaseKeyOf[f] => e = f
=============================================================================
