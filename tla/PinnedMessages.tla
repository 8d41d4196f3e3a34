-------------------------- MODULE PinnedMessages ---------------------------
(***************************************************************************)
(* Pinned messages (bundles/workers/sql.js).  Pins of a conversation come   *)
(* from its members in any order; each is put in the table and the table    *)
(* cut to the newest, so that all devices end with the same pins.           *)
(***************************************************************************)
EXTENDS Integers, FiniteSets

CONSTANTS
  PinMessage,     \* messages
  ConversationOf, \* message -> its conversation
  PinTimes,       \* pins bear the times 1 .. PinTimes, each its own
  PinLimit        \* pins that a conversation may have

ASSUME PinsAssumption == PinTimes \in Nat /\ PinLimit \in Nat \ {0}

VARIABLES
  pinned,   \* table pinnedMessages: message -> [at, expires], at 0 if it is not pinned
  received, \* per message, its newest pin since a pin of the conversation was taken away
  pinSent   \* times of the pins that were handled
pinVars == <<pinned, received, pinSent>>

NotPinned == [at |-> 0, expires |-> FALSE]

PinsInit ==
  /\ pinned = [m \in PinMessage |-> NotPinned]
  /\ received = [m \in PinMessage |-> 0]
  /\ pinSent = {}

Conversation(m) == {n \in PinMessage : ConversationOf[n] = ConversationOf[m]}
PinsIn(table, m) == {n \in Conversation(m) : table[n].at # 0}

createPinnedMessage(table, m, pin) == [table EXCEPT ![m] = pin]

\* The pins of m's conversation behind the newest PinLimit go.
truncatePinnedMessages(table, m) ==
  [n \in PinMessage |->
     IF n \in PinsIn(table, m)
        /\ Cardinality({o \in PinsIn(table, m) : table[o].at > table[n].at}) >= PinLimit
     THEN NotPinned ELSE table[n]]

\* A pin of a message that is pinned replaces an older one.
IsLater(pin, existing) == TRUE
IsNewer(pin, existing) == existing = NotPinned \/ pin.at > existing.at

appendPinnedMessage(m, pin) ==
  /\ pin.at \notin pinSent
  /\ LET table == IF IsNewer(pin, pinned[m]) THEN createPinnedMessage(pinned, m, pin) ELSE pinned
     IN  pinned' = truncatePinnedMessages(table, m)
  /\ received' = [received EXCEPT ![m] = IF pin.at > @ THEN pin.at ELSE @]
  /\ pinSent' = pinSent \cup {pin.at}

\* When a pin is taken away, what the table still has is all that counts from then on.
Take(taken) ==
  /\ taken # {}
  /\ pinned' = [m \in PinMessage |-> IF m \in taken THEN NotPinned ELSE pinned[m]]
  /\ received' = [m \in PinMessage |->
                    IF Conversation(m) \cap taken # {} THEN pinned'[m].at ELSE received[m]]
  /\ UNCHANGED pinSent

\* By its sender, or because the message went (ON DELETE CASCADE).
deletePinnedMessageByMessageId(m) == pinned[m].at # 0 /\ Take({m})

\* Those whose time is up: of the ones that expire, the clock decides which.
deleteAllExpiredPinnedMessagesBefore(expired) ==
  /\ \A m \in expired : pinned[m].expires
  /\ Take(expired)

PinsNext ==
  \/ \E m \in PinMessage :
       \/ \E at \in 1..PinTimes, expires \in BOOLEAN :
            appendPinnedMessage(m, [at |-> at, expires |-> expires])
       \/ deletePinnedMessageByMessageId(m)
  \/ \E expired \in SUBSET PinMessage : deleteAllExpiredPinnedMessagesBefore(expired)
PinsSpec == PinsInit /\ [][PinsNext]_pinVars
----------------------------------------------------------------------------
PinsTypeOK ==
  /\ pinned \in [PinMessage -> [at : 0..PinTimes, expires : BOOLEAN]]
  /\ received \in [PinMessage -> 0..PinTimes] /\ pinSent \subseteq 1..PinTimes

(* In whatever order the pins of a conversation arrive, again for a message *)
(* or late, the table holds the newest PinLimit of them, with the newest     *)
(* time of each: two devices that saw the same pins show the same            *)
(* (sql.js 4049-4075).                                                      *)
NewestPinsStay ==
  \A m \in PinMessage :
    pinned[m].at =
      IF Cardinality({n \in Conversation(m) : received[n] > received[m]}) < PinLimit
      THEN received[m] ELSE 0
=============================================================================
