-------------------------- MODULE DeliveryMailbox ----------------------------
(* Delivery implements Mailbox, as long as addresses are not reused. *)
EXTENDS Delivery

PlaceOf(id) ==
  IF \A m \in sent : m.id # id THEN "unsent"
  ELSE IF \E c \in Conns : InInbox(id, c) # {} THEN "accepted"
  ELSE IF InQueue(id) # {} THEN "queued"
  ELSE IF \E j \in Jid : InStore(id, j) # {} THEN "stored"
  ELSE "settled"

AddressOf(id) ==
  IF \E m \in sent : m.id = id THEN (CHOOSE m \in sent : m.id = id).to ELSE None

Box == INSTANCE Mailbox WITH
         place <- [id \in MsgIds |-> PlaceOf(id)],
         to <- [id \in MsgIds |-> AddressOf(id)],
         got <- [id \in MsgIds |-> Recipients(id)],
         account <- user,
         crashes <- restarts

\* The queues, the store and the connection table together keep the promise of
\* Mailbox: a message moves forward only, is settled once for a fixed set of
\* connections of its addressee, and is not lost between the worker's queues.
ImplementsMailbox == Box!Spec

=============================================================================
