------------------------------- MODULE Mailbox -------------------------------
(***************************************************************************)
(* What the server promises about one message, without its queues,         *)
(* connections table and presence: a message is accepted, perhaps queued   *)
(* and then stored, and settled once.  Its recipients are fixed by the     *)
(* step that settles it, they are connections of its addressee, and they   *)
(* never change afterwards.  A message that is queued or stored is lost    *)
(* only together with all others, when the server stops.                   *)
(***************************************************************************)
EXTENDS Naturals

CONSTANTS Users, Conns, MsgIds, None

VARIABLES place, to, got, account, crashes
vars == <<place, to, got, account, crashes>>

Jid == [user : Users, res : Conns \cup {None}]
Places == {"unsent", "accepted", "queued", "stored", "settled"}

Init ==
  /\ place = [id \in MsgIds |-> "unsent"]
  /\ to = [id \in MsgIds |-> None]
  /\ got = [id \in MsgIds |-> {}]
  /\ account = [c \in Conns |-> None]
  /\ crashes = 0

In(p) == {id \in MsgIds : place[id] = p}

\* The connections that may receive a message for the JID j.
Addressees(j) == {c \in Conns : account[c] = j.user /\ j.res \in {None, c}}

SignIn(c, u) ==
  /\ account[c] = None
  /\ account' = [account EXCEPT ![c] = u]
  /\ UNCHANGED <<place, to, got, crashes>>

Move(M, p) == place' = [id \in MsgIds |-> IF id \in M THEN p ELSE place[id]]

Accept(id, j) ==
  /\ Move({id}, "accepted")
  /\ to' = [to EXCEPT ![id] = j]
  /\ UNCHANGED <<got, account, crashes>>

Enqueue(id) ==
  /\ Move({id}, "queued")
  /\ UNCHANGED <<to, got, account, crashes>>

Store(id) ==
  /\ Move({id}, "stored")
  /\ UNCHANGED <<to, got, account, crashes>>

\* The messages M, all for the JID j, reach some connections of j, or none: one
\* accepted message that is handled, or all stored messages of j forwarded.
Settle(M, j) ==
  /\ UNCHANGED <<account, crashes>>
  /\ Move(M, "settled")
  /\ \E S \in SUBSET Addressees(j) :
       got' = [id \in MsgIds |-> IF id \in M THEN S ELSE got[id]]
  /\ UNCHANGED to

Forward(j) == Settle({id \in In("stored") : to[id] = j}, j)

\* A connection is lost with the messages that were read and not yet handled.
Lose(M) ==
  /\ Move(M, "settled")
  /\ UNCHANGED <<to, got, account, crashes>>

Crash ==
  /\ crashes' = crashes + 1
  /\ Move(MsgIds \ In("unsent"), "settled")
  /\ UNCHANGED <<to, got, account>>

Next ==
  \/ \E c \in Conns, u \in Users : SignIn(c, u)
  \/ \E id \in In("unsent") : \E j \in Jid : Accept(id, j)
  \/ \E id \in In("accepted") : Enqueue(id) \/ Settle({id}, to[id])
  \/ \E id \in In("queued") : Store(id)
  \/ \E j \in {to[id] : id \in In("stored")} : Forward(j)
  \/ \E M \in (SUBSET In("accepted")) \ {{}} : Lose(M)
  \/ Crash

Spec == Init /\ [][Next]_vars

=============================================================================
