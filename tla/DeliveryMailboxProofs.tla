------------------------ MODULE DeliveryMailboxProofs -------------------------
(***************************************************************************)
(* Proofs about the way of a message through Delivery: that it is in one   *)
(* place at a time and is received once, whatever addresses come back;     *)
(* that one sent to a full JID reaches one connection; and, for addresses  *)
(* that are used once, that Delivery implements Mailbox.                   *)
(***************************************************************************)
EXTENDS DeliveryMailbox, DeliveryProofs, Occurrences

-----------------------------------------------------------------------------
(* Where the messages of a set C are held, and who received some of them.    *)
Carriers(C) == {s \in MessageStanza : s.msg \in C}

Unread(C, c) == Has(inbox[c], Carriers(C))
Queued(C) == Has(msgQ, C)
Stored(C, j) == Has(pending[j], C)
Got(C, c) == Has(received[c], C)

\* One container at a time holds some of C, and none once one was received.
Apart(C) ==
  /\ \A c \in Conns : Unread(C, c) => ~Queued(C) /\ \A j \in Jid : ~Stored(C, j)
  /\ \A j \in Jid : Stored(C, j) => ~Queued(C)
  /\ \A c, d \in Conns : Unread(C, c) /\ Unread(C, d) => c = d
  /\ \A j, k \in Jid : Stored(C, j) /\ Stored(C, k) => j = k
  /\ \A c \in Conns : Got(C, c) => /\ ~Queued(C)
                                   /\ \A d \in Conns : ~Unread(C, d)
                                   /\ \A j \in Jid : ~Stored(C, j)

\* No container holds two, no connection received two.
Once(C) ==
  /\ Single(msgQ, C)
  /\ \A c \in Conns : Single(inbox[c], Carriers(C)) /\ Single(received[c], C)
  /\ \A j \in Jid : Single(pending[j], C)

Somewhere(C) == \/ Queued(C)
                \/ \E c \in Conns : Unread(C, c) \/ Got(C, c)
                \/ \E j \in Jid : Stored(C, j)

\* What a step has to keep, of a set that it does not bring into the system.
Kept(C) == Apart(C) /\ Once(C)
Follows(C) == /\ Kept(C)'
              /\ Somewhere(C)' => Somewhere(C)
              /\ \A j \in Jid : Stored(C, j)' => Stored(C, j) \/ \E m \in C : m.to = j

LEMMA Types ==
  ASSUME TypeInv
  PROVE  /\ inbox \in [Conns -> Seq(Stanza)]
         /\ conQ \in Seq(BoundJid) /\ msgQ \in Seq(Message)
         /\ pending \in [Jid -> Seq(Message)]
         /\ received \in [Conns -> Seq(Message)]
         /\ sent \subseteq Message
BY DEF TypeInv, TypeOK

LEMMA CarrierKinds ==
  ASSUME NEW C, NEW s \in Stanza
  PROVE  s \in Carriers(C) <=> s.kind = "message" /\ s.msg \in C
BY DEF Carriers, Stanza, Bind, Fault, PresenceStanza, MessageStanza

LEMMA PutBackHas ==
  ASSUME NEW T, NEW q \in Seq(T), NEW taken \in BOOLEAN, taken => q # <<>>, NEW S
  PROVE  /\ Has(PutBack(q, taken), S) <=> Has(q, S)
         /\ Single(q, S) => Single(PutBack(q, taken), S)
BY RotateHas DEF PutBack

-----------------------------------------------------------------------------
(* What the operations on the containers do to C.                            *)

\* A stanza is put to the inbox of c.
LEMMA SendEffect ==
  ASSUME TypeInv, NEW C, NEW c \in Conns, NEW s \in Stanza, Send(c, s)
  PROVE  /\ UNCHANGED <<msgQ, pending, received>>
         /\ \A d \in Conns : Unread(C, d)' <=> Unread(C, d) \/ (d = c /\ s \in Carriers(C))
         /\ Once(C) /\ (s \in Carriers(C) => ~Unread(C, c)) => Once(C)'
<1>1. UNCHANGED <<msgQ, pending, received>>
  BY DEF Send, queueVars
<1>2. /\ inbox'[c] = Append(inbox[c], s)
      /\ \A d \in Conns : d # c => inbox'[d] = inbox[d]
  BY Types DEF Send
<1>3. /\ Has(inbox'[c], Carriers(C)) <=> Has(inbox[c], Carriers(C)) \/ s \in Carriers(C)
      /\ Single(inbox[c], Carriers(C))
           /\ (s \in Carriers(C) => ~Has(inbox[c], Carriers(C)))
         => Single(inbox'[c], Carriers(C))
  BY <1>2, AppendHas, Types
<1>4. Carriers(C)' = Carriers(C)
  BY DEF Carriers, MessageStanza, Message, Jid
<1> QED BY <1>1, <1>2, <1>3, <1>4 DEF Unread, Once

\* The bridge of c takes a stanza.
LEMMA TakeEffect ==
  ASSUME TypeInv, NEW C, NEW c \in Conns, inbox[c] # <<>>,
         inbox' = [inbox EXCEPT ![c] = Tail(@)]
  PROVE  /\ \A d \in Conns : Unread(C, d) <=>
                \/ Unread(C, d)'
                \/ d = c /\ Head(inbox[c]) \in Carriers(C)
         /\ Once(C) => /\ \A d \in Conns : Single(inbox'[d], Carriers(C))
                       /\ Head(inbox[c]) \in Carriers(C) => ~Unread(C, c)'
<1>1. /\ inbox'[c] = Tail(inbox[c])
      /\ \A d \in Conns : d # c => inbox'[d] = inbox[d]
  BY Types
<1>2. /\ Has(inbox[c], Carriers(C)) <=>
           Head(inbox[c]) \in Carriers(C) \/ Has(inbox'[c], Carriers(C))
      /\ Single(inbox[c], Carriers(C)) =>
           /\ Single(inbox'[c], Carriers(C))
           /\ Head(inbox[c]) \in Carriers(C) => ~Has(inbox'[c], Carriers(C))
  BY <1>1, TailHas, Types
<1>3. Carriers(C)' = Carriers(C)
  BY DEF Carriers, MessageStanza, Message, Jid
<1> QED BY <1>1, <1>2, <1>3 DEF Unread, Once

\* Messages are written to the open ones of some transports.
LEMMA WriteEffect ==
  ASSUME TypeInv, NEW C, NEW bufs, NEW ms \in Seq(Message), Write(bufs, ms),
         NEW c \in Conns
  PROVE  /\ Got(C, c)' <=> Got(C, c) \/ (c \in bufs /\ link[c] = "open" /\ Has(ms, C))
         /\ Single(received[c], C) /\ Single(ms, C) /\ (Has(ms, C) => ~Got(C, c))
              => Single(received'[c], C)
<1>1. CASE c \in bufs /\ link[c] = "open"
  <2>1. received'[c] = received[c] \o ms /\ received[c] \in Seq(Message)
    BY <1>1, Types DEF Write
  <2> QED BY <1>1, <2>1, ConcatHas DEF Got
<1>2. CASE ~(c \in bufs /\ link[c] = "open")
  BY <1>2 DEF Write, Got
<1> QED BY <1>1, <1>2

\* The list of the key k is written and emptied.
LEMMA FlushEffect ==
  ASSUME TypeInv, NEW C, NEW k \in Jid, Flush(k)
  PROVE  /\ \A j \in Jid : Stored(C, j)' <=> Stored(C, j) /\ j # k
         /\ \A c \in Conns : Got(C, c)' <=>
              \/ Got(C, c)
              \/ c \in TransportsOnline(k) /\ link[c] = "open" /\ Stored(C, k)
         /\ Kept(C) => /\ \A j \in Jid : Single(pending'[j], C)
                       /\ \A c \in Conns : Single(received'[c], C)
<1> DEFINE ms == Reverse(pending[k])
<1>1. /\ ms \in Seq(Message) /\ (Has(ms, C) <=> Stored(C, k))
      /\ Single(pending[k], C) => Single(ms, C)
  BY ReverseHas, Types DEF Stored
<1>2. Write(TransportsOnline(k), ms) /\ pending' = [pending EXCEPT ![k] = <<>>]
  BY DEF Flush
<1> HIDE DEF ms
<1>3. pending'[k] = <<>> /\ \A j \in Jid : j # k => pending'[j] = pending[j]
  BY <1>2, Types
<1>4. \A j \in Jid : Stored(C, j)' <=> Stored(C, j) /\ j # k
  BY <1>3, EmptyHas DEF Stored
<1>5. ASSUME NEW c \in Conns
      PROVE  /\ Got(C, c)' <=>
                  \/ Got(C, c)
                  \/ c \in TransportsOnline(k) /\ link[c] = "open" /\ Stored(C, k)
             /\ Kept(C) => Single(received'[c], C)
  BY <1>1, <1>2, WriteEffect DEF Kept, Apart, Once
<1>6. Kept(C) => \A j \in Jid : Single(pending'[j], C)
  BY <1>3, EmptyHas DEF Kept, Once
<1> QED BY <1>4, <1>5, <1>6

\* The message at the head of the queue is stored under its addressee.
LEMMA StoreEffect ==
  ASSUME TypeInv, NEW C, NEW taken \in BOOLEAN, WorkerMessage(taken)
  PROVE  LET m == Head(msgQ) IN
         /\ m \in Message /\ m.to \in Jid
         /\ Queued(C) <=> m \in C \/ Queued(C)'
         /\ \A j \in Jid : Stored(C, j)' <=> Stored(C, j) \/ (j = m.to /\ m \in C)
         /\ UNCHANGED <<inbox, received>>
         /\ Kept(C) => /\ Single(msgQ', C) /\ (m \in C => ~Queued(C)')
                       /\ \A j \in Jid : Single(pending'[j], C)
<1> DEFINE m == Head(msgQ)
<1>1. /\ msgQ # <<>> /\ msgQ' = Tail(msgQ)
      /\ pending' = [pending EXCEPT ![m.to] = Append(@, m)]
      /\ UNCHANGED <<inbox, received>>
  BY DEF WorkerMessage
<1>2. m \in Message
  BY <1>1, SeqTypes, Types
<1>3. m.to \in Jid
  BY <1>2 DEF Message
<1>4. /\ Queued(C) <=> m \in C \/ Queued(C)'
      /\ Single(msgQ, C) => Single(msgQ', C) /\ (m \in C => ~Queued(C)')
  BY <1>1, TailHas, Types DEF Queued
<1> HIDE DEF m
<1>5. /\ pending'[m.to] = Append(pending[m.to], m)
      /\ \A j \in Jid : j # m.to => pending'[j] = pending[j]
  BY <1>1, <1>3, Types
<1>6. /\ Has(pending'[m.to], C) <=> Has(pending[m.to], C) \/ m \in C
      /\ Single(pending[m.to], C) /\ (m \in C => ~Has(pending[m.to], C))
           => Single(pending'[m.to], C)
  BY <1>2, <1>3, <1>5, AppendHas, Types
<1>7. \A j \in Jid : Stored(C, j)' <=> Stored(C, j) \/ (j = m.to /\ m \in C)
  BY <1>5, <1>6 DEF Stored
<1>8. Kept(C) => \A j \in Jid : Single(pending'[j], C)
  BY <1>3, <1>4, <1>5, <1>6 DEF Kept, Apart, Once, Stored
<1> QED BY <1>1, <1>2, <1>3, <1>4, <1>7, <1>8 DEF m, Kept, Once

-----------------------------------------------------------------------------
(* Every step keeps the messages of C apart.                                 *)

LEMMA SendFollows ==
  ASSUME TypeInv, NEW C, Kept(C), NEW c \in Conns, NEW s \in Stanza, Send(c, s),
         s \in Carriers(C) => ~Somewhere(C)
  PROVE  /\ Kept(C)'
         /\ Somewhere(C)' => Somewhere(C) \/ s \in Carriers(C)
         /\ \A j \in Jid : Stored(C, j)' => Stored(C, j)
<1>1. /\ UNCHANGED <<msgQ, pending, received>>
      /\ \A d \in Conns : Unread(C, d)' <=> Unread(C, d) \/ (d = c /\ s \in Carriers(C))
      /\ Once(C)'
  BY SendEffect DEF Kept, Somewhere
<1>2. /\ Queued(C)' <=> Queued(C)
      /\ \A j \in Jid : Stored(C, j)' <=> Stored(C, j)
      /\ \A d \in Conns : Got(C, d)' <=> Got(C, d)
  BY <1>1 DEF Queued, Stored, Got
<1>3. Apart(C)'
  BY <1>1, <1>2 DEF Kept, Apart, Somewhere
<1>4. Somewhere(C)' => Somewhere(C) \/ s \in Carriers(C)
  BY <1>1, <1>2 DEF Somewhere
<1> QED BY <1>1, <1>2, <1>3, <1>4 DEF Kept

\* A step that leaves everything where it is, but may turn the queue round.
LEMMA QuietFollows ==
  ASSUME NEW C, Kept(C), UNCHANGED <<inbox, pending, received>>,
         Queued(C)' <=> Queued(C), Single(msgQ, C) => Single(msgQ', C)
  PROVE  Follows(C)
<1>1. Carriers(C)' = Carriers(C)
  BY DEF Carriers, MessageStanza, Message, Jid
<1>2. /\ \A c \in Conns : (Unread(C, c)' <=> Unread(C, c)) /\ (Got(C, c)' <=> Got(C, c))
      /\ \A j \in Jid : Stored(C, j)' <=> Stored(C, j)
  BY <1>1 DEF Unread, Got, Stored
<1>3. Apart(C)' /\ (Somewhere(C)' <=> Somewhere(C))
  BY <1>2 DEF Kept, Apart, Somewhere
<1>4. Once(C)'
  BY <1>1 DEF Kept, Once
<1> QED BY <1>2, <1>3, <1>4 DEF Follows, Kept

\* What a round of the bridge does to the messages: the head of the inbox is
\* taken, and handled if it is a message of a bound client.
LEMMA BridgeCases ==
  ASSUME TypeInv, NEW c \in Conns, Bridge(c)
  PROVE  /\ inbox[c] # <<>> /\ Head(inbox[c]) \in Stanza
         /\ inbox' = [inbox EXCEPT ![c] = Tail(@)]
         /\ UNCHANGED <<addr, user, pending, sent, presences, restarts>>
         /\ \/ /\ Head(inbox[c]).kind = "message" /\ Head(inbox[c]).msg \in Message
               /\ HandleMessage(Head(inbox[c]).msg)
            \/ UNCHANGED <<msgQ, received>>
<1>1. /\ inbox[c] # <<>> /\ Head(inbox[c]) \in Stanza
      /\ inbox' = [inbox EXCEPT ![c] = Tail(@)]
      /\ UNCHANGED <<addr, user, pending, sent, presences, restarts>>
  BY SeqTypes, Types DEF Bridge, historyVars
<1>2. \/ Head(inbox[c]).kind = "message" /\ HandleMessage(Head(inbox[c]).msg)
      \/ UNCHANGED <<msgQ, received>>
  BY DEF Bridge, HandleBind, HandleUnbound, HandlePresence, HandleFault
<1> QED BY <1>1, <1>2, StanzaKinds

LEMMA BridgeFollows ==
  ASSUME TypeInv, NEW C, Kept(C), NEW c \in Conns, Bridge(c)
  PROVE  Follows(C)
<1> DEFINE s == Head(inbox[c])
           m == s.msg
<1>1. /\ \A d \in Conns : Unread(C, d) <=>
           Unread(C, d)' \/ (d = c /\ s \in Carriers(C))
      /\ \A d \in Conns : Single(inbox'[d], Carriers(C))
      /\ s \in Carriers(C) => ~Unread(C, c)'
      /\ s \in Carriers(C) <=> s.kind = "message" /\ m \in C
  BY BridgeCases, TakeEffect, CarrierKinds DEF Kept
<1>2. /\ Carriers(C)' = Carriers(C) /\ UNCHANGED pending
      /\ \A j \in Jid : Stored(C, j)' <=> Stored(C, j)
  BY BridgeCases DEF Carriers, MessageStanza, Message, Jid, Stored
<1>3. \/ UNCHANGED <<msgQ, received>>
      \/ s.kind = "message" /\ m \in Message /\ msgQ' = Append(msgQ, m) /\ UNCHANGED received
      \/ s.kind = "message" /\ m \in Message /\ Write(Buffers(m), <<m>>) /\ UNCHANGED msgQ
  BY BridgeCases DEF HandleMessage
<1> HIDE DEF s, m
<1>4. CASE UNCHANGED <<msgQ, received>>
  <2>1. (Queued(C)' <=> Queued(C)) /\ \A d \in Conns : Got(C, d)' <=> Got(C, d)
    BY <1>4 DEF Queued, Got
  <2>2. Apart(C)' /\ (Somewhere(C)' => Somewhere(C))
    BY <1>1, <1>2, <2>1 DEF Kept, Apart, Somewhere
  <2>3. Once(C)'
    BY <1>1, <1>2, <1>4 DEF Kept, Once
  <2> QED BY <1>2, <2>2, <2>3 DEF Follows, Kept
<1>5. CASE s.kind = "message" /\ m \in Message /\ msgQ' = Append(msgQ, m)
             /\ UNCHANGED received
  <2>1. /\ Queued(C)' <=> Queued(C) \/ s \in Carriers(C)
        /\ Single(msgQ, C) /\ (s \in Carriers(C) => ~Queued(C)) => Single(msgQ', C)
        /\ \A d \in Conns : Got(C, d)' <=> Got(C, d)
    BY <1>1, <1>5, AppendHas, Types DEF Queued, Got
  <2>2. Apart(C)' /\ (Somewhere(C)' => Somewhere(C))
    BY <1>1, <1>2, <2>1 DEF Kept, Apart, Somewhere
  <2>3. Once(C)'
    BY <1>1, <1>2, <1>5, <2>1 DEF Kept, Once, Apart
  <2> QED BY <1>2, <2>2, <2>3 DEF Follows, Kept
<1>6. CASE s.kind = "message" /\ m \in Message /\ Write(Buffers(m), <<m>>)
             /\ UNCHANGED msgQ
  <2>1. <<m>> \in Seq(Message) /\ (Has(<<m>>, C) <=> s \in Carriers(C)) /\ Single(<<m>>, C)
    BY <1>1, <1>6 DEF Has, Single
  <2>2. /\ Queued(C)' <=> Queued(C)
        /\ \A d \in Conns : Got(C, d)' => Got(C, d) \/ s \in Carriers(C)
        /\ \A d \in Conns : Got(C, d) => Got(C, d)'
        /\ \A d \in Conns : Single(received[d], C) /\ (s \in Carriers(C) => ~Got(C, d))
              => Single(received'[d], C)
    BY <1>6, <2>1, WriteEffect DEF Queued
  <2>3. Apart(C)' /\ (Somewhere(C)' => Somewhere(C))
    BY <1>1, <1>2, <2>2 DEF Kept, Apart, Somewhere
  <2>4. Once(C)'
    BY <1>1, <1>2, <1>6, <2>2 DEF Kept, Once, Apart
  <2> QED BY <1>2, <2>3, <2>4 DEF Follows, Kept
<1> QED BY <1>3, <1>4, <1>5, <1>6

LEMMA WorkerFollows ==
  ASSUME TypeInv, NEW C, Kept(C), Worker
  PROVE  Follows(C)
<1> PICK taken \in BOOLEAN : WorkerConnection(taken) \/ WorkerMessage(taken)
  BY DEF Worker
<1>0. Carriers(C)' = Carriers(C)
  BY DEF Carriers, MessageStanza, Message, Jid
<1>1. CASE WorkerConnection(taken)
  <2> DEFINE k == TargetKey(Head(conQ))
  <2>1. k \in Jid /\ Flush(k) /\ UNCHANGED inbox
    BY <1>1, SeqTypes, Types, TargetKeyType DEF WorkerConnection
  <2> HIDE DEF k
  <2>2. (Queued(C)' <=> Queued(C)) /\ (Single(msgQ, C) => Single(msgQ', C))
    BY <1>1, PutBackHas, Types DEF WorkerConnection, Queued
  <2>3. \A d \in Conns : Unread(C, d)' <=> Unread(C, d)
    BY <1>0, <2>1 DEF Unread
  <2>4. /\ \A j \in Jid : Stored(C, j)' <=> Stored(C, j) /\ j # k
        /\ \A d \in Conns : Got(C, d)' => Got(C, d) \/ Stored(C, k)
        /\ \A d \in Conns : Got(C, d) => Got(C, d)'
        /\ \A j \in Jid : Single(pending'[j], C)
        /\ \A d \in Conns : Single(received'[d], C)
    BY <2>1, FlushEffect
  <2>5. Apart(C)'
    BY <2>1, <2>2, <2>3, <2>4 DEF Kept, Apart
  <2>6. Somewhere(C)' => Somewhere(C)
    BY <2>1, <2>2, <2>3, <2>4 DEF Somewhere
  <2>7. Once(C)'
    BY <1>0, <2>1, <2>2, <2>4 DEF Kept, Once
  <2> QED BY <2>4, <2>5, <2>6, <2>7 DEF Follows, Kept
<1>2. CASE WorkerMessage(taken)
  <2> DEFINE m == Head(msgQ)
  <2>1. /\ m \in Message /\ m.to \in Jid /\ UNCHANGED <<inbox, received>>
        /\ Queued(C) <=> m \in C \/ Queued(C)'
        /\ \A j \in Jid : Stored(C, j)' <=> Stored(C, j) \/ (j = m.to /\ m \in C)
        /\ Single(msgQ', C) /\ (m \in C => ~Queued(C)')
        /\ \A j \in Jid : Single(pending'[j], C)
    BY <1>2, StoreEffect
  <2> HIDE DEF m
  <2>2. \A d \in Conns : (Unread(C, d)' <=> Unread(C, d)) /\ (Got(C, d)' <=> Got(C, d))
    BY <1>0, <2>1 DEF Unread, Got
  <2>3. Apart(C)' /\ (Somewhere(C)' => Somewhere(C))
    BY <2>1, <2>2 DEF Kept, Apart, Somewhere
  <2>4. Once(C)'
    BY <1>0, <2>1 DEF Kept, Once
  <2>5. \A j \in Jid : Stored(C, j)' => Stored(C, j) \/ \E n \in C : n.to = j
    BY <2>1
  <2> QED BY <2>3, <2>4, <2>5 DEF Follows, Kept
<1> QED BY <1>1, <1>2

\* connection_lost and a restart: what is held is dropped.
LEMMA DropFollows ==
  ASSUME TypeInv, NEW C, Kept(C), Restart \/ \E c \in Conns : ConnectionLost(c)
  PROVE  Follows(C)
<1>0. Carriers(C)' = Carriers(C)
  BY DEF Carriers, MessageStanza, Message, Jid
<1>1. /\ \A d \in Conns : inbox'[d] = inbox[d] \/ inbox'[d] = <<>>
      /\ \A j \in Jid : pending'[j] = pending[j] \/ pending'[j] = <<>>
      /\ msgQ' = msgQ \/ msgQ' = <<>>
      /\ UNCHANGED received
  BY Types DEF Restart, ConnectionLost, queueVars
<1>2. /\ \A d \in Conns : Unread(C, d)' => Unread(C, d)
      /\ \A j \in Jid : Stored(C, j)' => Stored(C, j)
      /\ Queued(C)' => Queued(C)
      /\ \A d \in Conns : Got(C, d)' <=> Got(C, d)
  BY <1>0, <1>1, EmptyHas DEF Unread, Stored, Queued, Got
<1>3. Apart(C)' /\ (Somewhere(C)' => Somewhere(C))
  BY <1>2 DEF Kept, Apart, Somewhere
<1>4. Once(C)'
  BY <1>0, <1>1, EmptyHas DEF Kept, Once
<1> QED BY <1>2, <1>3, <1>4 DEF Follows, Kept

LEMMA StepFollows ==
  ASSUME TypeInv, [Next]_vars, NEW C, Kept(C),
         \A c \in Conns, m \in Message : SendMessage(c, m) /\ m \in C => ~Somewhere(C)
  PROVE  /\ Kept(C)'
         /\ Somewhere(C)' =>
              Somewhere(C) \/ \E c \in Conns, m \in Message : SendMessage(c, m) /\ m \in C
         /\ \A j \in Jid : Stored(C, j)' => Stored(C, j) \/ \E m \in C : m.to = j
<1>1. ASSUME NEW c \in Conns, NEW m \in Message, SendMessage(c, m)
      PROVE  /\ Kept(C)'
             /\ Somewhere(C)' => Somewhere(C) \/ m \in C
             /\ \A j \in Jid : Stored(C, j)' => Stored(C, j)
  <2> DEFINE s == [kind |-> "message", msg |-> m]
  <2>1. s \in Stanza /\ Send(c, s) /\ s.kind = "message" /\ s.msg = m
    BY <1>1 DEF SendMessage, Stanza, MessageStanza
  <2> HIDE DEF s
  <2>2. s \in Carriers(C) <=> m \in C
    BY <2>1, CarrierKinds
  <2> QED BY <1>1, <2>1, <2>2, SendFollows
<1>2. ASSUME NEW c \in Conns,
             SendBind(c) \/ SendFault(c) \/ \E p \in PresenceEntry : SendPresence(c, p)
      PROVE  Follows(C)
  <2>1. PICK s \in Stanza : Send(c, s) /\ s.kind # "message"
    <3>1. /\ Bind \in Stanza /\ Bind.kind # "message"
          /\ Fault \in Stanza /\ Fault.kind # "message"
      BY DEF Stanza, Bind, Fault
    <3>2. ASSUME NEW p \in PresenceEntry
          PROVE  /\ [kind |-> "presence", entry |-> p] \in Stanza
                 /\ [kind |-> "presence", entry |-> p].kind # "message"
      BY DEF Stanza, PresenceStanza
    <3> QED BY <1>2, <3>1, <3>2 DEF SendBind, SendFault, SendPresence
  <2>2. s \notin Carriers(C)
    BY <2>1, CarrierKinds
  <2> QED BY <2>1, <2>2, SendFollows DEF Follows
<1>3. ASSUME UNCHANGED <<inbox, pending, received, msgQ>> PROVE Follows(C)
  BY <1>3, QuietFollows DEF Queued
<1>4. ASSUME NEW c \in Conns,
             \/ \E a \in Addrs : ConnectionMade(c, a)
             \/ StartTls(c) \/ (\E u \in Users : Authenticate(c, u))
             \/ EndStream(c) \/ CloseTransport(c)
      PROVE  Follows(C)
  <2>1. UNCHANGED <<inbox, pending, received, msgQ>>
    BY <1>4 DEF ConnectionMade, StartTls, Authenticate, EndStream, CloseTransport, queueVars
  <2> QED BY <1>3, <2>1
<1>5. ASSUME UNCHANGED vars PROVE Follows(C)
  BY <1>3, <1>5 DEF vars, queueVars
<1>6. \/ Follows(C)
      \/ \E c \in Conns, m \in Message : SendMessage(c, m)
  BY <1>2, <1>4, <1>5, BridgeFollows, WorkerFollows, DropFollows DEF Next, Environment
<1> QED BY <1>1, <1>6 DEF Follows

-----------------------------------------------------------------------------
(* The invariant: the copies of a message are kept apart; what is held or was *)
(* received was sent; the store has a message under its addressee.            *)
Copies(id) == {m \in Message : m.id = id}

SentOnce == \A m, n \in sent : m.id = n.id => m = n
HeldWasSent == \A m \in Message : Somewhere({m}) => m \in sent
UnderAddressee == \A m \in Message : \A j \in Jid : Stored({m}, j) => m.to = j

OnceInv ==
  /\ TypeInv /\ SentOnce /\ HeldWasSent /\ UnderAddressee
  /\ \A id \in MsgIds : Kept(Copies(id))

LEMMA KeptSubset ==
  ASSUME NEW D, Kept(D), NEW C \in SUBSET D
  PROVE  Kept(C)
<1>1. \A q : (Has(q, C) => Has(q, D)) /\ (Single(q, D) => Single(q, C))
  BY DEF Has, Single
<1>2. \A q : /\ Has(q, Carriers(C)) => Has(q, Carriers(D))
             /\ Single(q, Carriers(D)) => Single(q, Carriers(C))
  BY DEF Has, Single, Carriers
<1>3. Apart(C)
  BY <1>1, <1>2 DEF Kept, Apart, Unread, Queued, Stored, Got
<1>4. Once(C)
  BY <1>1, <1>2 DEF Kept, Once
<1> QED BY <1>3, <1>4 DEF Kept

\* A container that has one of C has some message of C.
LEMMA HasMember ==
  ASSUME TypeInv, NEW C \in SUBSET Message, NEW c \in Conns, NEW j \in Jid
  PROVE  /\ Unread(C, c) => \E m \in C : Unread({m}, c)
         /\ Queued(C) => \E m \in C : Queued({m})
         /\ Stored(C, j) => \E m \in C : Stored({m}, j)
         /\ Got(C, c) => \E m \in C : Got({m}, c)
BY DEF Unread, Queued, Stored, Got, Has, Carriers

LEMMA SomewhereMember ==
  ASSUME TypeInv, NEW C \in SUBSET Message, Somewhere(C)
  PROVE  \E m \in C : Somewhere({m})
<1>1. CASE Queued(C)
  BY <1>1 DEF Queued, Has, Somewhere
<1>2. ASSUME NEW c \in Conns, Unread(C, c) \/ Got(C, c)
      PROVE  \E m \in C : Somewhere({m})
  BY <1>2 DEF Unread, Got, Has, Carriers, Somewhere
<1>3. ASSUME NEW j \in Jid, Stored(C, j) PROVE \E m \in C : Somewhere({m})
  BY <1>3 DEF Stored, Has, Somewhere
<1> QED BY <1>1, <1>2, <1>3 DEF Somewhere

\* What is somewhere was sent.
LEMMA UnsentIsNowhere ==
  ASSUME OnceInv, NEW C \in SUBSET Message, Somewhere(C)
  PROVE  \E m \in C : m \in sent
BY SomewhereMember DEF OnceInv, HeldWasSent

LEMMA InitOnce == Init => OnceInv
<1> SUFFICES ASSUME Init PROVE OnceInv OBVIOUS
<1>1. ASSUME NEW C PROVE Kept(C) /\ ~Somewhere(C)
  BY EmptyHas DEF Init, Kept, Apart, Once, Somewhere, Unread, Queued, Stored, Got
<1>2. \A C, j : Stored(C, j) /\ j \in Jid => Somewhere(C)
  BY DEF Somewhere
<1>3. SentOnce /\ HeldWasSent /\ UnderAddressee
  BY <1>1, <1>2 DEF Init, SentOnce, HeldWasSent, UnderAddressee
<1> QED BY <1>1, <1>3, InitType DEF OnceInv

LEMMA SentGrows ==
  ASSUME TypeInv, [Next]_vars
  PROVE  \/ sent' = sent
         \/ \E c \in Conns, m \in Message : SendMessage(c, m)
<1>1. ASSUME NEW c \in Conns,
             \/ \E a \in Addrs : ConnectionMade(c, a)
             \/ StartTls(c) \/ (\E u \in Users : Authenticate(c, u))
             \/ SendBind(c) \/ SendFault(c)
             \/ \E p \in PresenceEntry : SendPresence(c, p)
             \/ EndStream(c) \/ CloseTransport(c) \/ ConnectionLost(c) \/ Bridge(c)
      PROVE  sent' = sent
  BY <1>1 DEF ConnectionMade, StartTls, Authenticate, SendBind, SendFault, SendPresence,
              EndStream, CloseTransport, ConnectionLost, Bridge, historyVars
<1>2. Worker \/ Restart \/ UNCHANGED vars => sent' = sent
  BY DEF Worker, WorkerConnection, WorkerMessage, Restart, vars, historyVars
<1> QED BY <1>1, <1>2 DEF Next, Environment

LEMMA StepOnce == OnceInv /\ [Next]_vars => OnceInv'
<1> SUFFICES ASSUME OnceInv, [Next]_vars PROVE OnceInv' OBVIOUS
<1>1. TypeInv /\ TypeInv'
  BY StepType DEF OnceInv
<1>2. ASSUME NEW c \in Conns, NEW m \in Message, SendMessage(c, m),
             NEW id, m \in Copies(id), Somewhere(Copies(id))
      PROVE  FALSE
  <2>1. PICK n \in Copies(id) : n \in sent
    BY <1>2, UnsentIsNowhere DEF Copies
  <2> QED BY <1>2, <2>1 DEF SendMessage, Copies
<1>3. ASSUME NEW id \in MsgIds PROVE Kept(Copies(id))'
  <2>1. Kept(Copies(id)) /\ Copies(id)' = Copies(id)
    BY DEF OnceInv, Copies, Message, Jid
  <2> DEFINE C == Copies(id)
  <2>2. \A c \in Conns, m \in Message : SendMessage(c, m) /\ m \in C => ~Somewhere(C)
    BY <1>2
  <2> HIDE DEF C
  <2>3. Kept(C) => Kept(C)'
    BY <1>1, <2>2, StepFollows
  <2> QED BY <2>1, <2>3 DEF C
<1>4. ASSUME NEW m \in Message
      PROVE  /\ Somewhere({m})' => Somewhere({m}) \/ \E c \in Conns : SendMessage(c, m)
             /\ \A j \in Jid : Stored({m}, j)' => Stored({m}, j) \/ m.to = j
  <2>1. m.id \in MsgIds /\ {m} \in SUBSET Copies(m.id)
    BY DEF Message, Copies
  <2>2. Kept({m})
    BY <2>1, KeptSubset DEF OnceInv
  <2>3. \A c \in Conns, n \in Message : SendMessage(c, n) /\ n \in {m} => ~Somewhere({m})
    BY DEF SendMessage, OnceInv, HeldWasSent
  <2>4. /\ Somewhere({m})' => Somewhere({m}) \/
             \E c \in Conns, n \in Message : SendMessage(c, n) /\ n \in {m}
        /\ \A j \in Jid : Stored({m}, j)' => Stored({m}, j) \/ \E n \in {m} : n.to = j
    BY <1>1, <2>2, <2>3, StepFollows
  <2> QED BY <2>4
<1>5. /\ sent \subseteq sent'
      /\ \A c \in Conns, m \in Message : SendMessage(c, m) => m \in sent'
      /\ \A m, n \in sent' : m.id = n.id => m = n
  BY <1>1, SentGrows DEF SendMessage, OnceInv, SentOnce
<1>6. HeldWasSent'
  BY <1>4, <1>5 DEF OnceInv, HeldWasSent, Message, Jid
<1>7. UnderAddressee'
  BY <1>4 DEF OnceInv, UnderAddressee, Message, Jid
<1>8. SentOnce'
  BY <1>5 DEF SentOnce
<1> QED BY <1>1, <1>3, <1>6, <1>7, <1>8 DEF OnceInv

-----------------------------------------------------------------------------
(* AtMostOnce.  The elements of Held(id) are the occurrences that Has and     *)
(* Single speak of.                                                           *)

LEMMA Places ==
  ASSUME TypeInv, NEW id \in MsgIds
  PROVE  /\ \A c \in Conns : \A i \in DOMAIN inbox[c] :
              IsMessage(inbox[c][i], id) <=> inbox[c][i] \in Carriers(Copies(id))
         /\ \A i \in DOMAIN msgQ : msgQ[i].id = id <=> msgQ[i] \in Copies(id)
         /\ \A j \in Jid : \A i \in DOMAIN pending[j] :
              pending[j][i].id = id <=> pending[j][i] \in Copies(id)
         /\ \A c \in Conns : \A i \in DOMAIN received[c] :
              received[c][i].id = id <=> received[c][i] \in Copies(id)
<1>1. ASSUME NEW c \in Conns, NEW i \in DOMAIN inbox[c]
      PROVE  IsMessage(inbox[c][i], id) <=> inbox[c][i] \in Carriers(Copies(id))
  <2>1. inbox[c][i] \in Stanza
    BY Types
  <2> QED BY <2>1, CarrierKinds, StanzaKinds DEF IsMessage, Copies
<1>2. \A i \in DOMAIN msgQ : msgQ[i] \in Message
  BY Types
<1>3. \A j \in Jid : \A i \in DOMAIN pending[j] : pending[j][i] \in Message
  BY Types
<1>4. \A c \in Conns : \A i \in DOMAIN received[c] : received[c][i] \in Message
  BY Types
<1> QED BY <1>1, <1>2, <1>3, <1>4 DEF Copies

\* The sets of Delivery's properties, in terms of the containers.
LEMMA WhereItIs ==
  ASSUME TypeInv, NEW id \in MsgIds
  PROVE  /\ \A c \in Conns : InInbox(id, c) # {} <=> Unread(Copies(id), c)
         /\ InQueue(id) # {} <=> Queued(Copies(id))
         /\ \A j \in Jid : InStore(id, j) # {} <=> Stored(Copies(id), j)
         /\ \A c \in Conns : ReceivedAt(id, c) # {} <=> Got(Copies(id), c)
<1>1. \A c \in Conns : InInbox(id, c) # {} <=> Unread(Copies(id), c)
  BY Places DEF InInbox, Unread, Has
<1>2. InQueue(id) # {} <=> Queued(Copies(id))
  BY Places DEF InQueue, Queued, Has
<1>3. \A j \in Jid : InStore(id, j) # {} <=> Stored(Copies(id), j)
  BY Places DEF InStore, Stored, Has
<1>4. \A c \in Conns : ReceivedAt(id, c) # {} <=> Got(Copies(id), c)
  BY Places DEF ReceivedAt, Got, Has
<1> QED BY <1>1, <1>2, <1>3, <1>4

LEMMA HeldElements ==
  ASSUME TypeInv, NEW id \in MsgIds, NEW x
  PROVE  x \in Held(id) <=>
           \/ \E c \in Conns : \E i \in InInbox(id, c) : x = <<"inbox", c, i>>
           \/ \E i \in InQueue(id) : x = <<"queue", None, i>>
           \/ \E j \in Jid : \E i \in InStore(id, j) : x = <<"store", j, i>>
<1> DEFINE I(c) == {<<"inbox", c, i>> : i \in InInbox(id, c)}
           Q == {<<"queue", None, i>> : i \in InQueue(id)}
           S(j) == {<<"store", j, i>> : i \in InStore(id, j)}
<1>1. Held(id) = (UNION {I(c) : c \in Conns}) \cup Q \cup (UNION {S(j) : j \in Jid})
  BY DEF Held
<1>2. \A c \in Conns : x \in I(c) <=> \E i \in InInbox(id, c) : x = <<"inbox", c, i>>
  OBVIOUS
<1>3. x \in Q <=> \E i \in InQueue(id) : x = <<"queue", None, i>>
  OBVIOUS
<1>4. \A j \in Jid : x \in S(j) <=> \E i \in InStore(id, j) : x = <<"store", j, i>>
  OBVIOUS
<1> HIDE DEF I, Q, S
<1> QED BY <1>1, <1>2, <1>3, <1>4

LEMMA OneOccurrence ==
  ASSUME TypeInv, NEW id \in MsgIds, Once(Copies(id))
  PROVE  /\ \A c \in Conns : \A i, k \in InInbox(id, c) : i = k
         /\ \A i, k \in InQueue(id) : i = k
         /\ \A j \in Jid : \A i, k \in InStore(id, j) : i = k
         /\ \A c \in Conns : \A i, k \in ReceivedAt(id, c) : i = k
<1>1. \A c \in Conns : \A i, k \in InInbox(id, c) : i = k
  BY Places DEF InInbox, Once, Single
<1>2. \A i, k \in InQueue(id) : i = k
  BY Places DEF InQueue, Once, Single
<1>3. \A j \in Jid : \A i, k \in InStore(id, j) : i = k
  BY Places DEF InStore, Once, Single
<1>4. \A c \in Conns : \A i, k \in ReceivedAt(id, c) : i = k
  BY Places DEF ReceivedAt, Once, Single
<1> QED BY <1>1, <1>2, <1>3, <1>4

LEMMA OnceInvImpliesAtMostOnce == OnceInv => AtMostOnce
<1> SUFFICES ASSUME OnceInv, NEW id \in MsgIds
    PROVE  /\ Cardinality(Held(id)) <= 1
           /\ Recipients(id) # {} => Held(id) = {}
           /\ \A c \in Conns : Cardinality(ReceivedAt(id, c)) <= 1
  BY DEF AtMostOnce
<1> DEFINE C == Copies(id)
<1>1. TypeInv /\ Apart(C) /\ Once(C)
  BY DEF OnceInv, Kept
<1>2. /\ \A c \in Conns : InInbox(id, c) # {} <=> Unread(C, c)
      /\ InQueue(id) # {} <=> Queued(C)
      /\ \A j \in Jid : InStore(id, j) # {} <=> Stored(C, j)
      /\ \A c \in Conns : ReceivedAt(id, c) # {} <=> Got(C, c)
  BY <1>1, WhereItIs
<1>3. /\ \A c \in Conns : \A i, k \in InInbox(id, c) : i = k
      /\ \A i, k \in InQueue(id) : i = k
      /\ \A j \in Jid : \A i, k \in InStore(id, j) : i = k
      /\ \A c \in Conns : \A i, k \in ReceivedAt(id, c) : i = k
  BY <1>1, OneOccurrence
<1> HIDE DEF C
<1>4. ASSUME NEW x \in Held(id), NEW y \in Held(id) PROVE x = y
  <2>1. /\ \/ \E c \in Conns : \E i \in InInbox(id, c) : x = <<"inbox", c, i>>
           \/ \E i \in InQueue(id) : x = <<"queue", None, i>>
           \/ \E j \in Jid : \E i \in InStore(id, j) : x = <<"store", j, i>>
        /\ \/ \E c \in Conns : \E i \in InInbox(id, c) : y = <<"inbox", c, i>>
           \/ \E i \in InQueue(id) : y = <<"queue", None, i>>
           \/ \E j \in Jid : \E i \in InStore(id, j) : y = <<"store", j, i>>
    BY <1>1, <1>4, HeldElements
  <2>2. CASE Queued(C)
    BY <1>1, <1>2, <1>3, <2>1, <2>2 DEF Apart
  <2>3. ASSUME NEW c \in Conns, Unread(C, c) PROVE x = y
    BY <1>1, <1>2, <1>3, <2>1, <2>3 DEF Apart
  <2>4. ASSUME NEW j \in Jid, Stored(C, j) PROVE x = y
    BY <1>1, <1>2, <1>3, <2>1, <2>4 DEF Apart
  <2> QED BY <1>2, <2>1, <2>2, <2>3, <2>4
<1>5. ASSUME Recipients(id) # {}, NEW x \in Held(id) PROVE FALSE
  <2>1. \E c \in Conns : Got(C, c)
    BY <1>2, <1>5 DEF Recipients
  <2>2. Queued(C) \/ (\E c \in Conns : Unread(C, c)) \/ \E j \in Jid : Stored(C, j)
    BY <1>1, <1>2, <1>5, HeldElements
  <2> QED BY <1>1, <2>1, <2>2 DEF Apart
<1> QED BY <1>3, <1>4, <1>5, AtMostOneElement

\* The hand-over of a message from inbox to queue to store to socket never
\* copies it: it is in one place at a time, is held nowhere once a connection
\* received it, and no connection receives it twice; for all values of the
\* constants, whatever is put back, lost, restarted or accepted again.
THEOREM MessagesArriveOnce == Spec => []AtMostOnce
BY InitOnce, StepOnce, OnceInvImpliesAtMostOnce, PTL DEF Spec

-----------------------------------------------------------------------------
(* FullJidOneConnection, over any reuse of addresses: the entry with a full   *)
(* JID is at the address of the connection that was bound to its resource,    *)
(* though another connection may use that entry by now.                       *)
HasFullJid(a) == Listed(a) /\ peerList[a].jid # None /\ peerList[a].jid.res # None

FullEntry ==
  \A a \in Addrs : HasFullJid(a) =>
    Bound(peerList[a].jid.res) /\ addr[peerList[a].jid.res] = a

OneRecipient ==
  \A m \in Message : m.to.res # None =>
    \A c, d \in Conns : Got({m}, c) /\ Got({m}, d) => c = d

LEMMA FullJidRes ==
  ASSUME TypeInv, NEW a \in Addrs, HasFullJid(a)
  PROVE  peerList[a].jid.res \in Conns /\ peerList[a] \in Client
BY DEF TypeInv, TypeOK, HasFullJid, Listed, Client, Jid

\* A step that gives no entry a full JID, and does not take away what is bound.
LEMMA KeepsFullEntry ==
  ASSUME TypeInv, FullEntry,
         \A a \in Addrs : HasFullJid(a)' =>
           HasFullJid(a) /\ peerList'[a].jid.res = peerList[a].jid.res,
         \A c \in Conns : Bound(c) => Bound(c)' /\ addr'[c] = addr[c]
  PROVE  FullEntry'
BY FullJidRes DEF FullEntry

LEMMA SetOnlineFullEntry ==
  ASSUME TypeInv, NEW j, NEW flag \in BOOLEAN, SetOnline(j, flag), NEW a \in Addrs,
         HasFullJid(a)'
  PROVE  HasFullJid(a) /\ peerList'[a].jid.res = peerList[a].jid.res
<1>1. peerList \in [Addrs -> Client \cup {None}]
  BY DEF TypeInv, TypeOK
<1>2. CASE peerList'[a] = peerList[a]
  BY <1>2 DEF HasFullJid, Listed
<1>3. CASE Listed(a) /\ peerList'[a] = [peerList[a] EXCEPT !.online = flag]
  <2>1. peerList[a] \in Client
    BY <1>1, <1>3 DEF Listed
  <2>2. peerList'[a].jid = peerList[a].jid
    BY <1>3, <2>1 DEF Client
  <2> QED BY <1>3, <2>2 DEF HasFullJid
<1> QED BY <1>2, <1>3 DEF SetOnline

LEMMA HandleBindFullEntry ==
  ASSUME TypeInv, FullEntry, NEW c \in Conns, HandleBind(c), addr[c] \in Addrs,
         UNCHANGED addr
  PROVE  FullEntry'
<1>1. CASE ~Listed(addr[c])
  BY <1>1 DEF HandleBind, FullEntry, HasFullJid, Listed, Bound
<1>2. CASE Listed(addr[c])
  <2>1. /\ stage' = [stage EXCEPT ![c] = "bound"]
        /\ peerList' = [peerList EXCEPT ![addr[c]] =
                          [@ EXCEPT !.jid = Full(c), !.transport = c]]
    BY <1>2 DEF HandleBind
  <2>2. /\ Bound(c)' /\ \A d \in Conns : Bound(d) => Bound(d)'
    BY <2>1 DEF TypeInv, TypeOK, Bound
  <2>3. peerList[addr[c]] \in Client /\ peerList'[addr[c]].jid = Full(c)
    BY <1>2, <2>1 DEF TypeInv, TypeOK, Listed, Client
  <2>4. Full(c).res = c
    BY DEF Full
  <2>5. ASSUME NEW a \in Addrs, HasFullJid(a)'
        PROVE  \E d \in Conns : d = peerList'[a].jid.res /\ Bound(d)' /\ addr'[d] = a
    <3>1. CASE a = addr[c]
      BY <2>2, <2>3, <2>4, <3>1
    <3>2. CASE a # addr[c]
      <4>1. peerList'[a] = peerList[a]
        BY <2>1, <3>2 DEF TypeInv, TypeOK
      <4>2. HasFullJid(a)
        BY <2>5, <4>1 DEF HasFullJid, Listed
      <4>3. /\ peerList[a].jid.res \in Conns
            /\ Bound(peerList[a].jid.res) /\ addr[peerList[a].jid.res] = a
        BY <4>2, FullJidRes DEF FullEntry
      <4> QED BY <2>2, <4>1, <4>3
    <3> QED BY <3>1, <3>2
  <2> QED BY <2>5 DEF FullEntry, Bound
<1> QED BY <1>1, <1>2

LEMMA BridgeFullEntry ==
  ASSUME TypeInv, FullEntry, NEW c \in Conns, Bridge(c)
  PROVE  FullEntry'
<1>1. addr[c] \in Addrs /\ UNCHANGED addr /\ Head(inbox[c]) \in Stanza
  BY BridgeCases DEF Bridge, TypeInv, ConnOK
<1>2. CASE HandleBind(c)
  BY <1>1, <1>2, HandleBindFullEntry
<1>3. CASE stage[c] = "auth" /\ HandleUnbound(c)
  <2>1. \A a \in Addrs : peerList'[a] = peerList[a] \/ peerList'[a] = None
    BY <1>3 DEF HandleUnbound, Close, TypeInv, TypeOK
  <2>2. \A d \in Conns : Bound(d) => Bound(d)' /\ addr'[d] = addr[d]
    BY <1>1, <1>3 DEF HandleUnbound, Bound
  <2> QED BY <2>1, <2>2, KeepsFullEntry DEF HasFullJid, Listed
<1>4. CASE /\ Head(inbox[c]).kind = "presence"
           /\ HandlePresence(c, Head(inbox[c]).entry)
  <2>1. \A d \in Conns : Bound(d) => Bound(d)' /\ addr'[d] = addr[d]
    BY <1>1, <1>4 DEF HandlePresence, Bound
  <2>2. PICK flag \in BOOLEAN : SetOnline(Full(c), flag)
    BY <1>4 DEF HandlePresence
  <2> QED BY <2>1, <2>2, SetOnlineFullEntry, KeepsFullEntry
<1>5. CASE HandleMessage(Head(inbox[c]).msg) \/ (stage[c] = "bound" /\ HandleFault(c))
  <2>1. \A d \in Conns : Bound(d) => Bound(d)' /\ addr'[d] = addr[d]
    BY <1>1, <1>5 DEF HandleMessage, HandleFault, Bound, TypeInv, TypeOK
  <2>2. peerList' = peerList
    BY <1>5 DEF HandleMessage, HandleFault
  <2> QED BY <2>1, <2>2, KeepsFullEntry DEF HasFullJid, Listed
<1> QED BY <1>2, <1>3, <1>4, <1>5 DEF Bridge

LEMMA StepFullEntry ==
  ASSUME TypeInv, FullEntry, [Next]_vars
  PROVE  FullEntry'
<1>1. ASSUME NEW c \in Conns, NEW a \in Addrs, ConnectionMade(c, a) PROVE FullEntry'
  <2>1. ~Bound(c) /\ UNCHANGED stage
    BY <1>1 DEF ConnectionMade, Bound, TypeInv, ConnOK
  <2>2. \A d \in Conns : Bound(d) => Bound(d)' /\ addr'[d] = addr[d]
    BY <1>1, <2>1 DEF ConnectionMade, Bound, TypeInv, TypeOK
  <2>3. \A b \in Addrs : \/ peerList'[b] = peerList[b]
                         \/ peerList'[b].jid = None
    BY <1>1 DEF ConnectionMade, TypeInv, TypeOK, Listed
  <2> QED BY <2>2, <2>3, KeepsFullEntry DEF HasFullJid, Listed
<1>2. ASSUME NEW c \in Conns, StartTls(c) \/ \E u \in Users : Authenticate(c, u)
      PROVE  FullEntry'
  <2>1. /\ addr[c] \in Addrs /\ Listed(addr[c]) /\ peerList[addr[c]] \in Client
        /\ UNCHANGED addr
        /\ \A d \in Conns : Bound(d) => Bound(d)'
    BY <1>2 DEF StartTls, Authenticate, Bound, TypeInv, TypeOK, ConnOK, Listed
  <2>2. CASE StartTls(c)
    <3>1. /\ peerList'[addr[c]].jid = peerList[addr[c]].jid
          /\ \A b \in Addrs : b # addr[c] => peerList'[b] = peerList[b]
      BY <2>1, <2>2 DEF StartTls, TypeInv, TypeOK, Client
    <3> QED BY <2>1, <3>1, KeepsFullEntry DEF HasFullJid, Listed
  <2>3. ASSUME NEW u \in Users, Authenticate(c, u) PROVE FullEntry'
    <3>1. /\ peerList'[addr[c]].jid.res = None
          /\ \A b \in Addrs : b # addr[c] => peerList'[b] = peerList[b]
      BY <2>1, <2>3 DEF Authenticate, TypeInv, TypeOK, Client, Bare
    <3> QED BY <2>1, <3>1, KeepsFullEntry DEF HasFullJid, Listed
  <2> QED BY <1>2, <2>2, <2>3
<1>3. ASSUME NEW c \in Conns, EndStream(c) PROVE FullEntry'
  <2>1. \A a \in Addrs : peerList'[a] = peerList[a] \/ peerList'[a] = None
    BY <1>3 DEF EndStream, Close, TypeInv, TypeOK
  <2>2. \A d \in Conns : Bound(d) => Bound(d)' /\ addr'[d] = addr[d]
    BY <1>3 DEF EndStream, Bound
  <2> QED BY <2>1, <2>2, KeepsFullEntry DEF HasFullJid, Listed
<1>4. ASSUME UNCHANGED <<stage, addr, peerList>> PROVE FullEntry'
  BY <1>4 DEF FullEntry, HasFullJid, Listed, Bound
<1>5. ASSUME NEW c \in Conns,
             \/ SendBind(c) \/ SendFault(c)
             \/ (\E p \in PresenceEntry : SendPresence(c, p))
             \/ (\E m \in Message : SendMessage(c, m))
             \/ CloseTransport(c) \/ ConnectionLost(c)
      PROVE  FullEntry'
  <2>1. UNCHANGED <<stage, addr, peerList>>
    BY <1>5 DEF SendBind, SendFault, SendPresence, SendMessage, Send, CloseTransport,
                ConnectionLost, clientVars
  <2> QED BY <1>4, <2>1
<1>6. ASSUME Worker \/ UNCHANGED vars PROVE FullEntry'
  <2>1. UNCHANGED <<stage, addr, peerList>>
    BY <1>6 DEF Worker, WorkerConnection, WorkerMessage, vars, clientVars
  <2> QED BY <1>4, <2>1
<1>7. ASSUME Restart PROVE FullEntry'
  BY <1>7 DEF Restart, FullEntry, HasFullJid, Listed
<1> QED BY <1>1, <1>2, <1>3, <1>5, <1>6, <1>7, BridgeFullEntry DEF Next, Environment

\* get_transport of a full JID: "it will only return one buffer".
LEMMA OneTransport ==
  ASSUME FullEntry, NEW j, j.res # None,
         NEW t \in TransportsOnline(j), NEW v \in TransportsOnline(j)
  PROVE  t = v
<1>1. PICK a \in Addrs : HasFullJid(a) /\ peerList[a].jid.res = j.res
                         /\ t = peerList[a].transport
  BY DEF TransportsOnline, OnlineAt, HasFullJid
<1>2. PICK b \in Addrs : HasFullJid(b) /\ peerList[b].jid.res = j.res
                         /\ v = peerList[b].transport
  BY DEF TransportsOnline, OnlineAt, HasFullJid
<1>3. a = b
  BY <1>1, <1>2 DEF FullEntry
<1> QED BY <1>1, <1>2, <1>3

\* The steps that write messages: handle_msg, and the worker's flush.
LEMMA ReceiveCases ==
  ASSUME TypeInv, [Next]_vars
  PROVE  \/ received' = received
         \/ \E c \in Conns, m \in Message :
              /\ Bridge(c) /\ Head(inbox[c]).kind = "message" /\ Head(inbox[c]).msg = m
              /\ Write(Buffers(m), <<m>>)
         \/ \E k \in Jid : Flush(k)
<1>1. ASSUME NEW c \in Conns,
             \/ \E a \in Addrs : ConnectionMade(c, a)
             \/ StartTls(c) \/ (\E u \in Users : Authenticate(c, u))
             \/ SendBind(c) \/ SendFault(c)
             \/ (\E p \in PresenceEntry : SendPresence(c, p))
             \/ (\E m \in Message : SendMessage(c, m))
             \/ EndStream(c) \/ CloseTransport(c) \/ ConnectionLost(c)
      PROVE  received' = received
  BY <1>1 DEF ConnectionMade, StartTls, Authenticate, SendBind, SendFault, SendPresence,
              SendMessage, Send, EndStream, CloseTransport, ConnectionLost
<1>2. ASSUME NEW c \in Conns, Bridge(c)
      PROVE  \/ received' = received
             \/ \E m \in Message : /\ Head(inbox[c]).kind = "message"
                                   /\ Head(inbox[c]).msg = m
                                   /\ Write(Buffers(m), <<m>>)
  BY <1>2, BridgeCases DEF HandleMessage
<1>3. ASSUME Worker PROVE received' = received \/ \E k \in Jid : Flush(k)
  <2> PICK taken \in BOOLEAN : WorkerConnection(taken) \/ WorkerMessage(taken)
    BY <1>3 DEF Worker
  <2>1. WorkerConnection(taken) => Flush(TargetKey(Head(conQ))) /\ Head(conQ) \in BoundJid
    BY SeqTypes, Types DEF WorkerConnection
  <2>2. WorkerMessage(taken) => received' = received
    BY DEF WorkerMessage
  <2> QED BY <2>1, <2>2, TargetKeyType
<1>4. Restart \/ UNCHANGED vars => received' = received
  BY DEF Restart, vars
<1> QED BY <1>1, <1>2, <1>3, <1>4 DEF Next, Environment

\* Whoever receives m in a step is one of the transports of a full JID, and
\* nobody had received m before, for it was still held.
LEMMA StepOneRecipient ==
  ASSUME OnceInv, FullEntry, OneRecipient, [Next]_vars
  PROVE  OneRecipient'
<1> SUFFICES ASSUME NEW m \in Message, m.to.res # None, NEW c \in Conns, NEW d \in Conns,
                    Got({m}, c)', Got({m}, d)'
             PROVE  c = d
  BY DEF OneRecipient, Message, Jid
<1>1. TypeInv /\ Kept({m})
  <2>1. m.id \in MsgIds /\ {m} \in SUBSET Copies(m.id)
    BY DEF Message, Copies
  <2> QED BY <2>1, KeptSubset DEF OnceInv
<1>2. CASE received' = received
  BY <1>2 DEF OneRecipient, Got
<1>3. ASSUME NEW b \in Conns, NEW n \in Message, Bridge(b),
             Head(inbox[b]).kind = "message", Head(inbox[b]).msg = n,
             Write(Buffers(n), <<n>>)
      PROVE  c = d
  <2>1. <<n>> \in Seq(Message) /\ (Has(<<n>>, {m}) <=> n = m)
    BY DEF Has
  <2>2. \A e \in Conns : Got({m}, e)' <=>
          Got({m}, e) \/ (e \in Buffers(n) /\ link[e] = "open" /\ n = m)
    BY <1>1, <1>3, <2>1, WriteEffect
  <2>3. CASE n # m
    BY <2>2, <2>3 DEF OneRecipient
  <2>4. CASE n = m
    <3>1. Unread({m}, b)
      BY <1>1, <1>3, <2>4, BridgeCases, TakeEffect, CarrierKinds
    <3>2. ~Got({m}, c) /\ ~Got({m}, d)
      BY <1>1, <3>1 DEF Kept, Apart
    <3>3. c \in TransportsOnline(m.to) /\ d \in TransportsOnline(m.to)
      BY <2>2, <2>4, <3>2 DEF Buffers
    <3> QED BY <3>3, OneTransport
  <2> QED BY <2>3, <2>4
<1>4. ASSUME NEW k \in Jid, Flush(k) PROVE c = d
  <2>1. \A e \in Conns : Got({m}, e)' <=>
          Got({m}, e) \/ (e \in TransportsOnline(k) /\ link[e] = "open" /\ Stored({m}, k))
    BY <1>1, <1>4, FlushEffect
  <2>2. CASE ~Stored({m}, k)
    BY <2>1, <2>2 DEF OneRecipient
  <2>3. CASE Stored({m}, k)
    <3>1. m.to = k
      BY <2>3 DEF OnceInv, UnderAddressee
    <3>2. ~Got({m}, c) /\ ~Got({m}, d)
      BY <1>1, <2>3 DEF Kept, Apart
    <3> QED BY <2>1, <3>1, <3>2, OneTransport
  <2> QED BY <2>2, <2>3
<1> QED BY <1>1, <1>2, <1>3, <1>4, ReceiveCases

\* What was received under the identity of a sent message is that message.
LEMMA ReceivedIsSent ==
  ASSUME OnceInv, NEW m \in sent, NEW c \in Conns, Got(Copies(m.id), c)
  PROVE  Got({m}, c)
<1>1. TypeInv /\ sent \subseteq Message /\ m \in Message
  BY Types DEF OnceInv
<1>2. Copies(m.id) \in SUBSET Message
  BY DEF Copies
<1>3. PICK n \in Copies(m.id) : Got({n}, c)
  BY <1>1, <1>2, Types DEF Got, Has
<1>4. n \in sent
  BY <1>3 DEF OnceInv, HeldWasSent, Somewhere, Copies
<1>5. n = m
  BY <1>3, <1>4 DEF OnceInv, SentOnce, Copies
<1> QED BY <1>3, <1>5

LEMMA OneRecipientImplies == OnceInv /\ OneRecipient => FullJidOneConnection
<1> SUFFICES ASSUME OnceInv, OneRecipient, NEW m \in sent, m.to.res # None
             PROVE  Cardinality(Recipients(m.id)) <= 1
  BY DEF FullJidOneConnection
<1>1. TypeInv /\ m \in Message /\ m.id \in MsgIds
  BY Types DEF OnceInv, Message
<1>2. \A c \in Recipients(m.id) : c \in Conns /\ Got({m}, c)
  BY <1>1, WhereItIs, ReceivedIsSent DEF Recipients
<1>3. \A x, y \in Recipients(m.id) : x = y
  BY <1>1, <1>2 DEF OneRecipient
<1> QED BY <1>3, AtMostOneElement

LEMMA InitOneRecipient == Init => FullEntry /\ OneRecipient
BY EmptyHas DEF Init, FullEntry, HasFullJid, Listed, OneRecipient, Got

\* A message sent to a full JID reaches one connection at most, though an entry
\* of _peerList may carry the JID of one connection and the transport of a
\* later one over the same address: for all values of the constants.
THEOREM FullJidReachesOne == Spec => []FullJidOneConnection
<1> DEFINE Inv == OnceInv /\ FullEntry /\ OneRecipient
<1>1. Init => Inv
  BY InitOnce, InitOneRecipient
<1>2. Inv /\ [Next]_vars => Inv'
  BY StepOnce, StepFullEntry, StepOneRecipient DEF OnceInv
<1>3. Inv => FullJidOneConnection
  BY OneRecipientImplies
<1> QED BY <1>1, <1>2, <1>3, PTL DEF Spec

-----------------------------------------------------------------------------
(* Delivery implements Mailbox.  The state functions of DeliveryMailbox, in   *)
(* terms of the containers.                                                   *)
InboxHas(id, c) == Unread(Copies(id), c)
QueueHas(id) == Queued(Copies(id))
StoreHas(id, j) == Stored(Copies(id), j)
Reached(id, c) == Got(Copies(id), c)

View ==
  \A id \in MsgIds :
    /\ PlaceOf(id) = "unsent" <=> \A m \in sent : m.id # id
    /\ PlaceOf(id) = "accepted" <=> \E c \in Conns : InboxHas(id, c)
    /\ PlaceOf(id) = "queued" <=> QueueHas(id)
    /\ PlaceOf(id) = "stored" <=> \E j \in Jid : StoreHas(id, j)
    /\ PlaceOf(id) \in {"unsent", "accepted", "queued", "stored", "settled"}
    /\ \A m \in sent : m.id = id => AddressOf(id) = m.to
    /\ (\A m \in sent : m.id # id) => AddressOf(id) = None
    /\ Recipients(id) = {c \in Conns : Reached(id, c)}

\* Where a message is, it is alone, under its addressee, and was sent.
Alone ==
  \A id \in MsgIds :
    /\ \A c \in Conns : InboxHas(id, c) =>
         ~QueueHas(id) /\ \A j \in Jid : ~StoreHas(id, j)
    /\ \A c, d \in Conns : InboxHas(id, c) /\ InboxHas(id, d) => c = d
    /\ \A j \in Jid : StoreHas(id, j) =>
         /\ ~QueueHas(id)
         /\ \E m \in sent : m.id = id /\ m.to = j
    /\ \A c \in Conns : Reached(id, c) => /\ ~QueueHas(id)
                                          /\ \A d \in Conns : ~InboxHas(id, d)
                                          /\ \A j \in Jid : ~StoreHas(id, j)
    /\ (\A m \in sent : m.id # id) => /\ ~QueueHas(id)
                                      /\ \A c \in Conns : ~InboxHas(id, c) /\ ~Reached(id, c)
                                      /\ \A j \in Jid : ~StoreHas(id, j)

LEMMA OnceInvImpliesAlone == OnceInv => Alone
<1> SUFFICES ASSUME OnceInv, NEW id \in MsgIds
    PROVE  /\ \A c \in Conns : InboxHas(id, c) =>
                ~QueueHas(id) /\ \A j \in Jid : ~StoreHas(id, j)
           /\ \A c, d \in Conns : InboxHas(id, c) /\ InboxHas(id, d) => c = d
           /\ \A j \in Jid : StoreHas(id, j) =>
                ~QueueHas(id) /\ \E m \in sent : m.id = id /\ m.to = j
           /\ \A c \in Conns : Reached(id, c) => /\ ~QueueHas(id)
                                                 /\ \A d \in Conns : ~InboxHas(id, d)
                                                 /\ \A j \in Jid : ~StoreHas(id, j)
           /\ (\A m \in sent : m.id # id) =>
                /\ ~QueueHas(id)
                /\ \A c \in Conns : ~InboxHas(id, c) /\ ~Reached(id, c)
                /\ \A j \in Jid : ~StoreHas(id, j)
  BY DEF Alone
<1> USE DEF InboxHas, QueueHas, StoreHas, Reached
<1> DEFINE C == Copies(id)
<1>1. Apart(C) /\ TypeInv /\ C \in SUBSET Message /\ \A m \in C : m.id = id
  BY DEF OnceInv, Kept, Copies
<1> HIDE DEF C
<1>2. ASSUME NEW j \in Jid, Stored(C, j) PROVE \E m \in sent : m.id = id /\ m.to = j
  <2>1. PICK m \in C : Stored({m}, j)
    BY <1>1, <1>2, Types DEF Stored, Has
  <2> QED BY <1>1, <1>2, <2>1 DEF OnceInv, HeldWasSent, UnderAddressee, Somewhere
<1>3. (\A m \in sent : m.id # id) => ~Somewhere(C)
  BY <1>1, UnsentIsNowhere
<1> QED BY <1>1, <1>2, <1>3 DEF Apart, Somewhere, C

LEMMA OnceInvImpliesView == OnceInv => View
<1> SUFFICES ASSUME OnceInv, NEW id \in MsgIds
    PROVE  /\ PlaceOf(id) = "unsent" <=> \A m \in sent : m.id # id
           /\ PlaceOf(id) = "accepted" <=> \E c \in Conns : InboxHas(id, c)
           /\ PlaceOf(id) = "queued" <=> QueueHas(id)
           /\ PlaceOf(id) = "stored" <=> \E j \in Jid : StoreHas(id, j)
           /\ PlaceOf(id) \in {"unsent", "accepted", "queued", "stored", "settled"}
           /\ \A m \in sent : m.id = id => AddressOf(id) = m.to
           /\ (\A m \in sent : m.id # id) => AddressOf(id) = None
           /\ Recipients(id) = {c \in Conns : Reached(id, c)}
  BY DEF View
<1>1. /\ \A c \in Conns : InInbox(id, c) # {} <=> InboxHas(id, c)
      /\ InQueue(id) # {} <=> QueueHas(id)
      /\ \A j \in Jid : InStore(id, j) # {} <=> StoreHas(id, j)
      /\ \A c \in Conns : ReceivedAt(id, c) # {} <=> Reached(id, c)
  BY WhereItIs DEF OnceInv, InboxHas, QueueHas, StoreHas, Reached
<1>2. Alone
  BY OnceInvImpliesAlone
<1>3. /\ PlaceOf(id) = "unsent" <=> \A m \in sent : m.id # id
      /\ PlaceOf(id) = "accepted" <=> \E c \in Conns : InboxHas(id, c)
      /\ PlaceOf(id) = "queued" <=> QueueHas(id)
      /\ PlaceOf(id) = "stored" <=> \E j \in Jid : StoreHas(id, j)
      /\ PlaceOf(id) \in {"unsent", "accepted", "queued", "stored", "settled"}
  BY <1>1, <1>2 DEF PlaceOf, Alone
<1>4. \A m \in sent : m.id = id => AddressOf(id) = m.to
  BY DEF AddressOf, OnceInv, SentOnce
<1>5. (\A m \in sent : m.id # id) => AddressOf(id) = None
  BY DEF AddressOf
<1>6. Recipients(id) = {c \in Conns : Reached(id, c)}
  BY <1>1 DEF Recipients
<1> QED BY <1>3, <1>4, <1>5, <1>6

\* The steps of Mailbox, one message or set of messages at a time.
LEMMA Moves ==
  ASSUME NEW M, NEW p,
         \A id \in MsgIds : PlaceOf(id)' = IF id \in M THEN p ELSE PlaceOf(id)
  PROVE  Box!Move(M, p)
BY DEF Box!Move

LEMMA InPlace ==
  ASSUME NEW id \in MsgIds, NEW p
  PROVE  id \in Box!In(p) <=> PlaceOf(id) = p
BY DEF Box!In

LEMMA SameTo ==
  ASSUME sent' = sent
  PROVE  UNCHANGED [id \in MsgIds |-> AddressOf(id)]
<1>1. ASSUME NEW id \in MsgIds PROVE AddressOf(id)' = AddressOf(id)
  BY DEF AddressOf
<1> QED BY <1>1

LEMMA SameGot ==
  ASSUME received' = received
  PROVE  UNCHANGED [id \in MsgIds |-> Recipients(id)]
<1>1. ASSUME NEW id \in MsgIds PROVE Recipients(id)' = Recipients(id)
  BY DEF Recipients, ReceivedAt
<1> QED BY <1>1

\* A step that neither moves a message nor signs anyone in.
LEMMA QuietStutters ==
  ASSUME View, View', UNCHANGED <<sent, received, user, restarts>>,
         \A id \in MsgIds :
           /\ \A c \in Conns : InboxHas(id, c)' <=> InboxHas(id, c)
           /\ QueueHas(id)' <=> QueueHas(id)
           /\ \A j \in Jid : StoreHas(id, j)' <=> StoreHas(id, j)
  PROVE  UNCHANGED Box!vars
<1>1. ASSUME NEW id \in MsgIds PROVE PlaceOf(id)' = PlaceOf(id)
  BY DEF View, Jid
<1> QED BY <1>1, SameTo, SameGot DEF Box!vars

LEMMA UntouchedStutters ==
  ASSUME UNCHANGED <<sent, received, inbox, msgQ, pending>>
  PROVE  UNCHANGED <<[id \in MsgIds |-> PlaceOf(id)], [id \in MsgIds |-> AddressOf(id)],
                     [id \in MsgIds |-> Recipients(id)]>>
<1>1. ASSUME NEW id \in MsgIds PROVE PlaceOf(id)' = PlaceOf(id)
  BY DEF PlaceOf, InInbox, InQueue, InStore, IsMessage, Jid
<1> QED BY <1>1, SameTo, SameGot

\* Steps that touch no container, and connection set-up.
LEMMA QuietMaps ==
  ASSUME NEW c \in Conns,
         \/ \E a \in Addrs : ConnectionMade(c, a)
         \/ StartTls(c) \/ EndStream(c) \/ CloseTransport(c)
  PROVE  UNCHANGED Box!vars
<1>1. UNCHANGED <<sent, received, inbox, msgQ, pending, user, restarts>>
  BY DEF ConnectionMade, StartTls, EndStream, CloseTransport, queueVars, historyVars
<1> QED BY <1>1, UntouchedStutters DEF Box!vars

LEMMA AuthenticateMaps ==
  ASSUME TypeInv, NEW c \in Conns, NEW u \in Users, Authenticate(c, u)
  PROVE  Box!Next
<1>1. /\ UNCHANGED <<sent, received, inbox, msgQ, pending, restarts>>
      /\ user[c] = None /\ user' = [user EXCEPT ![c] = u]
  BY DEF Authenticate, queueVars, historyVars, TypeInv, ConnOK
<1>2. Box!SignIn(c, u)
  BY <1>1, UntouchedStutters DEF Box!SignIn
<1> QED BY <1>2 DEF Box!Next

LEMMA SendIds ==
  ASSUME TypeInv, NEW c \in Conns, NEW s \in Stanza, Send(c, s), NEW id \in MsgIds
  PROVE  /\ UNCHANGED <<msgQ, pending, received, user, restarts>>
         /\ \A d \in Conns : InboxHas(id, d)' <=>
              InboxHas(id, d) \/ (d = c /\ s.kind = "message" /\ s.msg \in Copies(id))
         /\ QueueHas(id)' <=> QueueHas(id)
         /\ \A j \in Jid : StoreHas(id, j)' <=> StoreHas(id, j)
<1>1. UNCHANGED <<msgQ, pending, received, user, restarts>>
  BY DEF Send, queueVars, clientVars
<1>2. Copies(id)' = Copies(id)
  BY DEF Copies, Message, Jid
<1>3. \A d \in Conns : InboxHas(id, d)' <=>
        InboxHas(id, d) \/ (d = c /\ s.kind = "message" /\ s.msg \in Copies(id))
  BY <1>2, SendEffect, CarrierKinds DEF InboxHas
<1>4. /\ QueueHas(id)' <=> QueueHas(id)
      /\ \A j \in Jid : StoreHas(id, j)' <=> StoreHas(id, j)
  BY <1>1, <1>2 DEF QueueHas, StoreHas, Queued, Stored
<1> QED BY <1>1, <1>3, <1>4

\* A presence, a fault or a bind request in an inbox is not Mailbox's concern.
LEMMA SendOtherMaps ==
  ASSUME TypeInv, View, View', NEW c \in Conns,
         SendBind(c) \/ SendFault(c) \/ \E p \in PresenceEntry : SendPresence(c, p)
  PROVE  UNCHANGED Box!vars
<1>1. PICK s \in Stanza : Send(c, s) /\ s.kind # "message" /\ sent' = sent
  <2>1. /\ Bind \in Stanza /\ Bind.kind # "message"
        /\ Fault \in Stanza /\ Fault.kind # "message"
    BY DEF Stanza, Bind, Fault
  <2>2. ASSUME NEW p \in PresenceEntry
        PROVE  /\ [kind |-> "presence", entry |-> p] \in Stanza
               /\ [kind |-> "presence", entry |-> p].kind # "message"
    BY DEF Stanza, PresenceStanza
  <2> QED BY <2>1, <2>2 DEF SendBind, SendFault, SendPresence
<1>2. UNCHANGED <<received, user, restarts>>
  BY <1>1 DEF Send, clientVars
<1> QED BY <1>1, <1>2, SendIds, QuietStutters

LEMMA SendMessageMaps ==
  ASSUME TypeInv, View, View', Alone, Alone', NEW c \in Conns, NEW m \in Message,
         SendMessage(c, m)
  PROVE  Box!Next
<1> DEFINE i == m.id
           s == [kind |-> "message", msg |-> m]
<1>1. i \in MsgIds /\ m.to \in Jid
  BY DEF Message
<1>2. s \in Stanza /\ Send(c, s) /\ s.kind = "message" /\ s.msg = m
  BY DEF SendMessage, Stanza, MessageStanza
<1>3. \A id \in MsgIds : m \in Copies(id) <=> id = i
  BY DEF Copies
<1>4. /\ \A n \in sent : n.id # i
      /\ sent' = sent \cup {m}
      /\ UNCHANGED <<received, user, restarts>>
  BY <1>2 DEF SendMessage, Send, clientVars
<1> HIDE DEF s
<1>5. ASSUME NEW id \in MsgIds
      PROVE  PlaceOf(id)' = IF id \in {i} THEN "accepted" ELSE PlaceOf(id)
  <2>1. CASE id = i
    BY <1>2, <1>3, <2>1, SendIds DEF View
  <2>2. CASE id # i
    <3>1. /\ (\E d \in Conns : InboxHas(id, d)') <=> \E d \in Conns : InboxHas(id, d)
          /\ QueueHas(id)' <=> QueueHas(id)
          /\ (\E j \in Jid : StoreHas(id, j)') <=> \E j \in Jid : StoreHas(id, j)
          /\ (\A n \in sent' : n.id # id) <=> \A n \in sent : n.id # id
      BY <1>2, <1>3, <1>4, <2>2, SendIds
    <3> QED BY <2>2, <3>1 DEF View, Jid
  <2> QED BY <2>1, <2>2
<1>6. ASSUME NEW id \in MsgIds
      PROVE  AddressOf(id)' = IF id = i THEN m.to ELSE AddressOf(id)
  <2>1. CASE id = i
    BY <1>4, <2>1 DEF View
  <2>2. CASE id # i
    BY <1>4, <2>2 DEF View
  <2> QED BY <2>1, <2>2
<1>7. Box!Move({i}, "accepted")
  BY <1>5, Moves
<1>8. Box!Accept(i, m.to)
  BY <1>1, <1>4, <1>6, <1>7, SameGot DEF Box!Accept
<1>9. i \in Box!In("unsent") /\ m.to \in Box!Jid
  BY <1>1, <1>4, InPlace DEF View, Jid, Box!Jid
<1> QED BY <1>8, <1>9 DEF Box!Next

LEMMA TakeIds ==
  ASSUME OnceInv, NEW c \in Conns, Bridge(c), NEW id \in MsgIds
  PROVE  LET s == Head(inbox[c])
             taken == s.kind = "message" /\ s.msg \in Copies(id) IN
         /\ \A d \in Conns : InboxHas(id, d) <=> InboxHas(id, d)' \/ (d = c /\ taken)
         /\ taken => ~InboxHas(id, c)'
         /\ \A j \in Jid : StoreHas(id, j)' <=> StoreHas(id, j)
<1>1. Copies(id)' = Copies(id)
  BY DEF Copies, Message, Jid
<1>2. TypeInv /\ Once(Copies(id))
  BY DEF OnceInv, Kept
<1>3. UNCHANGED pending
  BY BridgeCases, <1>2
<1>4. \A j \in Jid : StoreHas(id, j)' <=> StoreHas(id, j)
  BY <1>1, <1>3 DEF StoreHas, Stored
<1> QED BY <1>1, <1>2, <1>4, BridgeCases, TakeEffect, CarrierKinds DEF InboxHas

LEMMA AppendIds ==
  ASSUME TypeInv, NEW m \in Message, msgQ' = Append(msgQ, m), NEW id \in MsgIds
  PROVE  QueueHas(id)' <=> QueueHas(id) \/ m.id = id
<1>1. Copies(id)' = Copies(id) /\ (m \in Copies(id) <=> m.id = id)
  BY DEF Copies, Message, Jid
<1> QED BY <1>1, AppendHas, Types DEF QueueHas, Queued

\* The message the bridge takes, and what becomes of the others.
LEMMA TakenMessage ==
  ASSUME OnceInv, View, View', Alone, NEW c \in Conns, Bridge(c),
         Head(inbox[c]).kind = "message", NEW m, m = Head(inbox[c]).msg
  PROVE  /\ m \in sent /\ m.id \in MsgIds /\ AddressOf(m.id) = m.to
         /\ PlaceOf(m.id) = "accepted"
         /\ \A d \in Conns : ~Reached(m.id, d) /\ ~InboxHas(m.id, d)'
         /\ ~QueueHas(m.id) /\ \A j \in Jid : ~StoreHas(m.id, j)'
         /\ \A id \in MsgIds \ {m.id} :
              (QueueHas(id)' <=> QueueHas(id)) => PlaceOf(id)' = PlaceOf(id)
<1>1. /\ TypeInv /\ m \in Message /\ m.id \in MsgIds
      /\ UNCHANGED <<pending, sent>>
      /\ \A id \in MsgIds : m \in Copies(id) <=> id = m.id
  BY BridgeCases, StanzaKinds DEF OnceInv, Copies, Message
<1>2. m \in sent
  <2>1. Unread({m}, c)
    BY <1>1, BridgeCases, TakeEffect, CarrierKinds
  <2> QED BY <1>1, <2>1 DEF OnceInv, HeldWasSent, Somewhere
<1>3. InboxHas(m.id, c) /\ ~InboxHas(m.id, c)'
  BY <1>1, TakeIds
<1>4. \A d \in Conns : ~InboxHas(m.id, d)'
  BY <1>1, <1>3, TakeIds DEF Alone
<1>5. /\ ~QueueHas(m.id) /\ \A d \in Conns : ~Reached(m.id, d)
      /\ \A j \in Jid : ~StoreHas(m.id, j)'
  BY <1>1, <1>3, TakeIds DEF Alone
<1>6. ASSUME NEW id \in MsgIds \ {m.id}, QueueHas(id)' <=> QueueHas(id)
      PROVE  PlaceOf(id)' = PlaceOf(id)
  <2>1. /\ \A d \in Conns : InboxHas(id, d)' <=> InboxHas(id, d)
        /\ \A j \in Jid : StoreHas(id, j)' <=> StoreHas(id, j)
    BY <1>1, <1>6, TakeIds
  <2> QED BY <1>1, <1>6, <2>1 DEF View, Jid
<1>7. AddressOf(m.id) = m.to /\ PlaceOf(m.id) = "accepted"
  BY <1>1, <1>2, <1>3 DEF View
<1> QED BY <1>1, <1>2, <1>4, <1>5, <1>6, <1>7

LEMMA BridgeMaps ==
  ASSUME OnceInv, ConnInv, View, View', Alone, NEW c \in Conns, Bridge(c)
  PROVE  [Box!Next]_Box!vars
<1> PICK m : m = Head(inbox[c]).msg OBVIOUS
<1> DEFINE i == m.id
<1>0. TypeInv /\ UNCHANGED <<user, sent, restarts, pending>>
  BY BridgeCases DEF OnceInv
<1>1. CASE Head(inbox[c]).kind # "message"
  <2>1. UNCHANGED <<msgQ, received>>
    BY <1>0, <1>1, BridgeCases
  <2>2. \A id \in MsgIds : QueueHas(id)' <=> QueueHas(id)
    BY <2>1 DEF QueueHas, Queued, Copies, Message, Jid
  <2> QED BY <1>0, <1>1, <2>1, <2>2, TakeIds, QuietStutters
<1>2. CASE Head(inbox[c]).kind = "message"
  <2>1. /\ m \in sent /\ i \in MsgIds /\ AddressOf(i) = m.to /\ PlaceOf(i) = "accepted"
        /\ \A d \in Conns : ~Reached(i, d) /\ ~InboxHas(i, d)'
        /\ ~QueueHas(i) /\ \A j \in Jid : ~StoreHas(i, j)'
        /\ \A id \in MsgIds \ {i} :
              (QueueHas(id)' <=> QueueHas(id)) => PlaceOf(id)' = PlaceOf(id)
    BY <1>2, TakenMessage
  <2>2. m \in Message /\ i \in Box!In("accepted")
    BY <1>0, <2>1, Types, InPlace
  <2>3. \/ msgQ' = Append(msgQ, m) /\ UNCHANGED received
        \/ UNCHANGED <<msgQ, received>>
        \/ Write(Buffers(m), <<m>>) /\ UNCHANGED msgQ
    BY <1>0, <1>2, BridgeCases DEF HandleMessage
  <2>4. CASE msgQ' = Append(msgQ, m) /\ UNCHANGED received
    <3>1. \A id \in MsgIds : QueueHas(id)' <=> QueueHas(id) \/ i = id
      BY <1>0, <2>2, <2>4, AppendIds
    <3>2. ASSUME NEW id \in MsgIds
          PROVE  PlaceOf(id)' = IF id \in {i} THEN "queued" ELSE PlaceOf(id)
      <4>1. CASE id = i
        BY <2>1, <3>1, <4>1 DEF View
      <4>2. CASE id # i
        BY <2>1, <3>1, <4>2
      <4> QED BY <4>1, <4>2
    <3>3. Box!Enqueue(i)
      BY <1>0, <2>4, <3>2, Moves, SameTo, SameGot DEF Box!Enqueue
    <3> QED BY <2>2, <3>3 DEF Box!Next
  <2>5. ASSUME UNCHANGED msgQ PROVE Box!Move({i}, "settled")
    <3>1. \A id \in MsgIds : QueueHas(id)' <=> QueueHas(id)
      BY <2>5 DEF QueueHas, Queued, Copies, Message, Jid
    <3>2. PlaceOf(i)' = "settled"
      BY <1>0, <2>1, <3>1 DEF View, Jid
    <3>3. ASSUME NEW id \in MsgIds
          PROVE  PlaceOf(id)' = IF id \in {i} THEN "settled" ELSE PlaceOf(id)
      BY <2>1, <3>1, <3>2
    <3> QED BY <3>3, Moves
  <2>6. CASE UNCHANGED <<msgQ, received>>
    <3>1. Box!Lose({i})
      BY <1>0, <2>5, <2>6, SameTo, SameGot DEF Box!Lose
    <3>2. {i} \in (SUBSET Box!In("accepted")) \ {{}}
      BY <2>2
    <3> QED BY <3>1, <3>2 DEF Box!Next
  <2>7. CASE Write(Buffers(m), <<m>>) /\ UNCHANGED msgQ
    <3> DEFINE S == {t \in Buffers(m) : link[t] = "open"}
    <3>1. S \in SUBSET Box!Addressees(AddressOf(i))
      BY <2>1, <2>2, BuffersAreAddressees DEF Box!Addressees
    <3>2. ASSUME NEW id \in MsgIds
          PROVE  Recipients(id)' = IF id \in {i} THEN S ELSE Recipients(id)
      <4>1. <<m>> \in Seq(Message) /\ (Has(<<m>>, Copies(id)) <=> id = i)
        BY <2>2 DEF Has, Copies
      <4>2. Copies(id)' = Copies(id)
        BY DEF Copies, Message, Jid
      <4>3. \A t \in Conns : Reached(id, t)' <=>
              Reached(id, t) \/ (t \in Buffers(m) /\ link[t] = "open" /\ id = i)
        BY <1>0, <2>7, <4>1, <4>2, WriteEffect DEF Reached
      <4>4. \A t \in Buffers(m) : t \in Conns
        BY <2>2, BuffersAreAddressees
      <4>5. CASE id = i
        BY <2>1, <4>3, <4>4, <4>5 DEF View
      <4>6. CASE id # i
        BY <4>3, <4>6 DEF View
      <4> QED BY <4>5, <4>6
    <3> HIDE DEF S
    <3>3. Box!Settle({i}, AddressOf(i))
      BY <1>0, <2>5, <2>7, <3>1, <3>2, SameTo DEF Box!Settle
    <3> QED BY <2>1, <2>2, <3>3 DEF Box!Next
  <2> QED BY <2>3, <2>4, <2>6, <2>7
<1> QED BY <1>1, <1>2

LEMMA FlushIds ==
  ASSUME TypeInv, NEW taken \in BOOLEAN, WorkerConnection(taken),
         NEW k, k = TargetKey(Head(conQ)), NEW id \in MsgIds
  PROVE  /\ k \in Jid /\ UNCHANGED <<sent, user, restarts>>
         /\ \A d \in Conns : InboxHas(id, d)' <=> InboxHas(id, d)
         /\ QueueHas(id)' <=> QueueHas(id)
         /\ \A j \in Jid : StoreHas(id, j)' <=> StoreHas(id, j) /\ j # k
         /\ \A c \in Conns : Reached(id, c)' <=>
              \/ Reached(id, c)
              \/ c \in TransportsOnline(k) /\ link[c] = "open" /\ StoreHas(id, k)
<1>1. k \in Jid /\ Flush(k) /\ UNCHANGED <<inbox, sent, user, restarts>>
  BY SeqTypes, Types, TargetKeyType DEF WorkerConnection, clientVars, historyVars
<1>2. Copies(id)' = Copies(id) /\ Carriers(Copies(id))' = Carriers(Copies(id))
  BY DEF Copies, Carriers, Message, MessageStanza, Jid
<1>3. QueueHas(id)' <=> QueueHas(id)
  BY <1>2, PutBackHas, Types DEF WorkerConnection, QueueHas, Queued
<1>4. \A d \in Conns : InboxHas(id, d)' <=> InboxHas(id, d)
  BY <1>1, <1>2 DEF InboxHas, Unread
<1>5. /\ \A j \in Jid : StoreHas(id, j)' <=> StoreHas(id, j) /\ j # k
      /\ \A c \in Conns : Reached(id, c)' <=>
           \/ Reached(id, c)
           \/ c \in TransportsOnline(k) /\ link[c] = "open" /\ StoreHas(id, k)
  BY <1>1, <1>2, FlushEffect DEF StoreHas, Reached
<1> QED BY <1>1, <1>3, <1>4, <1>5

LEMMA StoreIds ==
  ASSUME TypeInv, NEW taken \in BOOLEAN, WorkerMessage(taken),
         NEW m, m = Head(msgQ), NEW id \in MsgIds,
         Kept(Copies(id))
  PROVE  /\ m \in Message /\ UNCHANGED <<sent, user, restarts, received>>
         /\ \A d \in Conns : InboxHas(id, d)' <=> InboxHas(id, d)
         /\ QueueHas(id) <=> m.id = id \/ QueueHas(id)'
         /\ m.id = id => ~QueueHas(id)'
         /\ \A j \in Jid : StoreHas(id, j)' <=> StoreHas(id, j) \/ (j = m.to /\ m.id = id)
<1>1. UNCHANGED <<inbox, sent, user, restarts, received>>
  BY DEF WorkerMessage, clientVars, historyVars
<1>2. Copies(id)' = Copies(id) /\ Carriers(Copies(id))' = Carriers(Copies(id))
  BY DEF Copies, Carriers, Message, MessageStanza, Jid
<1>3. m \in Message
  BY StoreEffect
<1>4. m \in Copies(id) <=> m.id = id
  BY <1>3 DEF Copies
<1>5. \A d \in Conns : InboxHas(id, d)' <=> InboxHas(id, d)
  BY <1>1, <1>2 DEF InboxHas, Unread
<1>6. /\ QueueHas(id) <=> m.id = id \/ QueueHas(id)'
      /\ m.id = id => ~QueueHas(id)'
      /\ \A j \in Jid : StoreHas(id, j)' <=> StoreHas(id, j) \/ (j = m.to /\ m.id = id)
  BY <1>2, <1>4, StoreEffect DEF QueueHas, StoreHas
<1> QED BY <1>1, <1>3, <1>5, <1>6

LEMMA WorkerConnectionMaps ==
  ASSUME ConnInv, View, View', Alone, Alone', NEW taken \in BOOLEAN, WorkerConnection(taken)
  PROVE  [Box!Next]_Box!vars
<1> PICK k : k = TargetKey(Head(conQ)) OBVIOUS
<1> DEFINE S == {t \in TransportsOnline(k) : link[t] = "open"}
<1> PICK M : M = {id \in MsgIds : StoreHas(id, k)} OBVIOUS
<1>1. /\ TypeInv /\ k \in Jid /\ UNCHANGED <<sent, user, restarts>>
      /\ S \in SUBSET Conns
  <2>1. TypeInv
    BY DEF ConnInv
  <2>2. k \in Jid /\ UNCHANGED <<sent, user, restarts>>
    BY <2>1, SeqTypes, Types, TargetKeyType DEF WorkerConnection, clientVars, historyVars
  <2> QED BY <2>1, <2>2, OnlineIsAddressee
<1>2. \A id \in MsgIds :
        /\ \A d \in Conns : InboxHas(id, d)' <=> InboxHas(id, d)
        /\ QueueHas(id)' <=> QueueHas(id)
        /\ \A j \in Jid : StoreHas(id, j)' <=> StoreHas(id, j) /\ j # k
        /\ \A c \in Conns : Reached(id, c)' <=>
             \/ Reached(id, c)
             \/ c \in S /\ id \in M
  BY <1>1, FlushIds
<1>3. \A id \in MsgIds : \A j \in Jid : StoreHas(id, j) => AddressOf(id) = j
  BY DEF Alone, View
<1>4. \A id \in MsgIds : id \in M <=> PlaceOf(id) = "stored" /\ AddressOf(id) = k
  BY <1>1, <1>3 DEF View
<1>5. S \in SUBSET Box!Addressees(k)
  BY <1>1, OnlineIsAddressee DEF Box!Addressees
<1> HIDE DEF S
<1>6. ASSUME NEW id \in MsgIds
      PROVE  PlaceOf(id)' = IF id \in M THEN "settled" ELSE PlaceOf(id)
  <2>1. CASE id \in M
    <3>1. StoreHas(id, k) /\ \A j \in Jid : StoreHas(id, j) => j = k
      BY <1>3, <1>4, <2>1
    <3>2. /\ ~QueueHas(id)' /\ \A d \in Conns : ~InboxHas(id, d)'
          /\ \A j \in Jid : ~StoreHas(id, j)'
          /\ \E m \in sent : m.id = id
      BY <1>1, <1>2, <3>1 DEF Alone
    <3> QED BY <1>1, <2>1, <3>2 DEF View, Jid
  <2>2. CASE id \notin M
    <3>1. \A j \in Jid : StoreHas(id, j)' <=> StoreHas(id, j)
      BY <1>2, <2>2
    <3> QED BY <1>1, <1>2, <2>2, <3>1 DEF View, Jid
  <2> QED BY <2>1, <2>2
<1>7. ASSUME NEW id \in MsgIds
      PROVE  Recipients(id)' = IF id \in M THEN S ELSE Recipients(id)
  <2>0. /\ Recipients(id) = {c \in Conns : Reached(id, c)}
        /\ Recipients(id)' = {c \in Conns : Reached(id, c)'}
    BY DEF View
  <2>1. CASE id \in M
    <3>1. \A c \in Conns : ~Reached(id, c)
      BY <1>1, <2>1 DEF Alone
    <3>2. \A c \in Conns : Reached(id, c)' <=> c \in S
      BY <1>2, <2>1, <3>1
    <3> QED BY <1>1, <2>0, <2>1, <3>2
  <2>2. CASE id \notin M
    <3>1. \A c \in Conns : Reached(id, c)' <=> Reached(id, c)
      BY <1>2, <2>2
    <3> QED BY <2>0, <2>2, <3>1
  <2> QED BY <2>1, <2>2
<1>8. CASE M = {}
  BY <1>1, <1>6, <1>7, <1>8, SameTo DEF Box!vars
<1>9. CASE M # {}
  <2>1. M = {id \in Box!In("stored") : [i \in MsgIds |-> AddressOf(i)][id] = k}
    BY <1>4, InPlace DEF Box!In
  <2>2. Box!Settle(M, k)
    BY <1>1, <1>5, <1>6, <1>7, Moves, SameTo DEF Box!Settle
  <2>3. Box!Forward(k)
    BY <2>1, <2>2 DEF Box!Forward
  <2>4. \E id \in Box!In("stored") : [i \in MsgIds |-> AddressOf(i)][id] = k
    BY <1>9, <2>1
  <2> QED BY <2>3, <2>4 DEF Box!Next
<1> QED BY <1>8, <1>9

LEMMA WorkerMessageMaps ==
  ASSUME OnceInv, View, View', Alone, NEW taken \in BOOLEAN, WorkerMessage(taken)
  PROVE  Box!Next
<1> PICK m : m = Head(msgQ) OBVIOUS
<1>1. TypeInv /\ \A id \in MsgIds : Kept(Copies(id))
  BY DEF OnceInv
<1>2. m \in Message /\ m.id \in MsgIds /\ m.to \in Jid
  <2>1. m \in Message
    BY <1>1, StoreEffect
  <2> QED BY <2>1 DEF Message
<1>3. UNCHANGED <<sent, user, restarts, received>>
  BY <1>1, <1>2, StoreIds
<1>4. \A id \in MsgIds :
        /\ \A d \in Conns : InboxHas(id, d)' <=> InboxHas(id, d)
        /\ QueueHas(id) <=> m.id = id \/ QueueHas(id)'
        /\ m.id = id => ~QueueHas(id)'
        /\ \A j \in Jid : StoreHas(id, j)' <=> StoreHas(id, j) \/ (j = m.to /\ m.id = id)
  BY <1>1, StoreIds
<1>5. ASSUME NEW id \in MsgIds
      PROVE  PlaceOf(id)' = IF id \in {m.id} THEN "stored" ELSE PlaceOf(id)
  <2>1. CASE id = m.id
    <3>1. StoreHas(id, m.to)'
      BY <1>2, <1>4, <2>1
    <3> QED BY <1>2, <2>1, <3>1 DEF View, Jid
  <2>2. CASE id # m.id
    BY <1>3, <1>4, <2>2 DEF View, Jid
  <2> QED BY <2>1, <2>2
<1>6. Box!Store(m.id)
  BY <1>3, <1>5, Moves, SameTo, SameGot DEF Box!Store
<1>7. m.id \in Box!In("queued")
  BY <1>2, <1>4, InPlace DEF View
<1> QED BY <1>6, <1>7 DEF Box!Next

LEMMA LostMaps ==
  ASSUME TypeInv, View, View', Alone, Alone', NEW c \in Conns, ConnectionLost(c)
  PROVE  [Box!Next]_Box!vars
<1> PICK M : M = {id \in MsgIds : InboxHas(id, c)} OBVIOUS
<1>1. /\ inbox'[c] = <<>> /\ \A d \in Conns : d # c => inbox'[d] = inbox[d]
      /\ UNCHANGED <<msgQ, pending, received, sent, user, restarts>>
  BY Types DEF ConnectionLost, queueVars, historyVars
<1>2. ASSUME NEW id \in MsgIds
      PROVE  /\ \A d \in Conns : InboxHas(id, d)' <=> InboxHas(id, d) /\ d # c
             /\ QueueHas(id)' <=> QueueHas(id)
             /\ \A j \in Jid : StoreHas(id, j)' <=> StoreHas(id, j)
  <2>1. Copies(id)' = Copies(id) /\ Carriers(Copies(id))' = Carriers(Copies(id))
    BY DEF Copies, Carriers, Message, MessageStanza, Jid
  <2>2. \A d \in Conns : InboxHas(id, d)' <=> InboxHas(id, d) /\ d # c
    BY <1>1, <2>1, EmptyHas DEF InboxHas, Unread
  <2> QED BY <1>1, <2>1, <2>2 DEF QueueHas, Queued, StoreHas, Stored
<1>3. ASSUME NEW id \in MsgIds
      PROVE  PlaceOf(id)' = IF id \in M THEN "settled" ELSE PlaceOf(id)
  <2>1. CASE id \in M
    <3>1. InboxHas(id, c)
      BY <2>1
    <3>2. /\ ~QueueHas(id)' /\ \A d \in Conns : ~InboxHas(id, d)'
          /\ \A j \in Jid : ~StoreHas(id, j)'
          /\ ~\A m \in sent : m.id # id
      BY <1>2, <3>1 DEF Alone
    <3> QED BY <1>1, <2>1, <3>2 DEF View, Jid
  <2>2. CASE id \notin M
    <3>1. \A d \in Conns : InboxHas(id, d)' <=> InboxHas(id, d)
      BY <1>2, <2>2
    <3> QED BY <1>1, <1>2, <2>2, <3>1 DEF View, Jid
  <2> QED BY <2>1, <2>2
<1>4. CASE M = {}
  BY <1>1, <1>3, <1>4, SameTo, SameGot DEF Box!vars
<1>5. CASE M # {}
  <2>1. M \in (SUBSET Box!In("accepted")) \ {{}}
    <3>1. \A id \in MsgIds : InboxHas(id, c) => PlaceOf(id) = "accepted"
      BY DEF View
    <3> QED BY <1>5, <3>1, InPlace
  <2>2. Box!Lose(M)
    BY <1>1, <1>3, Moves, SameTo, SameGot DEF Box!Lose
  <2> QED BY <2>1, <2>2 DEF Box!Next
<1> QED BY <1>4, <1>5

LEMMA RestartMaps ==
  ASSUME View, View', Restart
  PROVE  Box!Next
<1>1. /\ \A d \in Conns : inbox'[d] = <<>>
      /\ msgQ' = <<>> /\ \A j \in Jid : pending'[j] = <<>>
      /\ UNCHANGED <<received, sent, user>> /\ restarts' = restarts + 1
  BY DEF Restart
<1>2. ASSUME NEW id \in MsgIds
      PROVE  /\ \A d \in Conns : ~InboxHas(id, d)'
             /\ ~QueueHas(id)'
             /\ \A j \in Jid : ~StoreHas(id, j)'
  BY <1>1, EmptyHas DEF InboxHas, Unread, QueueHas, Queued, StoreHas, Stored, Jid
<1>3. ASSUME NEW id \in MsgIds
      PROVE  PlaceOf(id)' = IF id \in MsgIds \ Box!In("unsent") THEN "settled" ELSE PlaceOf(id)
  <2>1. (\A m \in sent' : m.id # id) <=> PlaceOf(id) = "unsent"
    BY <1>1 DEF View
  <2> QED BY <1>1, <1>2, <2>1, InPlace DEF View, Jid
<1>4. Box!Crash
  <2> PICK M : M = MsgIds \ Box!In("unsent") OBVIOUS
  <2>1. Box!Move(M, "settled")
    BY <1>3, Moves
  <2> QED BY <1>1, <2>1, SameTo, SameGot DEF Box!Crash
<1> QED BY <1>4 DEF Box!Next

LEMMA StepMaps ==
  ASSUME OnceInv, ConnInv, View, View', Alone, Alone', [Next]_vars
  PROVE  [Box!Next]_Box!vars
<1>1. TypeInv
  BY DEF OnceInv
<1>2. Worker => [Box!Next]_Box!vars
  BY WorkerConnectionMaps, WorkerMessageMaps DEF Worker
<1>3. UNCHANGED vars => UNCHANGED Box!vars
  BY UntouchedStutters DEF vars, clientVars, queueVars, historyVars, Box!vars
<1> QED BY <1>1, <1>2, <1>3, QuietMaps, AuthenticateMaps, SendOtherMaps, SendMessageMaps,
           LostMaps, BridgeMaps, RestartMaps DEF Next, Environment

LEMMA InitMaps == Init => Box!Init
<1> SUFFICES ASSUME Init PROVE Box!Init OBVIOUS
<1>1. View /\ Alone /\ \A m : m \notin sent
  BY InitOnce, OnceInvImpliesView, OnceInvImpliesAlone DEF Init
<1>2. ASSUME NEW id \in MsgIds
      PROVE  PlaceOf(id) = "unsent" /\ AddressOf(id) = None /\ Recipients(id) = {}
  BY <1>1 DEF View, Alone
<1> QED BY <1>2 DEF Init, Box!Init

\* Queues, store, connection table and presence together keep the promise of
\* Mailbox, for all values of the constants without address reuse: a message
\* moves forward only, from the inbox through MESSAGES and the store of
\* queue_worker, is settled in one step for a set of connections of its
\* addressee that never changes afterwards, and what is queued or stored is
\* lost with the whole process only.
THEOREM DeliveryImplementsMailbox ==
  ASSUME AddrReuse = FALSE
  PROVE  Spec => ImplementsMailbox
<1> DEFINE Inv == OnceInv /\ ConnInv
           Seen == View /\ Alone
<1>1. Init => Inv /\ Box!Init
  BY InitOnce, InitConn, InitMaps
<1>2. Inv /\ [Next]_vars => Inv'
  BY StepOnce, StepConn
<1>3. Inv => Seen
  BY OnceInvImpliesView, OnceInvImpliesAlone
<1>4. Inv /\ Seen /\ Seen' /\ [Next]_vars => [Box!Next]_Box!vars
  BY StepMaps
<1> QED BY <1>1, <1>2, <1>3, <1>4, PTL DEF Spec, ImplementsMailbox, Box!Spec

=============================================================================
