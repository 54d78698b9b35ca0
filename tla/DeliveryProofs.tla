--------------------------- MODULE DeliveryProofs ----------------------------
(***************************************************************************)
(* Proofs about Delivery: its types, and, when addresses are not reused,   *)
(* that the two records of availability agree and that a message only      *)
(* reaches connections of its addressee.                                   *)
(***************************************************************************)
EXTENDS Delivery, TLAPS

LEMMA ReverseType ==
  ASSUME NEW S, NEW s \in Seq(S)
  PROVE  Reverse(s) \in Seq(S)
BY DEF Reverse

LEMMA SeqTypes ==
  ASSUME NEW S, NEW q \in Seq(S)
  PROVE  /\ \A e \in S : Append(q, e) \in Seq(S)
         /\ q # <<>> => Head(q) \in S /\ Tail(q) \in Seq(S)
OBVIOUS

LEMMA StanzaKinds ==
  ASSUME NEW s \in Stanza
  PROVE  /\ s.kind = "presence" => s.entry \in PresenceEntry
         /\ s.kind = "message" => s.msg \in Message
BY DEF Stanza, Bind, Fault, PresenceStanza, MessageStanza

LEMMA WriteType ==
  ASSUME NEW bufs, NEW ms \in Seq(Message), TypeOK, Write(bufs, ms)
  PROVE  received' \in [Conns -> Seq(Message)]
BY DEF Write, TypeOK

LEMMA CloseType ==
  ASSUME NEW a \in Addrs, TypeOK, Close(a)
  PROVE  /\ peerList' \in [Addrs -> Client \cup {None}]
         /\ link' \in [Conns -> {"none", "open", "closing", "lost"}]
BY DEF Close, TypeOK

LEMMA SetOnlineType ==
  ASSUME NEW j, NEW flag \in BOOLEAN, TypeOK, SetOnline(j, flag)
  PROVE  peerList' \in [Addrs -> Client \cup {None}]
<1>1. ASSUME NEW a \in Addrs, Listed(a)
      PROVE  [peerList[a] EXCEPT !.online = flag] \in Client
  BY <1>1 DEF TypeOK, Listed, Client
<1> QED BY <1>1 DEF SetOnline, TypeOK

LEMMA PutBackType ==
  ASSUME NEW S, NEW q \in Seq(S), NEW taken \in BOOLEAN, taken => q # <<>>
  PROVE  PutBack(q, taken) \in Seq(S)
BY DEF PutBack

(* What every reachable state satisfies besides its types: how far a         *)
(* connection has come, and what it has been given by then.                  *)
Bound(c) == stage[c] \in {"bound", "failed"}

ConnOK ==
  \A c \in Conns :
    /\ link[c] = "none" => addr[c] = None /\ stage[c] = "connected"
    /\ link[c] # "none" => addr[c] \in Addrs
    /\ stage[c] \in {"connected", "secured"} => user[c] = None
    /\ stage[c] \in {"auth", "bound", "failed"} => user[c] \in Users
    /\ presence[c] # None => Bound(c)

TypeInv == TypeOK /\ ConnOK

LEMMA InitType == Init => TypeInv
<1> SUFFICES ASSUME Init PROVE TypeInv OBVIOUS
<1>1. TypeOK
  BY DEF Init, TypeOK
<1>2. ConnOK
  BY NoneIsNew DEF Init, ConnOK, Bound
<1> QED BY <1>1, <1>2 DEF TypeInv

LEMMA ConnectionMadeType ==
  ASSUME TypeInv, NEW c \in Conns, NEW a \in Addrs, ConnectionMade(c, a)
  PROVE  TypeInv'
<1> USE DEF TypeInv, ConnectionMade, queueVars, historyVars
<1>1. [jid |-> None, transport |-> c, online |-> FALSE] \in Client
  BY DEF Client
<1>2. TypeOK'
  BY <1>1 DEF TypeOK
<1>3. ConnOK'
  BY NoneIsNew DEF TypeOK, ConnOK, Bound
<1> QED BY <1>2, <1>3

LEMMA StartTlsType ==
  ASSUME TypeInv, NEW c \in Conns, StartTls(c)
  PROVE  TypeInv'
<1> USE DEF TypeInv, StartTls, queueVars, historyVars
<1>1. addr[c] \in Addrs /\ peerList[addr[c]] \in Client
  BY DEF TypeOK, ConnOK, Listed
<1>2. [peerList[addr[c]] EXCEPT !.transport = c] \in Client
  BY <1>1 DEF Client
<1>3. peerList' \in [Addrs -> Client \cup {None}]
  BY <1>1, <1>2 DEF TypeOK
<1>4. TypeOK'
  BY <1>3 DEF TypeOK
<1>5. ConnOK'
  BY DEF TypeOK, ConnOK, Bound
<1> QED BY <1>4, <1>5

LEMMA AuthenticateType ==
  ASSUME TypeInv, NEW c \in Conns, NEW u \in Users, Authenticate(c, u)
  PROVE  TypeInv'
<1> USE DEF TypeInv, Authenticate, queueVars, historyVars
<1>1. addr[c] \in Addrs /\ peerList[addr[c]] \in Client
  BY DEF TypeOK, ConnOK, Listed
<1>2. [peerList[addr[c]] EXCEPT !.jid = Bare(u)] \in Client
  BY <1>1 DEF Client, Bare, Jid
<1>3. peerList' \in [Addrs -> Client \cup {None}]
  BY <1>1, <1>2 DEF TypeOK
<1>4. TypeOK'
  BY <1>3 DEF TypeOK
<1>5. ConnOK'
  BY DEF TypeOK, ConnOK, Bound
<1> QED BY <1>4, <1>5

LEMMA SendType ==
  ASSUME TypeInv, NEW c \in Conns, NEW s \in Stanza, Send(c, s),
         sent' \subseteq Message, presences' \in Nat
  PROVE  TypeInv'
<1> USE DEF TypeInv, Send, clientVars, queueVars
<1>1. inbox' \in [Conns -> Seq(Stanza)]
  BY DEF TypeOK
<1>2. TypeOK'
  BY <1>1 DEF TypeOK
<1>3. ConnOK'
  BY DEF ConnOK, Bound
<1> QED BY <1>2, <1>3

LEMMA ClosingType ==
  ASSUME TypeInv, NEW c \in Conns,
         EndStream(c) \/ CloseTransport(c) \/ ConnectionLost(c)
  PROVE  TypeInv'
<1> USE DEF TypeInv, queueVars, historyVars
<1>1. CASE EndStream(c)
  <2>1. addr[c] \in Addrs
    BY <1>1 DEF EndStream, ConnOK
  <2>2. TypeOK'
    BY <1>1, <2>1, CloseType DEF EndStream, TypeOK
  <2>3. ConnOK'
    BY <1>1 DEF EndStream, Close, TypeOK, ConnOK, Bound
  <2> QED BY <2>2, <2>3
<1>2. CASE CloseTransport(c)
  BY <1>2 DEF CloseTransport, TypeOK, ConnOK, Bound
<1>3. CASE ConnectionLost(c)
  <2>1. inbox' \in [Conns -> Seq(Stanza)]
    BY <1>3 DEF ConnectionLost, TypeOK
  <2> QED BY <1>3, <2>1 DEF ConnectionLost, TypeOK, ConnOK, Bound
<1> QED BY <1>1, <1>2, <1>3

LEMMA HandleBindType ==
  ASSUME TypeInv, NEW c \in Conns, stage[c] = "auth",
         link[c] # "none", HandleBind(c)
  PROVE  /\ link' = link
         /\ stage' = stage \/ stage' = [stage EXCEPT ![c] = "bound"]
         /\ peerList' \in [Addrs -> Client \cup {None}]
         /\ conQ' \in Seq(BoundJid)
         /\ UNCHANGED <<presence, msgQ, received>>
<1> USE DEF TypeInv, HandleBind
<1>1. CASE ~Listed(addr[c])
  BY <1>1 DEF TypeOK
<1>2. CASE Listed(addr[c])
  <2>1. addr[c] \in Addrs /\ peerList[addr[c]] \in Client /\ user[c] \in Users
    BY <1>2 DEF TypeOK, ConnOK, Listed
  <2>2. Full(c) \in BoundJid /\ Full(c) \in Jid
    BY <2>1 DEF Full, Jid, BoundJid
  <2>3. [peerList[addr[c]] EXCEPT !.jid = Full(c), !.transport = c] \in Client
    BY <2>1, <2>2 DEF Client
  <2>4. peerList' \in [Addrs -> Client \cup {None}]
    BY <1>2, <2>1, <2>3 DEF TypeOK
  <2>5. conQ \in Seq(BoundJid)
    BY DEF TypeOK
  <2>6. conQ' \in Seq(BoundJid)
    BY <1>2, <2>2, <2>5, SeqTypes
  <2> QED BY <1>2, <2>4, <2>6
<1> QED BY <1>1, <1>2

LEMMA HandlePresenceType ==
  ASSUME TypeInv, NEW c \in Conns, stage[c] = "bound",
         NEW p \in PresenceEntry, HandlePresence(c, p)
  PROVE  /\ presence' = [presence EXCEPT ![c] = p]
         /\ peerList' \in [Addrs -> Client \cup {None}]
         /\ conQ' \in Seq(BoundJid)
         /\ UNCHANGED <<link, stage, msgQ, received>>
<1> USE DEF TypeInv, HandlePresence
<1>1. user[c] \in Users
  BY DEF ConnOK
<1>2. Full(c) \in BoundJid
  BY <1>1 DEF Full, BoundJid
<1>3. conQ' \in Seq(BoundJid)
  <2>1. conQ \in Seq(BoundJid)
    BY DEF TypeOK
  <2> QED BY <1>2, <2>1, SeqTypes
<1>4. peerList' \in [Addrs -> Client \cup {None}]
  BY SetOnlineType
<1> QED BY <1>3, <1>4

LEMMA HandleMessageType ==
  ASSUME TypeInv, NEW m \in Message, HandleMessage(m)
  PROVE  /\ msgQ' \in Seq(Message)
         /\ received' \in [Conns -> Seq(Message)]
         /\ UNCHANGED <<link, stage, peerList, presence, conQ>>
<1>1. <<m>> \in Seq(Message)
  OBVIOUS
<1>2. received' \in [Conns -> Seq(Message)]
  BY <1>1, WriteType DEF HandleMessage, TypeInv, TypeOK
<1>3. msgQ' \in Seq(Message)
  <2>1. msgQ \in Seq(Message)
    BY DEF TypeInv, TypeOK
  <2> QED BY <2>1, SeqTypes DEF HandleMessage
<1> QED BY <1>2, <1>3 DEF HandleMessage

LEMMA BridgeType ==
  ASSUME TypeInv, NEW c \in Conns, Bridge(c)
  PROVE  TypeInv'
<1> DEFINE s == Head(inbox[c])
<1>1. /\ s \in Stanza /\ inbox' \in [Conns -> Seq(Stanza)]
      /\ link[c] # "none"
      /\ UNCHANGED <<addr, user, pending, sent, presences, restarts>>
  BY DEF Bridge, TypeInv, TypeOK, historyVars
<1>2. CASE stage[c] = "auth" /\ s.kind = "bind" /\ HandleBind(c)
  <2>1. TypeOK'
    BY <1>1, <1>2, HandleBindType DEF TypeInv, TypeOK
  <2>2. ConnOK'
    BY <1>1, <1>2, HandleBindType DEF TypeInv, TypeOK, ConnOK, Bound
  <2> QED BY <2>1, <2>2 DEF TypeInv
<1>3. CASE stage[c] = "auth" /\ s.kind # "bind" /\ HandleUnbound(c)
  <2>1. addr[c] \in Addrs
    BY <1>1 DEF TypeInv, ConnOK
  <2>2. TypeOK'
    BY <1>1, <1>3, <2>1, CloseType DEF HandleUnbound, TypeInv, TypeOK
  <2>3. ConnOK'
    BY <1>1, <1>3 DEF HandleUnbound, Close, TypeInv, TypeOK, ConnOK, Bound
  <2> QED BY <2>2, <2>3 DEF TypeInv
<1>4. CASE stage[c] = "bound" /\ s.kind = "presence" /\ HandlePresence(c, s.entry)
  <2>1. s.entry \in PresenceEntry
    BY <1>1, <1>4, StanzaKinds
  <2>2. TypeOK'
    BY <1>1, <1>4, <2>1, HandlePresenceType DEF TypeInv, TypeOK
  <2>3. ConnOK'
    BY <1>1, <1>4, <2>1, HandlePresenceType DEF TypeInv, TypeOK, ConnOK, Bound
  <2> QED BY <2>2, <2>3 DEF TypeInv
<1>5. CASE stage[c] = "bound" /\ s.kind = "message" /\ HandleMessage(s.msg)
  <2>1. s.msg \in Message
    BY <1>1, <1>5, StanzaKinds
  <2>2. TypeOK'
    BY <1>1, <1>5, <2>1, HandleMessageType DEF TypeInv, TypeOK
  <2>3. ConnOK'
    BY <1>1, <1>5, <2>1, HandleMessageType DEF TypeInv, ConnOK, Bound
  <2> QED BY <2>2, <2>3 DEF TypeInv
<1>6. CASE stage[c] = "bound" /\ s.kind = "fault" /\ HandleFault(c)
  BY <1>1, <1>6 DEF HandleFault, TypeInv, TypeOK, ConnOK, Bound
<1> QED BY <1>2, <1>3, <1>4, <1>5, <1>6 DEF Bridge

LEMMA TargetKeyType ==
  ASSUME NEW j \in BoundJid
  PROVE  TargetKey(j) \in Jid
BY DEF TargetKey, Bare, Jid, BoundJid

LEMMA FlushType ==
  ASSUME TypeOK, NEW k \in Jid, Flush(k)
  PROVE  /\ pending' \in [Jid -> Seq(Message)]
         /\ received' \in [Conns -> Seq(Message)]
<1>1. Reverse(pending[k]) \in Seq(Message)
  BY ReverseType DEF TypeOK
<1>2. received' \in [Conns -> Seq(Message)]
  BY <1>1, WriteType DEF Flush
<1> QED BY <1>2 DEF Flush, TypeOK

LEMMA WorkerType ==
  ASSUME TypeInv, Worker
  PROVE  TypeInv'
<1> PICK taken \in BOOLEAN : WorkerConnection(taken) \/ WorkerMessage(taken)
  BY DEF Worker
<1> USE DEF TypeInv, clientVars, historyVars
<1>0. conQ \in Seq(BoundJid) /\ msgQ \in Seq(Message)
  BY DEF TypeOK
<1>1. CASE WorkerConnection(taken)
  <2>1. conQ' \in Seq(BoundJid) /\ msgQ' \in Seq(Message)
    BY <1>0, <1>1, SeqTypes, PutBackType DEF WorkerConnection
  <2>2. TargetKey(Head(conQ)) \in Jid
    BY <1>0, <1>1, SeqTypes, TargetKeyType DEF WorkerConnection
  <2>3. /\ pending' \in [Jid -> Seq(Message)]
        /\ received' \in [Conns -> Seq(Message)]
    BY <1>1, <2>2, FlushType DEF WorkerConnection
  <2> QED BY <1>1, <2>1, <2>3 DEF WorkerConnection, TypeOK, ConnOK, Bound
<1>2. CASE WorkerMessage(taken)
  <2>1. conQ' \in Seq(BoundJid) /\ msgQ' \in Seq(Message)
    BY <1>0, <1>2, SeqTypes, PutBackType DEF WorkerMessage
  <2>2. Head(msgQ) \in Message
    BY <1>0, <1>2, SeqTypes DEF WorkerMessage
  <2>3. Head(msgQ).to \in Jid
    BY <2>2 DEF Message
  <2>4. pending' \in [Jid -> Seq(Message)]
    BY <1>2, <2>2, <2>3 DEF WorkerMessage, TypeOK
  <2> QED BY <1>2, <2>1, <2>4 DEF WorkerMessage, TypeOK, ConnOK, Bound
<1> QED BY <1>1, <1>2

LEMMA RestartType ==
  ASSUME TypeInv, Restart
  PROVE  TypeInv'
BY NoneIsNew DEF Restart, TypeInv, TypeOK, ConnOK, Bound

LEMMA StepType == TypeInv /\ [Next]_vars => TypeInv'
<1> SUFFICES ASSUME TypeInv, [Next]_vars PROVE TypeInv' OBVIOUS
<1>1. ASSUME NEW c \in Conns, NEW a \in Addrs, ConnectionMade(c, a) PROVE TypeInv'
  BY <1>1, ConnectionMadeType
<1>2. ASSUME NEW c \in Conns, StartTls(c) PROVE TypeInv'
  BY <1>2, StartTlsType
<1>3. ASSUME NEW c \in Conns, NEW u \in Users, Authenticate(c, u) PROVE TypeInv'
  BY <1>3, AuthenticateType
<1>4. ASSUME NEW c \in Conns, SendBind(c) \/ SendFault(c) PROVE TypeInv'
  <2>1. Bind \in Stanza /\ Fault \in Stanza
    BY DEF Stanza
  <2>2. sent' \subseteq Message /\ presences' \in Nat
    BY <1>4 DEF SendBind, SendFault, TypeInv, TypeOK
  <2> QED BY <1>4, <2>1, <2>2, SendType DEF SendBind, SendFault
<1>5. ASSUME NEW c \in Conns, NEW p \in PresenceEntry, SendPresence(c, p)
      PROVE  TypeInv'
  <2>1. [kind |-> "presence", entry |-> p] \in Stanza
    BY DEF Stanza, PresenceStanza
  <2>2. sent' \subseteq Message /\ presences' \in Nat
    BY <1>5 DEF SendPresence, TypeInv, TypeOK
  <2> QED BY <1>5, <2>1, <2>2, SendType DEF SendPresence
<1>6. ASSUME NEW c \in Conns, NEW m \in Message, SendMessage(c, m) PROVE TypeInv'
  <2>1. [kind |-> "message", msg |-> m] \in Stanza
    BY DEF Stanza, MessageStanza
  <2>2. sent' \subseteq Message /\ presences' \in Nat
    BY <1>6 DEF SendMessage, TypeInv, TypeOK
  <2> QED BY <1>6, <2>1, <2>2, SendType DEF SendMessage
<1>7. ASSUME NEW c \in Conns, EndStream(c) \/ CloseTransport(c) \/ ConnectionLost(c)
      PROVE  TypeInv'
  BY <1>7, ClosingType
<1>8. ASSUME NEW c \in Conns, Bridge(c) PROVE TypeInv'
  BY <1>8, BridgeType
<1>9. CASE UNCHANGED vars
  BY <1>9 DEF vars, clientVars, queueVars, historyVars, TypeInv, TypeOK, ConnOK, Bound
<1> QED
  BY <1>1, <1>2, <1>3, <1>4, <1>5, <1>6, <1>7, <1>8, <1>9, WorkerType, RestartType
     DEF Next, Environment

\* Every variable keeps its type, for any accounts, connections and bounds, with
\* or without the reuse of addresses (all of Delivery's code).
THEOREM TypeCorrect == Spec => []TypeOK
<1>1. TypeInv => TypeOK
  BY DEF TypeInv
<1> QED BY <1>1, InitType, StepType, PTL DEF Spec
-----------------------------------------------------------------------------
(* The inductive invariant for addresses that are used once: the entry of an *)
(* address belongs to the one connection that was accepted over it and shows *)
(* how far that connection has come; what was received fits its account.     *)

JidOf(c) == IF stage[c] \in {"connected", "secured"} THEN None
            ELSE IF stage[c] = "auth" THEN Bare(user[c]) ELSE Full(c)

AddrOK ==
  \A c, d \in Conns : addr[c] = addr[d] /\ addr[c] # None => c = d

EntryOf(a) ==
  Listed(a) => /\ addr[peerList[a].transport] = a
               /\ peerList[a].jid = JidOf(peerList[a].transport)
               /\ peerList[a].online <=> Available(peerList[a].transport)

EntryOK == \A a \in Addrs : EntryOf(a)

ReceivedOK == \A c \in Conns : received[c] # <<>> => Bound(c)

StoreOK == \A j \in Jid : \A i \in DOMAIN pending[j] : pending[j][i].to = j

ConnInv == TypeInv /\ AddrOK /\ EntryOK
DeliveryInv == ConnInv /\ ReceivedOK /\ StoreOK /\ RightRecipient

LEMMA EntryFacts ==
  ASSUME ConnInv, NEW a \in Addrs, Listed(a)
  PROVE  /\ peerList[a] \in Client
         /\ peerList[a].transport \in Conns
         /\ addr[peerList[a].transport] = a
BY DEF ConnInv, TypeInv, TypeOK, EntryOK, EntryOf, Listed, Client

\* An entry under the address of c is the entry of c.
LEMMA OwnEntry ==
  ASSUME ConnInv, NEW c \in Conns, addr[c] \in Addrs, Listed(addr[c])
  PROVE  peerList[addr[c]].transport = c
BY EntryFacts, NoneIsNew DEF ConnInv, AddrOK

LEMMA InitConn == Init => ConnInv
<1> SUFFICES ASSUME Init PROVE ConnInv OBVIOUS
<1> QED BY InitType DEF Init, ConnInv, AddrOK, EntryOK, EntryOf, Listed

\* A step that changes neither the entry of an address nor what it depends on.
LEMMA SameEntry ==
  ASSUME ConnInv, NEW b \in Addrs, peerList'[b] = peerList[b],
         NEW t, t = peerList[b].transport,
         addr'[t] = addr[t], stage'[t] = stage[t], user'[t] = user[t],
         presence'[t] = presence[t]
  PROVE  EntryOf(b)'
<1>1. EntryOf(b)
  BY DEF ConnInv, EntryOK
<1>2. JidOf(t)' = JidOf(t) /\ (Available(t)' <=> Available(t))
  BY DEF JidOf, Available, Full, Bare
<1> QED BY <1>1, <1>2 DEF EntryOf, Listed

\* A step of connection c leaves the entries of the other addresses alone.
LEMMA OtherEntry ==
  ASSUME ConnInv, NEW c \in Conns, NEW b \in Addrs, addr[c] # b,
         peerList'[b] = peerList[b],
         \A d \in Conns \ {c} : /\ addr'[d] = addr[d] /\ stage'[d] = stage[d]
                                /\ user'[d] = user[d] /\ presence'[d] = presence[d]
  PROVE  EntryOf(b)'
<1>1. CASE ~Listed(b)
  BY <1>1 DEF EntryOf, Listed
<1>2. CASE Listed(b)
  <2>1. peerList[b].transport \in Conns \ {c}
    BY <1>2, EntryFacts
  <2> QED BY <2>1, SameEntry
<1> QED BY <1>1, <1>2

LEMMA ConnectionMadeConn ==
  ASSUME AddrReuse = FALSE, ConnInv, NEW c \in Conns, NEW a \in Addrs,
         ConnectionMade(c, a)
  PROVE  AddrOK' /\ EntryOK'
<1>1. \A d \in Conns : addr[d] # a
  BY DEF ConnectionMade
<1>2. ~Listed(a)
  BY <1>1, EntryFacts
<1>3. /\ addr' = [addr EXCEPT ![c] = a]
      /\ peerList' = [peerList EXCEPT ![a] =
                        [jid |-> None, transport |-> c, online |-> FALSE]]
      /\ UNCHANGED <<stage, user, presence>>
  BY <1>2 DEF ConnectionMade
<1>4. stage[c] = "connected" /\ presence[c] = None /\ addr[c] = None
  BY DEF ConnectionMade, ConnInv, TypeInv, ConnOK, Bound
<1>5. addr \in [Conns -> Addrs \cup {None}] /\ DOMAIN peerList = Addrs
  BY DEF ConnInv, TypeInv, TypeOK
<1>6. AddrOK'
  BY <1>1, <1>3, <1>5 DEF ConnInv, AddrOK
<1>7. ASSUME NEW b \in Addrs PROVE EntryOf(b)'
  <2>1. CASE b = a
    BY <1>3, <1>4, <1>5, <2>1 DEF EntryOf, JidOf, Available
  <2>2. CASE b # a
    <3>1. addr[c] # b
      BY <1>4, NoneIsNew
    <3> QED BY <1>3, <1>5, <2>2, <3>1, OtherEntry
  <2> QED BY <2>1, <2>2
<1> QED BY <1>6, <1>7 DEF EntryOK

LEMMA NegotiationConn ==
  ASSUME ConnInv, NEW c \in Conns, NEW u, StartTls(c) \/ Authenticate(c, u)
  PROVE  AddrOK' /\ EntryOK'
<1>1. addr[c] \in Addrs /\ Listed(addr[c]) /\ UNCHANGED <<addr, presence>>
  BY DEF StartTls, Authenticate, ConnInv, TypeInv, ConnOK
<1>2. AddrOK'
  BY <1>1 DEF ConnInv, AddrOK
<1>3. /\ peerList[addr[c]].transport = c
      /\ peerList[addr[c]] \in Client
      /\ EntryOf(addr[c])
  BY <1>1, OwnEntry, EntryFacts DEF ConnInv, EntryOK
<1>4. /\ peerList \in [Addrs -> Client \cup {None}]
      /\ stage \in [Conns -> {"connected", "secured", "auth", "bound", "failed"}]
      /\ user \in [Conns -> Users \cup {None}]
      /\ presence[c] # None => Bound(c)
  BY DEF ConnInv, TypeInv, TypeOK, ConnOK
<1>5. ASSUME NEW b \in Addrs, b = addr[c] PROVE EntryOf(b)'
  <2>1. CASE StartTls(c)
    BY <1>1, <1>3, <1>4, <1>5, <2>1 DEF StartTls, EntryOf, JidOf, Available, Client, Listed
  <2>2. CASE Authenticate(c, u)
    BY <1>1, <1>3, <1>4, <1>5, <2>2
       DEF Authenticate, EntryOf, JidOf, Available, Client, Listed, Bare
  <2> QED BY <2>1, <2>2
<1>6. ASSUME NEW b \in Addrs, b # addr[c] PROVE EntryOf(b)'
  BY <1>1, <1>4, <1>6, OtherEntry DEF StartTls, Authenticate
<1> QED BY <1>2, <1>5, <1>6 DEF EntryOK

LEMMA CloseConn ==
  ASSUME ConnInv, NEW a \in Addrs, Close(a), UNCHANGED <<addr, stage, user, presence>>
  PROVE  AddrOK' /\ EntryOK'
<1>1. AddrOK'
  BY DEF ConnInv, AddrOK
<1>2. ASSUME NEW b \in Addrs PROVE EntryOf(b)'
  <2>1. CASE b = a
    BY <2>1 DEF Close, EntryOf, Listed, ConnInv, TypeInv, TypeOK
  <2>2. CASE b # a
    <3>1. peerList'[b] = peerList[b]
      BY <2>2 DEF Close, ConnInv, TypeInv, TypeOK
    <3> QED BY <3>1, SameEntry
  <2> QED BY <2>1, <2>2
<1> QED BY <1>1, <1>2 DEF EntryOK

LEMMA UnchangedConn ==
  ASSUME ConnInv, UNCHANGED <<addr, stage, user, presence, peerList>>
  PROVE  AddrOK' /\ EntryOK'
<1>1. AddrOK'
  BY DEF ConnInv, AddrOK
<1>2. ASSUME NEW b \in Addrs PROVE EntryOf(b)'
  BY SameEntry
<1> QED BY <1>1, <1>2 DEF EntryOK

LEMMA HandleBindConn ==
  ASSUME ConnInv, NEW c \in Conns, stage[c] = "auth", link[c] # "none",
         HandleBind(c), UNCHANGED <<addr, user>>
  PROVE  AddrOK' /\ EntryOK'
<1>1. CASE ~Listed(addr[c])
  BY <1>1, UnchangedConn DEF HandleBind
<1>2. CASE Listed(addr[c])
  <2>1. addr[c] \in Addrs /\ presence[c] = None /\ user[c] \in Users
    BY DEF ConnInv, TypeInv, ConnOK, Bound
  <2>2. /\ peerList[addr[c]].transport = c
        /\ peerList[addr[c]] \in Client
        /\ EntryOf(addr[c])
    BY <1>2, <2>1, OwnEntry, EntryFacts DEF ConnInv, EntryOK
  <2>3. /\ peerList \in [Addrs -> Client \cup {None}]
        /\ stage \in [Conns -> {"connected", "secured", "auth", "bound", "failed"}]
    BY DEF ConnInv, TypeInv, TypeOK
  <2>4. ASSUME NEW b \in Addrs, b = addr[c] PROVE EntryOf(b)'
    <3>1. peerList'[b] = [peerList[b] EXCEPT !.jid = Full(c), !.transport = c]
      BY <1>2, <2>3, <2>4 DEF HandleBind
    <3>2. /\ peerList'[b].jid = Full(c) /\ peerList'[b].transport = c
          /\ peerList'[b].online = peerList[b].online
      BY <2>2, <2>4, <3>1 DEF Client
    <3>3. ~Available(c) /\ ~Available(c)' /\ addr'[c] = b
      BY <1>2, <2>1, <2>4 DEF HandleBind, Available
    <3>4. ~peerList[b].online
      BY <1>2, <2>2, <2>4, <3>3 DEF EntryOf
    <3>5. JidOf(c)' = Full(c)
      BY <1>2, <2>3 DEF HandleBind, JidOf, Full
    <3> QED BY <3>2, <3>3, <3>4, <3>5 DEF EntryOf
  <2>5. ASSUME NEW b \in Addrs, b # addr[c] PROVE EntryOf(b)'
    BY <1>2, <2>3, <2>5, OtherEntry DEF HandleBind
  <2>6. AddrOK'
    BY DEF ConnInv, AddrOK
  <2> QED BY <2>4, <2>5, <2>6 DEF EntryOK
<1> QED BY <1>1, <1>2

\* Two connections never have the same full JID, and a full JID is neither None
\* nor bare.
LEMMA FullJidIsOwn ==
  ASSUME NEW c \in Conns, NEW t \in Conns, TypeInv, Bound(c), JidOf(t) = Full(c)
  PROVE  t = c
<1>1. user[c] \in Users /\ Full(c) \in Jid
  BY DEF TypeInv, ConnOK, Full, Jid, Bound
<1>2. CASE stage[t] \in {"connected", "secured"}
  BY <1>1, <1>2, NoneIsNew DEF JidOf, Jid
<1>3. CASE stage[t] = "auth"
  BY <1>3, NoneIsNew DEF JidOf, Bare, Full
<1>4. CASE stage[t] \in {"bound", "failed"}
  BY <1>4 DEF JidOf, Full
<1> QED BY <1>2, <1>3, <1>4 DEF TypeInv, TypeOK

LEMMA HandlePresenceConn ==
  ASSUME ConnInv, NEW c \in Conns, stage[c] = "bound", link[c] # "none",
         NEW p \in PresenceEntry, HandlePresence(c, p), UNCHANGED <<addr, user>>
  PROVE  AddrOK' /\ EntryOK'
<1>1. addr[c] \in Addrs /\ p # None
  BY NoneIsNew DEF ConnInv, TypeInv, ConnOK, PresenceEntry
<1>2. /\ peerList \in [Addrs -> Client \cup {None}]
      /\ presence \in [Conns -> PresenceEntry \cup {None}]
  BY DEF ConnInv, TypeInv, TypeOK
<1>3. ASSUME NEW b \in Addrs, b = addr[c] PROVE EntryOf(b)'
  <2>1. CASE ~Listed(b)
    BY <1>2, <2>1 DEF HandlePresence, SetOnline, EntryOf, Listed
  <2>2. CASE Listed(b)
    <3>1. /\ peerList[b].transport = c /\ peerList[b] \in Client
          /\ peerList[b].jid = JidOf(c) /\ EntryOf(b)
      BY <1>1, <1>3, <2>2, OwnEntry, EntryFacts DEF ConnInv, EntryOK, EntryOf
    <3>2. JidOf(c) = Full(c)
      BY DEF JidOf
    <3>3. peerList'[b] = [peerList[b] EXCEPT !.online = (p.type = "available")]
      BY <2>2, <3>1, <3>2 DEF HandlePresence, SetOnline
    <3>4. presence'[c] = p
      BY <1>2 DEF HandlePresence
    <3>5. /\ peerList'[b].jid = Full(c) /\ peerList'[b].transport = c
          /\ peerList'[b].online = (p.type = "available")
      BY <3>1, <3>2, <3>3 DEF Client
    <3>6. JidOf(c)' = Full(c) /\ addr'[c] = b
      BY <1>3 DEF HandlePresence, JidOf, Full
    <3>7. Available(c)' <=> p.type = "available"
      BY <1>1, <3>4 DEF Available
    <3> QED BY <3>5, <3>6, <3>7 DEF EntryOf
  <2> QED BY <2>1, <2>2
<1>4. ASSUME NEW b \in Addrs, b # addr[c] PROVE EntryOf(b)'
  <2>1. peerList'[b] = peerList[b]
    <3>1. CASE ~Listed(b)
      BY <3>1 DEF HandlePresence, SetOnline
    <3>2. CASE Listed(b)
      <4>1. /\ peerList[b].transport \in Conns
            /\ addr[peerList[b].transport] = b
            /\ peerList[b].jid = JidOf(peerList[b].transport)
        BY <3>2, EntryFacts DEF ConnInv, EntryOK, EntryOf
      <4>2. peerList[b].jid # Full(c)
        BY <1>4, <4>1, FullJidIsOwn DEF ConnInv, Bound
      <4> QED BY <4>2 DEF HandlePresence, SetOnline
    <3> QED BY <3>1, <3>2
  <2> QED BY <1>2, <1>4, <2>1, OtherEntry DEF HandlePresence
<1>5. AddrOK'
  BY DEF ConnInv, AddrOK
<1> QED BY <1>3, <1>4, <1>5 DEF EntryOK

LEMMA HandleFaultConn ==
  ASSUME ConnInv, NEW c \in Conns, stage[c] = "bound", HandleFault(c),
         UNCHANGED <<addr, user>>
  PROVE  AddrOK' /\ EntryOK'
<1>1. AddrOK'
  BY DEF ConnInv, AddrOK
<1>2. ASSUME NEW b \in Addrs PROVE EntryOf(b)'
  <2>1. CASE ~Listed(b)
    BY <2>1 DEF HandleFault, EntryOf, Listed
  <2>2. CASE Listed(b)
    <3> DEFINE t == peerList[b].transport
    <3>1. t \in Conns /\ EntryOf(b) /\ peerList' = peerList
      BY <2>2, EntryFacts DEF ConnInv, EntryOK, HandleFault
    <3>2. JidOf(t)' = JidOf(t)
      BY <3>1 DEF HandleFault, JidOf, Full, Bare, ConnInv, TypeInv, TypeOK
    <3>3. Available(t)' <=> Available(t)
      BY DEF HandleFault, Available
    <3> QED BY <3>1, <3>2, <3>3 DEF EntryOf, Listed
  <2> QED BY <2>1, <2>2
<1> QED BY <1>1, <1>2 DEF EntryOK

LEMMA BridgeConn ==
  ASSUME ConnInv, NEW c \in Conns, Bridge(c)
  PROVE  AddrOK' /\ EntryOK'
<1> DEFINE s == Head(inbox[c])
<1>1. /\ s \in Stanza /\ link[c] # "none" /\ addr[c] \in Addrs
      /\ UNCHANGED <<addr, user>>
  BY DEF Bridge, ConnInv, TypeInv, TypeOK, ConnOK
<1>2. CASE stage[c] = "auth" /\ s.kind = "bind" /\ HandleBind(c)
  BY <1>1, <1>2, HandleBindConn
<1>3. CASE stage[c] = "auth" /\ s.kind # "bind" /\ HandleUnbound(c)
  BY <1>1, <1>3, CloseConn DEF HandleUnbound
<1>4. CASE stage[c] = "bound" /\ s.kind = "presence" /\ HandlePresence(c, s.entry)
  <2>1. s.entry \in PresenceEntry
    BY <1>1, <1>4, StanzaKinds
  <2> QED BY <1>1, <1>4, <2>1, HandlePresenceConn
<1>5. CASE stage[c] = "bound" /\ s.kind = "message" /\ HandleMessage(s.msg)
  BY <1>1, <1>5, UnchangedConn DEF HandleMessage
<1>6. CASE stage[c] = "bound" /\ s.kind = "fault" /\ HandleFault(c)
  BY <1>1, <1>6, HandleFaultConn
<1> QED BY <1>2, <1>3, <1>4, <1>5, <1>6 DEF Bridge

LEMMA StepConn ==
  ASSUME AddrReuse = FALSE, ConnInv, [Next]_vars
  PROVE  ConnInv'
<1>1. ASSUME NEW c \in Conns, NEW a \in Addrs, ConnectionMade(c, a)
      PROVE  AddrOK' /\ EntryOK'
  BY <1>1, ConnectionMadeConn
<1>2. ASSUME NEW c \in Conns, StartTls(c) PROVE AddrOK' /\ EntryOK'
  BY <1>2, NegotiationConn
<1>3. ASSUME NEW c \in Conns, NEW u \in Users, Authenticate(c, u)
      PROVE  AddrOK' /\ EntryOK'
  BY <1>3, NegotiationConn
<1>4. ASSUME NEW c \in Conns, EndStream(c) PROVE AddrOK' /\ EntryOK'
  <2>1. addr[c] \in Addrs
    BY <1>4 DEF EndStream, ConnInv, TypeInv, ConnOK
  <2> QED BY <1>4, <2>1, CloseConn DEF EndStream
<1>5. ASSUME NEW c \in Conns, Bridge(c) PROVE AddrOK' /\ EntryOK'
  BY <1>5, BridgeConn
<1>6. ASSUME Restart PROVE AddrOK' /\ EntryOK'
  BY <1>6 DEF Restart, ConnInv, AddrOK, EntryOK, EntryOf, Listed
<1>7. ASSUME UNCHANGED <<addr, stage, user, presence, peerList>>
      PROVE  AddrOK' /\ EntryOK'
  BY <1>7, UnchangedConn
<1>8. ASSUME UNCHANGED vars \/ Worker PROVE AddrOK' /\ EntryOK'
  <2>1. UNCHANGED <<addr, stage, user, presence, peerList>>
    BY <1>8 DEF vars, clientVars, Worker, WorkerConnection, WorkerMessage
  <2> QED BY <1>7, <2>1
<1>9. ASSUME NEW c \in Conns,
             \/ SendBind(c) \/ SendFault(c) \/ CloseTransport(c) \/ ConnectionLost(c)
             \/ \E p \in PresenceEntry : SendPresence(c, p)
             \/ \E m \in Message : SendMessage(c, m)
      PROVE  AddrOK' /\ EntryOK'
  <2>1. UNCHANGED <<addr, stage, user, presence, peerList>>
    BY <1>9 DEF SendBind, SendFault, SendPresence, SendMessage, Send,
                CloseTransport, ConnectionLost, clientVars
  <2> QED BY <1>7, <2>1
<1>10. AddrOK' /\ EntryOK'
  BY <1>1, <1>2, <1>3, <1>4, <1>5, <1>6, <1>8, <1>9 DEF Next, Environment
<1>11. TypeInv'
  BY StepType DEF ConnInv
<1> QED BY <1>10, <1>11 DEF ConnInv

LEMMA ConnInvImpliesAgree == ConnInv => OnlineIffAvailable
<1> SUFFICES ASSUME ConnInv, NEW a \in Addrs, Listed(a)
    PROVE  peerList[a].online <=>
             \E c \in Conns : /\ stage[c] \in {"bound", "failed"}
                              /\ peerList[a].jid = Full(c) /\ Available(c)
  BY DEF OnlineIffAvailable
<1> DEFINE t == peerList[a].transport
<1>1. /\ t \in Conns /\ peerList[a].jid = JidOf(t)
      /\ peerList[a].online <=> Available(t)
      /\ Available(t) => Bound(t)
  BY EntryFacts DEF ConnInv, EntryOK, EntryOf, TypeInv, ConnOK, Available
<1>2. Bound(t) => JidOf(t) = Full(t)
  BY DEF Bound, JidOf
<1>3. ASSUME NEW c \in Conns, Bound(c), JidOf(t) = Full(c) PROVE c = t
  BY <1>1, <1>3, FullJidIsOwn DEF ConnInv
<1> QED BY <1>1, <1>2, <1>3 DEF Bound

\* The online flags of ConnectionManager and the entries of Presence agree in
\* every reachable state, for any number of accounts, connections, addresses and
\* messages, when the address of a dead connection does not come back.
THEOREM AvailabilityAgrees ==
  ASSUME AddrReuse = FALSE
  PROVE  Spec => []OnlineIffAvailable
<1>1. ConnInv /\ [Next]_vars => ConnInv'
  BY StepConn
<1> QED BY <1>1, InitConn, ConnInvImpliesAgree, PTL DEF Spec

-----------------------------------------------------------------------------
(* Messages *)

\* An online transport of the JID j is a bound, available connection of j.
LEMMA OnlineIsAddressee ==
  ASSUME ConnInv, NEW j, NEW t \in TransportsOnline(j)
  PROVE  /\ t \in Conns /\ Bound(t) /\ Available(t)
         /\ user[t] = j.user /\ j.res \in {None, t}
<1>1. PICK a \in Addrs : /\ Listed(a) /\ peerList[a].online
                         /\ peerList[a].jid.user = j.user
                         /\ j.res \in {None, peerList[a].jid.res}
                         /\ t = peerList[a].transport
  BY DEF TransportsOnline, OnlineAt
<1>2. t \in Conns /\ Available(t) /\ peerList[a].jid = JidOf(t)
  BY <1>1, EntryFacts DEF ConnInv, EntryOK, EntryOf
<1>3. Bound(t)
  BY <1>2 DEF ConnInv, TypeInv, ConnOK, Available
<1>4. JidOf(t) = Full(t)
  BY <1>3 DEF Bound, JidOf
<1> QED BY <1>1, <1>2, <1>3, <1>4 DEF Full

\* The transports handle_msg writes to are connections of the addressee.
LEMMA BuffersAreAddressees ==
  ASSUME ConnInv, NEW m \in Message, NEW t \in Buffers(m)
  PROVE  /\ t \in Conns /\ Bound(t) /\ Available(t)
         /\ user[t] = m.to.user /\ m.to.res \in {None, t}
<1>1. CASE m.to.res # None
  BY <1>1, OnlineIsAddressee DEF Buffers
<1>2. CASE m.to.res = None
  <2>1. PICK c \in Conns : t \in TransportsOnline([user |-> m.to.user, res |-> c])
    BY <1>2 DEF Buffers, MostPriority, Resources
  <2> QED BY <1>2, <2>1, OnlineIsAddressee
<1> QED BY <1>1, <1>2

\* A write to connections of the addressee of each message written.
LEMMA WriteRight ==
  ASSUME DeliveryInv, NEW bufs, NEW ms \in Seq(Message), Write(bufs, ms),
         UNCHANGED <<user, stage>>,
         \A t \in bufs : /\ Bound(t)
                         /\ \A i \in DOMAIN ms : /\ ms[i].to.user = user[t]
                                                 /\ ms[i].to.res \in {None, t}
  PROVE  ReceivedOK' /\ RightRecipient'
<1> SUFFICES ASSUME NEW c \in Conns
    PROVE  /\ received'[c] # <<>> => Bound(c)'
           /\ \A i \in DOMAIN received'[c] :
                /\ received'[c][i].to.user = user'[c]
                /\ received'[c][i].to.res \in {None, c}
  BY DEF ReceivedOK, RightRecipient
<1>1. /\ received[c] # <<>> => Bound(c)
      /\ \A i \in DOMAIN received[c] : /\ received[c][i].to.user = user[c]
                                      /\ received[c][i].to.res \in {None, c}
      /\ Bound(c)' <=> Bound(c)
  BY DEF DeliveryInv, ReceivedOK, RightRecipient, Bound
<1>2. CASE received'[c] = received[c]
  BY <1>1, <1>2
<1>3. CASE received'[c] = received[c] \o ms /\ c \in bufs
  <2>1. received[c] \in Seq(Message)
    BY DEF DeliveryInv, ConnInv, TypeInv, TypeOK
  <2>2. ASSUME NEW i \in DOMAIN received'[c]
        PROVE  /\ received'[c][i].to.user = user[c]
               /\ received'[c][i].to.res \in {None, c}
    <3>1. CASE i \in DOMAIN received[c]
      BY <1>1, <1>3, <2>1, <3>1
    <3>2. CASE i \notin DOMAIN received[c]
      <4>1. /\ i - Len(received[c]) \in DOMAIN ms
            /\ received'[c][i] = ms[i - Len(received[c])]
        BY <1>3, <2>1, <2>2, <3>2
      <4> QED BY <1>3, <4>1
    <3> QED BY <3>1, <3>2
  <2> QED BY <1>1, <1>3, <2>2
<1> QED BY <1>2, <1>3 DEF Write

LEMMA ReceivedSame ==
  ASSUME DeliveryInv, received' = received,
         \A c \in Conns : Bound(c) => Bound(c)' /\ user'[c] = user[c]
  PROVE  ReceivedOK' /\ RightRecipient'
<1>1. ReceivedOK'
  BY DEF DeliveryInv, ReceivedOK
<1>2. RightRecipient'
  <2> SUFFICES ASSUME NEW c \in Conns, NEW i \in DOMAIN received[c]
      PROVE  /\ received[c][i].to.user = user'[c]
             /\ received[c][i].to.res \in {None, c}
    BY DEF RightRecipient
  <2>1. received[c] # <<>>
    OBVIOUS
  <2> QED BY <2>1 DEF DeliveryInv, ReceivedOK, RightRecipient
<1> QED BY <1>1, <1>2

LEMMA ReverseElements ==
  ASSUME NEW S, NEW s \in Seq(S)
  PROVE  \A i \in DOMAIN Reverse(s) : \E k \in DOMAIN s : Reverse(s)[i] = s[k]
<1> TAKE i \in DOMAIN Reverse(s)
<1>1. i \in 1..Len(s) /\ Reverse(s)[i] = s[(Len(s) - i) + 1]
  BY DEF Reverse
<1>2. (Len(s) - i) + 1 \in DOMAIN s
  BY <1>1
<1> QED BY <1>1, <1>2

LEMMA InitDelivery == Init => DeliveryInv
<1> SUFFICES ASSUME Init PROVE DeliveryInv OBVIOUS
<1> QED BY InitConn DEF Init, DeliveryInv, ReceivedOK, StoreOK, RightRecipient

\* A step that writes nothing and stores nothing.
LEMMA QuietStep ==
  ASSUME DeliveryInv, UNCHANGED <<received, pending>>,
         \A c \in Conns : Bound(c) => Bound(c)' /\ user'[c] = user[c]
  PROVE  ReceivedOK' /\ StoreOK' /\ RightRecipient'
BY ReceivedSame DEF DeliveryInv, StoreOK

LEMMA HandleMessageRight ==
  ASSUME DeliveryInv, NEW m \in Message, HandleMessage(m), UNCHANGED user
  PROVE  ReceivedOK' /\ RightRecipient'
<1>1. CASE ToBeStored(m)
  <2>1. \A c \in Conns : Bound(c) => Bound(c)' /\ user'[c] = user[c]
    BY DEF HandleMessage, Bound
  <2> QED BY <1>1, <2>1, ReceivedSame DEF HandleMessage
<1>2. CASE ~ToBeStored(m)
  <2>1. <<m>> \in Seq(Message) /\ UNCHANGED <<user, stage>>
    BY DEF HandleMessage
  <2>2. Write(Buffers(m), <<m>>)
    BY <1>2 DEF HandleMessage
  <2>3. ASSUME NEW t \in Buffers(m)
        PROVE  /\ Bound(t)
               /\ \A i \in DOMAIN <<m>> : /\ <<m>>[i].to.user = user[t]
                                          /\ <<m>>[i].to.res \in {None, t}
    <3>1. Bound(t) /\ user[t] = m.to.user /\ m.to.res \in {None, t}
      BY <2>3, BuffersAreAddressees DEF DeliveryInv
    <3> QED BY <3>1
  <2> QED BY <2>1, <2>2, <2>3, WriteRight
<1> QED BY <1>1, <1>2

LEMMA BridgeRight ==
  ASSUME DeliveryInv, NEW c \in Conns, Bridge(c)
  PROVE  ReceivedOK' /\ StoreOK' /\ RightRecipient'
<1> DEFINE s == Head(inbox[c])
<1>1. s \in Stanza /\ UNCHANGED <<user, pending>>
  BY DEF Bridge, DeliveryInv, ConnInv, TypeInv, TypeOK
<1>2. CASE stage[c] = "bound" /\ s.kind = "message" /\ HandleMessage(s.msg)
  <2>1. s.msg \in Message
    BY <1>1, <1>2, StanzaKinds
  <2> QED BY <1>1, <1>2, <2>1, HandleMessageRight DEF DeliveryInv, StoreOK
<1>3. CASE \/ stage[c] = "auth" /\ (HandleBind(c) \/ HandleUnbound(c))
           \/ stage[c] = "bound" /\ (HandlePresence(c, s.entry) \/ HandleFault(c))
  <2>1. received' = received
    BY <1>3 DEF HandleBind, HandleUnbound, HandlePresence, HandleFault
  <2>2. stage \in [Conns -> {"connected", "secured", "auth", "bound", "failed"}]
    BY DEF DeliveryInv, ConnInv, TypeInv, TypeOK
  <2>3. ASSUME NEW d \in Conns, Bound(d) PROVE Bound(d)'
    BY <1>3, <2>2, <2>3 DEF HandleBind, HandleUnbound, HandlePresence, HandleFault, Bound
  <2> QED BY <1>1, <2>1, <2>3, QuietStep
<1> QED BY <1>2, <1>3 DEF Bridge

LEMMA FlushRight ==
  ASSUME DeliveryInv, NEW k \in Jid, Flush(k), UNCHANGED <<user, stage>>
  PROVE  ReceivedOK' /\ StoreOK' /\ RightRecipient'
<1> DEFINE ms == Reverse(pending[k])
<1>1. pending[k] \in Seq(Message) /\ ms \in Seq(Message)
  BY ReverseType DEF DeliveryInv, ConnInv, TypeInv, TypeOK
<1>2. \A i \in DOMAIN ms : ms[i].to = k
  BY <1>1, ReverseElements DEF DeliveryInv, StoreOK
<1>3. ASSUME NEW t \in TransportsOnline(k)
      PROVE  Bound(t) /\ user[t] = k.user /\ k.res \in {None, t}
  BY <1>3, OnlineIsAddressee DEF DeliveryInv
<1>4. Write(TransportsOnline(k), ms)
  BY DEF Flush
<1> HIDE DEF ms
<1>5. ReceivedOK' /\ RightRecipient'
  BY <1>1, <1>2, <1>3, <1>4, WriteRight
<1>6. StoreOK'
  <2>1. pending' = [pending EXCEPT ![k] = <<>>]
    BY DEF Flush
  <2> QED BY <2>1 DEF DeliveryInv, StoreOK, ConnInv, TypeInv, TypeOK
<1> QED BY <1>5, <1>6

LEMMA WorkerRight ==
  ASSUME DeliveryInv, Worker
  PROVE  ReceivedOK' /\ StoreOK' /\ RightRecipient'
<1> PICK taken \in BOOLEAN : WorkerConnection(taken) \/ WorkerMessage(taken)
  BY DEF Worker
<1>0. /\ conQ \in Seq(BoundJid) /\ msgQ \in Seq(Message)
      /\ pending \in [Jid -> Seq(Message)]
  BY DEF DeliveryInv, ConnInv, TypeInv, TypeOK
<1>1. CASE WorkerConnection(taken)
  <2>1. TargetKey(Head(conQ)) \in Jid
    BY <1>0, <1>1, SeqTypes, TargetKeyType DEF WorkerConnection
  <2> QED BY <1>1, <2>1, FlushRight DEF WorkerConnection, clientVars
<1>2. CASE WorkerMessage(taken)
  <2> DEFINE m == Head(msgQ)
  <2>0. m \in Message
    BY <1>0, <1>2, SeqTypes DEF WorkerMessage
  <2>1. m \in Message /\ m.to \in Jid
    BY <2>0 DEF Message
  <2>2. pending' = [pending EXCEPT ![m.to] = Append(@, m)]
    BY <1>2 DEF WorkerMessage
  <2>3. StoreOK'
    <3> HIDE DEF m
    <3> SUFFICES ASSUME NEW j \in Jid, NEW i \in DOMAIN pending'[j]
        PROVE  pending'[j][i].to = j
      BY DEF StoreOK
    <3>1. pending[j] \in Seq(Message)
      BY <1>0
    <3>2. CASE i \in DOMAIN pending[j]
      <4>1. pending'[j][i] = pending[j][i]
        BY <1>0, <2>1, <2>2, <3>1, <3>2
      <4> QED BY <3>2, <4>1 DEF DeliveryInv, StoreOK
    <3>3. CASE i \notin DOMAIN pending[j]
      <4>1. j = m.to /\ pending'[j] = Append(pending[j], m)
        BY <1>0, <2>1, <2>2, <3>3
      <4>2. pending'[j][i] = m
        BY <2>1, <3>1, <3>3, <4>1
      <4> QED BY <4>1, <4>2
    <3> QED BY <3>2, <3>3
  <2>4. received' = received /\ UNCHANGED <<stage, user>>
    BY <1>2 DEF WorkerMessage, clientVars
  <2> QED BY <2>3, <2>4, ReceivedSame DEF Bound
<1> QED BY <1>1, <1>2

LEMMA StepDelivery ==
  ASSUME AddrReuse = FALSE, DeliveryInv, [Next]_vars
  PROVE  DeliveryInv'
<1> DEFINE Goal == ReceivedOK' /\ StoreOK' /\ RightRecipient'
<1>0. /\ stage \in [Conns -> {"connected", "secured", "auth", "bound", "failed"}]
      /\ user \in [Conns -> Users \cup {None}]
  BY DEF DeliveryInv, ConnInv, TypeInv, TypeOK
<1>1. ASSUME NEW c \in Conns, StartTls(c) \/ (\E u \in Users : Authenticate(c, u))
      PROVE  Goal
  <2>1. ASSUME NEW d \in Conns, Bound(d) PROVE Bound(d)' /\ user'[d] = user[d]
    BY <1>0, <1>1, <2>1 DEF StartTls, Authenticate, Bound
  <2>2. UNCHANGED <<received, pending>>
    BY <1>1 DEF StartTls, Authenticate, queueVars
  <2> QED BY <2>1, <2>2, QuietStep
<1>2. ASSUME UNCHANGED <<received, pending, stage, user>> PROVE Goal
  BY <1>2, QuietStep DEF Bound
<1>3. ASSUME NEW c \in Conns,
             \/ \E a \in Addrs : ConnectionMade(c, a)
             \/ SendBind(c) \/ SendFault(c)
             \/ \E p \in PresenceEntry : SendPresence(c, p)
             \/ \E m \in Message : SendMessage(c, m)
             \/ EndStream(c) \/ CloseTransport(c) \/ ConnectionLost(c)
      PROVE  Goal
  <2>1. UNCHANGED <<received, pending, stage, user>>
    BY <1>3 DEF ConnectionMade, SendBind, SendFault, SendPresence, SendMessage, Send,
                EndStream, CloseTransport, ConnectionLost, clientVars, queueVars
  <2> QED BY <1>2, <2>1
<1>4. ASSUME Restart PROVE Goal
  <2>1. StoreOK'
    BY <1>4 DEF Restart, StoreOK
  <2>2. received' = received /\ UNCHANGED <<stage, user>>
    BY <1>4 DEF Restart
  <2> QED BY <2>1, <2>2, ReceivedSame DEF Bound
<1>5. ASSUME UNCHANGED vars PROVE Goal
  BY <1>2, <1>5 DEF vars, clientVars, queueVars
<1>6. Goal
  BY <1>1, <1>3, <1>4, <1>5, BridgeRight, WorkerRight DEF Next, Environment
<1>7. ConnInv'
  BY StepConn DEF DeliveryInv
<1> QED BY <1>6, <1>7 DEF DeliveryInv

\* Whatever is queued, stored, lost or reconnected, a message is only ever
\* written to connections of the account it was addressed to, and, sent to a
\* full JID, to no other resource (handle_msg, queue_worker), for all values of
\* the constants without address reuse.
THEOREM OnlyAddresseesReceive ==
  ASSUME AddrReuse = FALSE
  PROVE  Spec => []RightRecipient
<1>1. DeliveryInv /\ [Next]_vars => DeliveryInv'
  BY StepDelivery
<1>2. DeliveryInv => RightRecipient
  BY DEF DeliveryInv
<1> QED BY <1>1, <1>2, InitDelivery, PTL DEF Spec


\* A write to online transports only reaches available connections whose
\* sockets are up.
LEMMA WriteAvailable ==
  ASSUME NEW bufs, NEW ms, Write(bufs, ms),
         \A t \in bufs : Bound(t) /\ Available(t)
  PROVE  \A c \in Conns : received'[c] # received[c] =>
           link[c] = "open" /\ Bound(c) /\ Available(c)
BY DEF Write

LEMMA StepReceivesAvailable ==
  ASSUME ConnInv, [Next]_vars
  PROVE  \A c \in Conns : received'[c] # received[c] =>
           link[c] = "open" /\ Bound(c) /\ Available(c)
<1> DEFINE Goal == \A c \in Conns : received'[c] # received[c] =>
                     link[c] = "open" /\ Bound(c) /\ Available(c)
<1>0. received' = received => Goal
  OBVIOUS
<1>1. ASSUME NEW m \in Message, HandleMessage(m) PROVE Goal
  <2>1. CASE ToBeStored(m)
    BY <1>0, <1>1, <2>1 DEF HandleMessage
  <2>2. CASE ~ToBeStored(m)
    BY <1>1, <2>2, BuffersAreAddressees, WriteAvailable DEF HandleMessage
  <2> QED BY <2>1, <2>2
<1>2. ASSUME NEW c \in Conns, Bridge(c) PROVE Goal
  <2>1. Head(inbox[c]) \in Stanza
    BY <1>2 DEF Bridge, ConnInv, TypeInv, TypeOK
  <2>2. \/ received' = received
        \/ /\ Head(inbox[c]).kind = "message"
           /\ HandleMessage(Head(inbox[c]).msg)
    BY <1>2 DEF Bridge, HandleBind, HandleUnbound, HandlePresence, HandleFault
  <2> QED BY <1>0, <1>1, <2>1, <2>2, StanzaKinds
<1>3. ASSUME Worker PROVE Goal
  <2>1. CASE \E taken \in BOOLEAN : WorkerConnection(taken)
    <3>1. Write(TransportsOnline(TargetKey(Head(conQ))),
                Reverse(pending[TargetKey(Head(conQ))]))
      BY <2>1 DEF WorkerConnection, Flush
    <3> QED BY <3>1, OnlineIsAddressee, WriteAvailable
  <2>2. CASE \E taken \in BOOLEAN : WorkerMessage(taken)
    BY <1>0, <2>2 DEF WorkerMessage
  <2> QED BY <1>3, <2>1, <2>2 DEF Worker
<1>4. ASSUME NEW c \in Conns,
             \/ \E a \in Addrs : ConnectionMade(c, a)
             \/ StartTls(c) \/ (\E u \in Users : Authenticate(c, u))
             \/ SendBind(c) \/ SendFault(c)
             \/ \E p \in PresenceEntry : SendPresence(c, p)
             \/ \E m \in Message : SendMessage(c, m)
             \/ EndStream(c) \/ CloseTransport(c) \/ ConnectionLost(c)
      PROVE  received' = received
  BY <1>4 DEF ConnectionMade, StartTls, Authenticate, SendBind, SendFault,
              SendPresence, SendMessage, Send, EndStream, CloseTransport,
              ConnectionLost
<1>5. Restart \/ UNCHANGED vars => received' = received
  BY DEF Restart, vars
<1> HIDE DEF Goal
<1>6. Goal
  BY <1>0, <1>2, <1>3, <1>4, <1>5 DEF Next, Environment
<1> QED BY <1>6 DEF Goal

\* No step writes a message to a connection that is still negotiating, or that
\* said it is unavailable, or whose socket is closing (handle_msg and the flush
\* of queue_worker), for all values of the constants without address reuse.
THEOREM OnlyAvailableConnectionsReceive ==
  ASSUME AddrReuse = FALSE
  PROVE  Spec => OnlyAvailableReceive
<1>1. ConnInv /\ [Next]_vars => ConnInv'
  BY StepConn
<1>2. ConnInv /\ [Next]_vars =>
        [\A c \in Conns : received'[c] # received[c] =>
           link[c] = "open" /\ stage[c] \in {"bound", "failed"} /\ Available(c)]_vars
  BY StepReceivesAvailable DEF Bound
<1> QED BY <1>1, <1>2, InitConn, PTL DEF Spec, OnlyAvailableReceive

-----------------------------------------------------------------------------
(* With reused addresses the entries no longer agree with the connections, but *)
(* the online flag still never falls behind the presence.                      *)

OnlineInv == TypeInv /\ AvailableIsOnline

\* A step that keeps the presences and the bound connections, and sets no entry
\* to the full JID of an available one.
LEMMA QuietOnline ==
  ASSUME OnlineInv, UNCHANGED <<user, presence>>,
         \A c \in Conns : Available(c) /\ Bound(c)' => Bound(c),
         \A c \in Conns, a \in Addrs :
           \/ peerList'[a] = None
           \/ Listed(a) /\ peerList'[a].jid = peerList[a].jid
                        /\ peerList'[a].online = peerList[a].online
           \/ Available(c) => peerList'[a].jid # Full(c)
  PROVE  AvailableIsOnline'
<1> SUFFICES ASSUME NEW c \in Conns, NEW a \in Addrs, Available(c), Bound(c)',
                    peerList'[a] # None, peerList'[a].jid = Full(c)
             PROVE  peerList'[a].online
  BY DEF AvailableIsOnline, Available, Bound, Full, Listed
<1> QED BY DEF OnlineInv, AvailableIsOnline, Bound, Listed

LEMMA FullIsFull ==
  ASSUME TypeInv, NEW c \in Conns, Available(c)
  PROVE  Full(c) # None /\ \A u \in Users : Full(c) # Bare(u)
BY NoneIsNew DEF TypeInv, ConnOK, Available, Bound, Full, Bare

LEMMA HandleBindOnline ==
  ASSUME OnlineInv, NEW c \in Conns, stage[c] = "auth", link[c] # "none",
         HandleBind(c), UNCHANGED <<addr, user>>
  PROVE  AvailableIsOnline'
<1>0. /\ stage \in [Conns -> {"connected", "secured", "auth", "bound", "failed"}]
      /\ peerList \in [Addrs -> Client \cup {None}]
      /\ addr[c] \in Addrs /\ ~Available(c)
  BY DEF OnlineInv, TypeInv, TypeOK, ConnOK, Available, Bound
<1>1. UNCHANGED <<user, presence>>
  BY DEF HandleBind
<1>2. \A d \in Conns : Available(d) /\ Bound(d)' => Bound(d)
  BY <1>0 DEF HandleBind, Bound
<1>3. ASSUME NEW d \in Conns, NEW a \in Addrs, Available(d)
      PROVE  \/ peerList'[a] = peerList[a]
             \/ peerList'[a].jid # Full(d)
  <2>1. CASE Listed(addr[c]) /\ a = addr[c]
    <3>1. peerList[a] \in Client /\ c # d
      BY <1>0, <1>3, <2>1 DEF Listed
    <3>2. peerList'[a] = [peerList[a] EXCEPT !.jid = Full(c), !.transport = c]
      BY <1>0, <2>1 DEF HandleBind
    <3>3. peerList'[a].jid = Full(c)
      BY <3>1, <3>2 DEF Client
    <3> QED BY <3>1, <3>3 DEF Full
  <2>2. CASE ~Listed(addr[c]) \/ a # addr[c]
    BY <1>0, <2>2 DEF HandleBind
  <2> QED BY <2>1, <2>2
<1> QED BY <1>1, <1>2, <1>3, QuietOnline DEF Listed

LEMMA HandlePresenceOnline ==
  ASSUME OnlineInv, NEW c \in Conns, stage[c] = "bound",
         NEW p \in PresenceEntry, HandlePresence(c, p), UNCHANGED user
  PROVE  AvailableIsOnline'
<1>0. /\ peerList \in [Addrs -> Client \cup {None}]
      /\ presence \in [Conns -> PresenceEntry \cup {None}]
      /\ UNCHANGED <<user, stage>>
  BY DEF OnlineInv, TypeInv, TypeOK, HandlePresence
<1> SUFFICES ASSUME NEW d \in Conns, NEW a \in Addrs, Available(d)', Bound(d),
                    peerList'[a] # None, peerList'[a].jid = Full(d)
             PROVE  peerList'[a].online
  BY <1>0 DEF AvailableIsOnline, Bound, Full, Listed
<1>1. /\ Listed(a) /\ peerList[a] \in Client /\ peerList[a].jid = Full(d)
      /\ peerList'[a].online = IF d = c THEN p.type = "available" ELSE peerList[a].online
  <2>1. CASE Listed(a) /\ peerList[a].jid = Full(c)
    <3>1. peerList[a] \in Client
      BY <1>0, <2>1 DEF Listed
    <3>2. peerList'[a] = [peerList[a] EXCEPT !.online = (p.type = "available")]
      BY <2>1 DEF HandlePresence, SetOnline
    <3>3. /\ peerList'[a].jid = peerList[a].jid
          /\ peerList'[a].online = (p.type = "available")
      BY <3>1, <3>2 DEF Client
    <3>4. c = d
      BY <2>1, <3>3 DEF Full
    <3> QED BY <2>1, <3>1, <3>3, <3>4
  <2>2. CASE ~(Listed(a) /\ peerList[a].jid = Full(c))
    <3>1. peerList'[a] = peerList[a]
      BY <2>2 DEF HandlePresence, SetOnline
    <3> QED BY <1>0, <2>2, <3>1 DEF Listed
  <2> QED BY <2>1, <2>2
<1>2. CASE d = c
  <2>1. presence'[c] = p
    BY <1>0 DEF HandlePresence
  <2> QED BY <1>1, <1>2, <2>1 DEF Available
<1>3. CASE d # c
  <2>1. Available(d)
    BY <1>0, <1>3 DEF HandlePresence, Available
  <2> QED BY <1>1, <1>3, <2>1 DEF OnlineInv, AvailableIsOnline, Bound
<1> QED BY <1>2, <1>3

LEMMA CloseOnline ==
  ASSUME OnlineInv, NEW a \in Addrs, Close(a), UNCHANGED <<user, presence, stage>>
  PROVE  AvailableIsOnline'
<1>1. \A b \in Addrs : peerList'[b] = None \/ peerList'[b] = peerList[b]
  BY DEF Close, OnlineInv, TypeInv, TypeOK
<1> QED BY <1>1, QuietOnline DEF Listed, Bound

LEMMA BridgeOnline ==
  ASSUME OnlineInv, NEW c \in Conns, Bridge(c)
  PROVE  AvailableIsOnline'
<1> DEFINE s == Head(inbox[c])
<1>1. /\ s \in Stanza /\ link[c] # "none" /\ addr[c] \in Addrs
      /\ UNCHANGED <<addr, user>>
  BY DEF Bridge, OnlineInv, TypeInv, TypeOK, ConnOK
<1>2. CASE stage[c] = "auth" /\ HandleBind(c)
  BY <1>1, <1>2, HandleBindOnline
<1>3. CASE HandleUnbound(c)
  BY <1>1, <1>3, CloseOnline DEF HandleUnbound
<1>4. CASE stage[c] = "bound" /\ s.kind = "presence" /\ HandlePresence(c, s.entry)
  BY <1>1, <1>4, StanzaKinds, HandlePresenceOnline
<1>5. CASE HandleMessage(s.msg)
  BY <1>1, <1>5, QuietOnline DEF HandleMessage, Listed, Bound
<1>6. CASE stage[c] = "bound" /\ HandleFault(c)
  <2>1. \A d \in Conns : Bound(d)' => Bound(d)
    BY <1>6 DEF HandleFault, Bound, OnlineInv, TypeInv, TypeOK
  <2> QED BY <1>1, <1>6, <2>1, QuietOnline DEF HandleFault, Listed
<1> QED BY <1>2, <1>3, <1>4, <1>5, <1>6 DEF Bridge

LEMMA NegotiationOnline ==
  ASSUME OnlineInv, NEW c \in Conns,
         \/ \E a \in Addrs : ConnectionMade(c, a)
         \/ StartTls(c)
         \/ \E u \in Users : Authenticate(c, u)
  PROVE  AvailableIsOnline'
<1>0. /\ peerList \in [Addrs -> Client \cup {None}]
      /\ stage \in [Conns -> {"connected", "secured", "auth", "bound", "failed"}]
      /\ user \in [Conns -> Users \cup {None}]
  BY DEF OnlineInv, TypeInv, TypeOK
<1>1. CASE \E a \in Addrs : ConnectionMade(c, a)
  <2>1. ASSUME NEW d \in Conns, NEW b \in Addrs, Available(d)
        PROVE  \/ peerList'[b] = peerList[b] /\ Listed(b)
               \/ peerList'[b] = None
               \/ peerList'[b].jid # Full(d)
    <3>1. \/ peerList'[b] = peerList[b]
          \/ peerList'[b] = [jid |-> None, transport |-> c, online |-> FALSE]
      BY <1>0, <1>1 DEF ConnectionMade
    <3> QED BY <2>1, <3>1, FullIsFull DEF OnlineInv, Listed
  <2> QED BY <1>1, <2>1, QuietOnline DEF ConnectionMade, Bound
<1>2. CASE StartTls(c)
  <2>1. ASSUME NEW b \in Addrs
        PROVE  \/ peerList'[b] = None
               \/ Listed(b) /\ peerList'[b].jid = peerList[b].jid
                            /\ peerList'[b].online = peerList[b].online
    BY <1>0, <1>2 DEF StartTls, Listed, Client
  <2>2. \A d \in Conns : Bound(d)' => Bound(d)
    BY <1>0, <1>2 DEF StartTls, Bound
  <2> QED BY <1>2, <2>1, <2>2, QuietOnline DEF StartTls
<1>3. CASE \E u \in Users : Authenticate(c, u)
  <2> PICK u \in Users : Authenticate(c, u)
    BY <1>3
  <2>0. ~Available(c)
    BY DEF Authenticate, OnlineInv, TypeInv, ConnOK, Available, Bound
  <2>1. ASSUME NEW d \in Conns, NEW b \in Addrs, Available(d), peerList'[b] # None
        PROVE  \/ Listed(b) /\ peerList'[b] = peerList[b]
               \/ peerList'[b].jid # Full(d)
    <3>1. CASE b = addr[c]
      <4>1. peerList[b] \in Client
        BY <1>0, <3>1 DEF Authenticate, Listed
      <4>2. peerList'[b].jid = Bare(u)
        BY <1>0, <3>1, <4>1 DEF Authenticate, Client
      <4> QED BY <2>1, <4>2, FullIsFull DEF OnlineInv
    <3>2. CASE b # addr[c]
      BY <1>0, <2>1, <3>2 DEF Authenticate, Listed
    <3> QED BY <3>1, <3>2
  <2>2. ASSUME NEW d \in Conns, NEW b \in Addrs, Available(d)', Bound(d)',
               peerList'[b] # None, peerList'[b].jid = Full(d)'
        PROVE  peerList'[b].online
    <3>1. /\ Available(d) /\ d # c /\ Bound(d) /\ user'[d] = user[d]
      BY <1>0, <2>0, <2>2 DEF Authenticate, Available, Bound
    <3>2. Full(d)' = Full(d)
      BY <3>1 DEF Full
    <3> QED BY <2>1, <2>2, <3>1, <3>2 DEF OnlineInv, AvailableIsOnline, Bound
  <2> QED BY <2>2 DEF AvailableIsOnline, Bound, Listed
<1> QED BY <1>1, <1>2, <1>3

LEMMA StepOnline == OnlineInv /\ [Next]_vars => OnlineInv'
<1> SUFFICES ASSUME OnlineInv, [Next]_vars PROVE OnlineInv' OBVIOUS
<1>1. ASSUME NEW c \in Conns,
             \/ \E a \in Addrs : ConnectionMade(c, a)
             \/ StartTls(c)
             \/ \E u \in Users : Authenticate(c, u)
      PROVE  AvailableIsOnline'
  BY <1>1, NegotiationOnline
<1>2. ASSUME UNCHANGED <<user, presence, stage, peerList>> PROVE AvailableIsOnline'
  BY <1>2, QuietOnline DEF Bound, Listed
<1>3. ASSUME NEW c \in Conns, EndStream(c) PROVE AvailableIsOnline'
  <2>1. addr[c] \in Addrs
    BY <1>3 DEF EndStream, OnlineInv, TypeInv, ConnOK
  <2> QED BY <1>3, <2>1, CloseOnline DEF EndStream
<1>4. ASSUME NEW c \in Conns,
             \/ SendBind(c) \/ SendFault(c) \/ CloseTransport(c) \/ ConnectionLost(c)
             \/ \E p \in PresenceEntry : SendPresence(c, p)
             \/ \E m \in Message : SendMessage(c, m)
      PROVE  AvailableIsOnline'
  <2>1. UNCHANGED <<user, presence, stage, peerList>>
    BY <1>4 DEF SendBind, SendFault, SendPresence, SendMessage, Send,
                CloseTransport, ConnectionLost, clientVars
  <2> QED BY <1>2, <2>1
<1>5. ASSUME Worker \/ UNCHANGED vars PROVE AvailableIsOnline'
  <2>1. UNCHANGED <<user, presence, stage, peerList>>
    BY <1>5 DEF Worker, WorkerConnection, WorkerMessage, vars, clientVars
  <2> QED BY <1>2, <2>1
<1>6. ASSUME Restart PROVE AvailableIsOnline'
  BY <1>6 DEF Restart, AvailableIsOnline, Available
<1>7. ASSUME NEW c \in Conns, Bridge(c) PROVE AvailableIsOnline'
  BY <1>7, BridgeOnline
<1>8. AvailableIsOnline'
  BY <1>1, <1>3, <1>4, <1>5, <1>6, <1>7 DEF Next, Environment
<1> QED BY <1>8, StepType DEF OnlineInv

\* An entry that carries the full JID of an available connection is online, in
\* every reachable state and for all values of the constants, even when a
\* connection inherits the entry of a dead one (online, set_jid, connection).
THEOREM AvailableStaysOnline == Spec => []AvailableIsOnline
<1>1. Init => OnlineInv
  BY InitType DEF Init, OnlineInv, AvailableIsOnline, Listed
<1>2. OnlineInv => AvailableIsOnline
  BY DEF OnlineInv
<1> QED BY <1>1, <1>2, StepOnline, PTL DEF Spec

=============================================================================
