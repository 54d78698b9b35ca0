------------------------ MODULE RemoteDeliveryProofs -------------------------
(***************************************************************************)
(* Proofs about RemoteDelivery: its types, that the worker finds a         *)
(* transport for every host announced to it, and, for hosts on addresses   *)
(* of their own, that no host is connected twice, that stanzas reach the   *)
(* host they are for, that a host with kept stanzas is being taken care    *)
(* of, and, whatever the addresses, that a message is in one place.        *)
(***************************************************************************)
EXTENDS RemoteDelivery, Occurrences, TLAPS

LEMMA ReverseElements ==
  ASSUME NEW S, NEW q \in Seq(S)
  PROVE  /\ Reverse(q) \in Seq(S)
         /\ \A i \in DOMAIN Reverse(q) : \E j \in DOMAIN q : Reverse(q)[i] = q[j]
BY DEF Reverse

LEMMA SeqTypes ==
  ASSUME NEW S, NEW q \in Seq(S)
  PROVE  /\ \A e \in S : Append(q, e) \in Seq(S)
         /\ q # <<>> => Head(q) \in S /\ Tail(q) \in Seq(S)
OBVIOUS

\* Where the item that is put back goes, and what the queues hold then.
LEMMA PutBackQueues ==
  ASSUME NEW cs \in Seq(Event), NEW ms \in Seq(Item), NEW x \in Event \cup Item,
         PutBack(cs, ms, x)
  PROVE  /\ conQ' \in Seq(Event) /\ msgQ' \in Seq(Item)
         /\ x \in Item => conQ' = cs
         /\ \A i \in DOMAIN conQ' : conQ'[i] = x \/ \E j \in DOMAIN cs : conQ'[i] = cs[j]
<1>1. CASE x.kind = "new"
  <2>1. x \in Event /\ x \notin Item
    BY <1>1 DEF Event, Item, Message, Failure
  <2>2. conQ' = Append(cs, x) /\ msgQ' = ms
    BY <1>1 DEF PutBack
  <2>3. \A i \in DOMAIN conQ' : conQ'[i] = x \/ (i \in DOMAIN cs /\ conQ'[i] = cs[i])
    BY <2>1, <2>2
  <2> QED BY <2>1, <2>2, <2>3, SeqTypes
<1>2. CASE x.kind # "new"
  <2>1. x \in Item
    BY <1>2 DEF Event, Item
  <2>2. conQ' = cs /\ msgQ' = Append(ms, x)
    BY <1>2 DEF PutBack
  <2> QED BY <2>1, <2>2, SeqTypes
<1> QED BY <1>1, <1>2

LEMMA PutBackHas ==
  ASSUME NEW cs \in Seq(Event), NEW ms \in Seq(Item), NEW x \in Event \cup Item,
         PutBack(cs, ms, x), NEW E
  PROVE  Has(conQ', E) \/ Has(msgQ', E) <=> Has(cs, E) \/ Has(ms, E) \/ x \in E
<1>1. CASE x.kind = "new"
  <2>1. x \in Event /\ conQ' = Append(cs, x) /\ msgQ' = ms
    BY <1>1 DEF PutBack, Event, Item, Message, Failure
  <2> QED BY <2>1, AppendHas
<1>2. CASE x.kind # "new"
  <2>1. x \in Item /\ conQ' = cs /\ msgQ' = Append(ms, x)
    BY <1>2 DEF PutBack, Event, Item
  <2> QED BY <2>1, AppendHas
<1> QED BY <1>1, <1>2

LEMMA PutBackMessages ==
  ASSUME NEW cs \in Seq(Event), NEW ms \in Seq(Item), NEW x \in Event \cup Item,
         PutBack(cs, ms, x), NEW C \in SUBSET Message
  PROVE  /\ Has(msgQ', C) <=> Has(ms, C) \/ x \in C
         /\ Single(ms, C) /\ (x \in C => ~Has(ms, C)) => Single(msgQ', C)
<1>1. CASE x.kind = "new"
  <2>1. x \notin C /\ msgQ' = ms
    BY <1>1 DEF PutBack, Message
  <2> QED BY <2>1
<1>2. CASE x.kind # "new"
  <2>1. x \in Item /\ msgQ' = Append(ms, x)
    BY <1>2 DEF PutBack, Event, Item
  <2> QED BY <2>1, AppendHas
<1> QED BY <1>1, <1>2

(* What the worker does to its queues: it serves the head of one (cs or ms is *)
(* what is left of it) and may put back that of the other.                    *)
QueueTypes == conQ \in Seq(Event) /\ msgQ \in Seq(Item)

LEMMA HeadTypes ==
  ASSUME QueueTypes
  PROVE  /\ conQ # <<>> => /\ Head(conQ) \in Event /\ Tail(conQ) \in Seq(Event)
                           /\ \A j \in DOMAIN Tail(conQ) :
                                \E k \in DOMAIN conQ : Tail(conQ)[j] = conQ[k]
                           /\ \E k \in DOMAIN conQ : Head(conQ) = conQ[k]
         /\ msgQ # <<>> => Head(msgQ) \in Item /\ Tail(msgQ) \in Seq(Item)
<1>1. ASSUME conQ # <<>>, NEW j \in DOMAIN Tail(conQ)
      PROVE  \E k \in DOMAIN conQ : Tail(conQ)[j] = conQ[k]
  <2>1. j + 1 \in DOMAIN conQ /\ Tail(conQ)[j] = conQ[j + 1]
    BY <1>1 DEF QueueTypes
  <2> QED BY <2>1
<1>2. ASSUME conQ # <<>> PROVE \E k \in DOMAIN conQ : Head(conQ) = conQ[k]
  <2>1. 1 \in DOMAIN conQ /\ Head(conQ) = conQ[1]
    BY <1>2 DEF QueueTypes
  <2> QED BY <2>1
<1> QED BY <1>1, <1>2, SeqTypes DEF QueueTypes

\* The host a new stream is announced for.
LEMMA AnnouncedHost ==
  ASSUME QueueTypes, NEW taken \in BOOLEAN, WorkerNew(taken), Head(conQ).host # None
  PROVE  Head(conQ).host \in Hosts
<1>1. Head(conQ) \in Event /\ Head(conQ).kind = "new"
  BY HeadTypes DEF WorkerNew, FromConnections
<1> QED BY <1>1 DEF Event, Failure

\* The types, and that nothing is announced that was not in the queue before.
LEMMA WorkerQueues ==
  ASSUME QueueTypes, NEW taken \in BOOLEAN,
         FromConnections(taken) \/ FromMessages(taken) \/ WorkerLocal
  PROVE  /\ QueueTypes'
         /\ \A i \in DOMAIN conQ' : \E j \in DOMAIN conQ : conQ'[i] = conQ[j]
<1> DEFINE Goal == /\ conQ' \in Seq(Event) /\ msgQ' \in Seq(Item)
                   /\ \A i \in DOMAIN conQ' : \E j \in DOMAIN conQ : conQ'[i] = conQ[j]
<1>0. conQ \in Seq(Event) /\ msgQ \in Seq(Item)
  BY DEF QueueTypes
<1>1. ASSUME FromConnections(taken) PROVE Goal
  <2>1. CASE taken
    <3>1. conQ # <<>> /\ msgQ # <<>> /\ PutBack(Tail(conQ), Tail(msgQ), Head(msgQ))
      BY <1>1, <2>1 DEF FromConnections
    <3>2. conQ' \in Seq(Event) /\ msgQ' \in Seq(Item) /\ conQ' = Tail(conQ)
      BY <3>1, HeadTypes, PutBackQueues
    <3>3. \A i \in DOMAIN Tail(conQ) : \E j \in DOMAIN conQ : Tail(conQ)[i] = conQ[j]
      BY <3>1, HeadTypes
    <3>4. ASSUME NEW i \in DOMAIN conQ' PROVE \E j \in DOMAIN conQ : conQ'[i] = conQ[j]
      BY <3>2, <3>3
    <3> QED BY <3>2, <3>4
  <2>2. CASE ~taken
    <3>1. conQ # <<>> /\ conQ' = Tail(conQ) /\ msgQ' = msgQ
      BY <1>1, <2>2 DEF FromConnections
    <3> QED BY <1>0, <3>1, HeadTypes
  <2> QED BY <2>1, <2>2
<1>2. ASSUME FromMessages(taken) PROVE Goal
  <2>1. CASE taken
    <3>1. conQ # <<>> /\ msgQ # <<>> /\ PutBack(Tail(conQ), Tail(msgQ), Head(conQ))
      BY <1>2, <2>1 DEF FromMessages
    <3>2. /\ conQ' \in Seq(Event) /\ msgQ' \in Seq(Item)
          /\ \A i \in DOMAIN conQ' : \/ conQ'[i] = Head(conQ)
                                    \/ \E j \in DOMAIN Tail(conQ) : conQ'[i] = Tail(conQ)[j]
      <4>1. Head(conQ) \in Event \cup Item /\ Tail(conQ) \in Seq(Event) /\ Tail(msgQ) \in Seq(Item)
        BY <3>1, HeadTypes, Zenon
      <4> QED BY <3>1, <4>1, PutBackQueues, Zenon
    <3>3. \A i \in DOMAIN Tail(conQ) : \E j \in DOMAIN conQ : Tail(conQ)[i] = conQ[j]
      BY <3>1, HeadTypes
    <3>4. \E j \in DOMAIN conQ : Head(conQ) = conQ[j]
      BY <3>1, HeadTypes
    <3>5. ASSUME NEW i \in DOMAIN conQ' PROVE \E j \in DOMAIN conQ : conQ'[i] = conQ[j]
      <4>1. CASE conQ'[i] = Head(conQ)
        BY <3>4, <4>1, Zenon
      <4>2. CASE conQ'[i] # Head(conQ)
        <5>1. PICK j \in DOMAIN Tail(conQ) : conQ'[i] = Tail(conQ)[j]
          BY <3>2, <4>2, Zenon
        <5> QED BY <3>3, <5>1, Zenon
      <4> QED BY <4>1, <4>2
    <3> QED BY <3>2, <3>5
  <2>2. CASE ~taken
    <3>1. msgQ # <<>> /\ msgQ' = Tail(msgQ) /\ conQ' = conQ
      BY <1>2, <2>2 DEF FromMessages
    <3> QED BY <1>0, <3>1, HeadTypes
  <2> QED BY <2>1, <2>2
<1>3. ASSUME WorkerLocal PROVE Goal
  <2>1. CASE msgQ # <<>> /\ PutBack(conQ, Tail(msgQ), Head(msgQ))
    <3>1. conQ' \in Seq(Event) /\ msgQ' \in Seq(Item) /\ conQ' = conQ
      BY <1>0, <2>1, HeadTypes, PutBackQueues
    <3> QED BY <3>1
  <2>2. CASE conQ # <<>> /\ PutBack(Tail(conQ), msgQ, Head(conQ))
    <3>1. /\ conQ' \in Seq(Event) /\ msgQ' \in Seq(Item)
          /\ \A i \in DOMAIN conQ' : \/ conQ'[i] = Head(conQ)
                                    \/ \E j \in DOMAIN Tail(conQ) : conQ'[i] = Tail(conQ)[j]
      <4>1. Head(conQ) \in Event \cup Item /\ Tail(conQ) \in Seq(Event)
        BY <2>2, HeadTypes, Zenon
      <4> QED BY <1>0, <2>2, <4>1, PutBackQueues, Zenon
    <3>2. \A i \in DOMAIN Tail(conQ) : \E j \in DOMAIN conQ : Tail(conQ)[i] = conQ[j]
      BY <2>2, HeadTypes
    <3>3. \E j \in DOMAIN conQ : Head(conQ) = conQ[j]
      BY <2>2, HeadTypes
    <3>4. ASSUME NEW i \in DOMAIN conQ' PROVE \E j \in DOMAIN conQ : conQ'[i] = conQ[j]
      <4>1. CASE conQ'[i] = Head(conQ)
        BY <3>3, <4>1, Zenon
      <4>2. CASE conQ'[i] # Head(conQ)
        <5>1. PICK j \in DOMAIN Tail(conQ) : conQ'[i] = Tail(conQ)[j]
          BY <3>1, <4>2, Zenon
        <5> QED BY <3>2, <5>1, Zenon
      <4> QED BY <4>1, <4>2
    <3> QED BY <3>1, <3>4
  <2> QED BY <1>3, <2>1, <2>2 DEF WorkerLocal
<1> QED BY <1>1, <1>2, <1>3 DEF QueueTypes

\* Only what is served leaves the queues.
LEMMA WorkerKeeps ==
  ASSUME QueueTypes, NEW taken \in BOOLEAN, NEW E,
         Has(conQ, E) \/ Has(msgQ, E),
         \/ FromConnections(taken) /\ Head(conQ) \notin E
         \/ FromMessages(taken) /\ Head(msgQ) \notin E
         \/ WorkerLocal
  PROVE  Has(conQ', E) \/ Has(msgQ', E)
<1>0. conQ \in Seq(Event) /\ msgQ \in Seq(Item)
  BY DEF QueueTypes
<1>1. /\ conQ # <<>> => (Has(conQ, E) <=> Head(conQ) \in E \/ Has(Tail(conQ), E))
      /\ msgQ # <<>> => (Has(msgQ, E) <=> Head(msgQ) \in E \/ Has(Tail(msgQ), E))
  BY <1>0, TailHas
<1>2. ASSUME FromConnections(taken), Head(conQ) \notin E
      PROVE  Has(conQ', E) \/ Has(msgQ', E)
  <2>1. CASE taken
    <3>1. conQ # <<>> /\ msgQ # <<>> /\ PutBack(Tail(conQ), Tail(msgQ), Head(msgQ))
      BY <1>2, <2>1 DEF FromConnections
    <3>2. Has(conQ', E) \/ Has(msgQ', E)
            <=> Has(Tail(conQ), E) \/ Has(Tail(msgQ), E) \/ Head(msgQ) \in E
      BY <3>1, HeadTypes, PutBackHas
    <3> QED BY <1>1, <1>2, <3>1, <3>2
  <2>2. CASE ~taken
    BY <1>1, <1>2, <2>2 DEF FromConnections
  <2> QED BY <2>1, <2>2
<1>3. ASSUME FromMessages(taken), Head(msgQ) \notin E
      PROVE  Has(conQ', E) \/ Has(msgQ', E)
  <2>1. CASE taken
    <3>1. conQ # <<>> /\ msgQ # <<>> /\ PutBack(Tail(conQ), Tail(msgQ), Head(conQ))
      BY <1>3, <2>1 DEF FromMessages
    <3>2. Has(conQ', E) \/ Has(msgQ', E)
            <=> Has(Tail(conQ), E) \/ Has(Tail(msgQ), E) \/ Head(conQ) \in E
      BY <3>1, HeadTypes, PutBackHas
    <3> QED BY <1>1, <1>3, <3>1, <3>2
  <2>2. CASE ~taken
    BY <1>1, <1>3, <2>2 DEF FromMessages
  <2> QED BY <2>1, <2>2
<1>4. ASSUME WorkerLocal PROVE Has(conQ', E) \/ Has(msgQ', E)
  <2>1. CASE msgQ # <<>> /\ PutBack(conQ, Tail(msgQ), Head(msgQ))
    <3>1. Has(conQ', E) \/ Has(msgQ', E)
            <=> Has(conQ, E) \/ Has(Tail(msgQ), E) \/ Head(msgQ) \in E
      BY <1>0, <2>1, HeadTypes, PutBackHas
    <3> QED BY <1>1, <2>1, <3>1
  <2>2. CASE conQ # <<>> /\ PutBack(Tail(conQ), msgQ, Head(conQ))
    <3>1. Has(conQ', E) \/ Has(msgQ', E)
            <=> Has(Tail(conQ), E) \/ Has(msgQ, E) \/ Head(conQ) \in E
      BY <1>0, <2>2, HeadTypes, PutBackHas
    <3> QED BY <1>1, <2>2, <3>1
  <2> QED BY <1>4, <2>1, <2>2 DEF WorkerLocal
<1> QED BY <1>2, <1>3, <1>4

\* The copies of a message in the MESSAGES queue, when no message is served.
LEMMA WorkerMessages ==
  ASSUME QueueTypes, NEW taken \in BOOLEAN, NEW C \in SUBSET Message,
         FromConnections(taken) \/ WorkerLocal
  PROVE  /\ Has(msgQ', C) <=> Has(msgQ, C)
         /\ Single(msgQ, C) => Single(msgQ', C)
<1> DEFINE Goal == /\ Has(msgQ', C) <=> Has(msgQ, C)
                   /\ Single(msgQ, C) => Single(msgQ', C)
<1>0. conQ \in Seq(Event) /\ msgQ \in Seq(Item)
  BY DEF QueueTypes
<1>1. msgQ # <<>> =>
        /\ Has(msgQ, C) <=> Head(msgQ) \in C \/ Has(Tail(msgQ), C)
        /\ Single(msgQ, C) => /\ Single(Tail(msgQ), C)
                              /\ Head(msgQ) \in C => ~Has(Tail(msgQ), C)
  BY <1>0, TailHas
<1>2. ASSUME NEW cs \in Seq(Event), msgQ # <<>>, PutBack(cs, Tail(msgQ), Head(msgQ))
      PROVE  Goal
  <2>1. /\ Has(msgQ', C) <=> Has(Tail(msgQ), C) \/ Head(msgQ) \in C
        /\ Single(Tail(msgQ), C) /\ (Head(msgQ) \in C => ~Has(Tail(msgQ), C))
             => Single(msgQ', C)
    BY <1>2, HeadTypes, PutBackMessages
  <2> QED BY <1>1, <1>2, <2>1
<1>3. CASE FromConnections(taken)
  <2>1. CASE taken
    <3>1. conQ # <<>> /\ msgQ # <<>> /\ PutBack(Tail(conQ), Tail(msgQ), Head(msgQ))
      BY <1>3, <2>1 DEF FromConnections
    <3> QED BY <1>2, <3>1, HeadTypes
  <2>2. CASE ~taken
    BY <1>3, <2>2 DEF FromConnections
  <2> QED BY <2>1, <2>2
<1>4. CASE WorkerLocal
  <2>1. CASE msgQ # <<>> /\ PutBack(conQ, Tail(msgQ), Head(msgQ))
    BY <1>0, <1>2, <2>1
  <2>2. CASE conQ # <<>> /\ PutBack(Tail(conQ), msgQ, Head(conQ))
    <3>1. Head(conQ) \notin C
      BY <2>2, HeadTypes DEF Event, Failure, Message
    <3> QED BY <1>0, <2>2, <3>1, HeadTypes, PutBackMessages
  <2> QED BY <1>4, <2>1, <2>2 DEF WorkerLocal
<1> QED BY <1>3, <1>4

\* The same when the head of the MESSAGES queue is served.
LEMMA ServedMessages ==
  ASSUME QueueTypes, NEW taken \in BOOLEAN, NEW C \in SUBSET Message, FromMessages(taken)
  PROVE  /\ Has(msgQ, C) <=> Head(msgQ) \in C \/ Has(msgQ', C)
         /\ Single(msgQ, C) => Single(msgQ', C) /\ (Head(msgQ) \in C => ~Has(msgQ', C))
<1>0. conQ \in Seq(Event) /\ msgQ \in Seq(Item) /\ msgQ # <<>>
  BY DEF QueueTypes, FromMessages
<1>1. /\ Has(msgQ, C) <=> Head(msgQ) \in C \/ Has(Tail(msgQ), C)
      /\ Single(msgQ, C) => /\ Single(Tail(msgQ), C)
                            /\ Head(msgQ) \in C => ~Has(Tail(msgQ), C)
  BY <1>0, TailHas
<1>2. CASE taken
  <2>1. conQ # <<>> /\ PutBack(Tail(conQ), Tail(msgQ), Head(conQ))
    BY <1>2 DEF FromMessages
  <2>2. Head(conQ) \notin C
    BY <2>1, HeadTypes DEF Event, Failure, Message
  <2>3. /\ Has(msgQ', C) <=> Has(Tail(msgQ), C)
        /\ Single(Tail(msgQ), C) => Single(msgQ', C)
    BY <1>0, <2>1, <2>2, HeadTypes, PutBackMessages
  <2> QED BY <1>1, <2>3
<1>3. CASE ~taken
  BY <1>1, <1>3 DEF FromMessages
<1> QED BY <1>2, <1>3

LEMMA StreamForType ==
  ASSUME TypeOK, NEW h
  PROVE  StreamFor(h) \subseteq Streams
BY DEF StreamFor, Listed, TypeOK, Server

LEMMA HandOverType ==
  ASSUME TypeOK, NEW ss \in SUBSET Streams, NEW ms \in Seq(Message), HandOver(ss, ms)
  PROVE  handed' \in [Streams -> Seq(Message)]
BY DEF HandOver, TypeOK

(* How far a stream has come, and that its peername is listed from then on.  *)
StreamOK ==
  \A s \in Streams :
    /\ link[s] = "none" => hostOf[s] = None /\ phase[s] = "plain"
    /\ link[s] # "none" => hostOf[s] \in Hosts /\ Listed(PeerOf[hostOf[s]])

TypeInv == TypeOK /\ StreamOK

-----------------------------------------------------------------------------
LEMMA SendMessageType ==
  ASSUME TypeInv, NEW m \in Message, SendMessage(m)
  PROVE  TypeInv'
<1> USE DEF TypeInv
<1>1. msgQ' \in Seq(Item) /\ sent' \subseteq Message
  <2>1. Append(msgQ, m) \in Seq(Item) /\ sent \cup {m} \subseteq Message
    BY SeqTypes DEF TypeOK, Item
  <2>2. msgQ \in Seq(Item)
    BY DEF TypeOK
  <2>3. sent' = sent \cup {m} /\ (msgQ' = msgQ \/ msgQ' = Append(msgQ, m))
    BY DEF SendMessage
  <2> QED BY <2>1, <2>2, <2>3
<1>2. handed' \in [Streams -> Seq(Message)]
  <2>1. <<m>> \in Seq(Message)
    OBVIOUS
  <2>2. CASE StreamFor(m.host) # {}
    BY <2>1, <2>2, StreamForType, HandOverType DEF SendMessage
  <2>3. CASE StreamFor(m.host) = {}
    BY <2>3 DEF SendMessage, TypeOK
  <2> QED BY <2>2, <2>3
<1>3. UNCHANGED <<streamVars, taskVars, conQ, pending>>
  BY DEF SendMessage
<1>4. TypeOK'
  BY <1>1, <1>2, <1>3 DEF TypeOK, streamVars, taskVars
<1> QED BY <1>3, <1>4 DEF StreamOK, Listed, streamVars

LEMMA ConnectType ==
  ASSUME TypeInv, Connect
  PROVE  TypeInv'
<1> USE DEF TypeInv
<1>1. Head(serverQ) \in Hosts /\ Tail(serverQ) \in Seq(Hosts)
  BY SeqTypes DEF Connect, TypeOK
<1>2. TypeOK'
  BY <1>1 DEF Connect, TypeOK, streamVars, queueVars
<1> QED BY <1>2 DEF Connect, StreamOK, Listed, streamVars

LEMMA ConnectedType ==
  ASSUME TypeInv, NEW s \in Streams, Connected(s)
  PROVE  TypeInv'
<1> USE DEF TypeInv
<1>1. connecting \in Hosts /\ PeerOf[connecting] \in Peers
  BY PeersAreAddresses DEF Connected, TypeOK
<1>2. [host |-> connecting, stream |-> s] \in Server
  BY <1>1 DEF Server
<1>3. remoteList' \in [Peers -> Server \cup {None}]
  BY <1>1, <1>2 DEF Connected, TypeOK
<1>4. TypeOK'
  BY <1>1, <1>3 DEF Connected, TypeOK, queueVars
<1>5. [host |-> connecting, stream |-> s] # None
  BY <1>2, NoneIsNew DEF Server
<1>6. \A p \in Peers : Listed(p) => Listed(p)'
  BY <1>1, <1>5 DEF Connected, Listed, TypeOK
<1>7. remoteList'[PeerOf[connecting]] # None
  BY <1>1, <1>5 DEF Connected, Listed, TypeOK
<1>8. ASSUME NEW t \in Streams, t # s PROVE
        /\ link'[t] = link[t] /\ hostOf'[t] = hostOf[t] /\ phase'[t] = phase[t]
  BY <1>8 DEF Connected, TypeOK
<1>9. link'[s] = "open" /\ hostOf'[s] = connecting
  BY DEF Connected, TypeOK
<1>10. StreamOK'
  <2>1. link'[s] # "none" /\ hostOf'[s] \in Hosts /\ remoteList'[PeerOf[hostOf'[s]]] # None
    BY <1>1, <1>7, <1>9
  <2>2. ASSUME NEW t \in Streams, t # s, link[t] # "none"
        PROVE  hostOf'[t] \in Hosts /\ remoteList'[PeerOf[hostOf'[t]]] # None
    BY <1>6, <1>8, <2>2, PeersAreAddresses DEF StreamOK, Listed
  <2> QED BY <1>8, <2>1, <2>2 DEF StreamOK, Listed
<1> QED BY <1>4, <1>10

LEMMA RefusedType ==
  ASSUME TypeInv, Refused \/ Unreachable
  PROVE  TypeInv'
<1> USE DEF TypeInv
<1>1. CASE Refused
  <2>1. [kind |-> "failed", host |-> connecting] \in Event
    BY <1>1 DEF Refused, TypeOK, Event, Failure
  <2>2. conQ' \in Seq(Event)
    BY <1>1, <2>1, SeqTypes DEF Refused, TypeOK
  <2>3. TypeOK'
    BY <1>1, <2>2 DEF Refused, TypeOK, streamVars
  <2> QED BY <1>1, <2>3 DEF Refused, StreamOK, Listed, streamVars
<1>2. CASE Unreachable
  <2>1. TypeOK'
    BY <1>2 DEF Unreachable, TypeOK, streamVars, queueVars
  <2> QED BY <1>2, <2>1 DEF Unreachable, StreamOK, Listed, streamVars
<1> QED BY <1>1, <1>2

LEMMA SecureType ==
  ASSUME TypeInv, NEW s \in Streams, Secure(s)
  PROVE  TypeInv'
<1> USE DEF TypeInv
<1> DEFINE p == PeerOf[hostOf[s]]
<1>1. hostOf[s] \in Hosts /\ p \in Peers /\ remoteList[p] \in Server
  BY PeersAreAddresses DEF Secure, StreamOK, Listed, TypeOK
<1>2. [remoteList[p] EXCEPT !.stream = s] \in Server
  BY <1>1 DEF Server
<1>3. remoteList' = [remoteList EXCEPT ![p] = [remoteList[p] EXCEPT !.stream = s]]
  BY <1>1 DEF Secure, TypeOK
<1>4. remoteList' \in [Peers -> Server \cup {None}]
  BY <1>1, <1>2, <1>3 DEF TypeOK
<1>5. TypeOK'
  BY <1>4 DEF Secure, TypeOK, taskVars, queueVars
<1>6. \A q \in Peers : Listed(q) => Listed(q)'
  BY <1>1, <1>2, <1>3, NoneIsNew DEF Listed, TypeOK, Server
<1>7. \A t \in Streams : hostOf[t] \in Hosts => PeerOf[hostOf[t]] \in Peers
  BY PeersAreAddresses
<1>8. link' = link /\ hostOf' = hostOf /\ \A t \in Streams : t # s => phase'[t] = phase[t]
  BY DEF Secure, TypeOK
<1>9. link[s] = "open"
  BY DEF Secure
<1>10. StreamOK'
  BY <1>6, <1>7, <1>8, <1>9 DEF StreamOK, Listed
<1> QED BY <1>5, <1>10

\* The steps of a stream that leave the table alone.
LEMMA StreamStepType ==
  ASSUME TypeInv, NEW s \in Streams,
         SecureFails(s) \/ Answer(s) \/ Ready(s) \/ StreamLost(s)
  PROVE  TypeInv'
<1> USE DEF TypeInv
<1>1. /\ UNCHANGED <<hostOf, remoteList, taskVars, msgQ, pending, handed, sent>>
      /\ link' = link \/ link' = [link EXCEPT ![s] = "lost"]
      /\ \/ phase' = phase
         \/ phase' = [phase EXCEPT ![s] = "secured"]
         \/ phase' = [phase EXCEPT ![s] = "answered"]
         \/ phase' = [phase EXCEPT ![s] = "ready"]
      /\ link[s] # "none"
  BY DEF SecureFails, Answer, Ready, StreamLost, queueVars, StreamOK
<1>2. conQ' \in Seq(Event)
  <2>1. CASE Ready(s)
    <3> DEFINE h == IF link[s] = "open" THEN remoteList[PeerOf[hostOf[s]]].host ELSE None
    <3>1. hostOf[s] \in Hosts /\ PeerOf[hostOf[s]] \in Peers
      BY <1>1, PeersAreAddresses DEF StreamOK
    <3>2. remoteList[PeerOf[hostOf[s]]].host \in Hosts
      BY <1>1, <3>1 DEF StreamOK, TypeOK, Listed, Server
    <3>3. [kind |-> "new", host |-> h] \in Event
      BY <3>2 DEF Event
    <3>4. conQ' = Append(conQ, [kind |-> "new", host |-> h])
      BY <2>1 DEF Ready
    <3> QED BY <3>3, <3>4, SeqTypes DEF TypeOK
  <2>2. CASE ~Ready(s)
    BY <2>2 DEF SecureFails, Answer, StreamLost, queueVars, TypeOK
  <2> QED BY <2>1, <2>2
<1>3. TypeOK'
  BY <1>1, <1>2 DEF TypeOK, taskVars
<1>4. StreamOK'
  BY <1>1 DEF StreamOK, Listed, TypeOK
<1> QED BY <1>3, <1>4

LEMMA WorkerNewType ==
  ASSUME TypeInv, NEW taken \in BOOLEAN, WorkerNew(taken)
  PROVE  TypeInv'
<1> USE DEF TypeInv
<1>1. conQ' \in Seq(Event) /\ msgQ' \in Seq(Item)
  BY WorkerQueues DEF WorkerNew, TypeOK, QueueTypes
<1>2. UNCHANGED <<streamVars, taskVars, sent>>
  BY DEF WorkerNew
<1>3. handed' \in [Streams -> Seq(Message)] /\ pending' \in [Hosts -> Seq(Message)]
  <2> DEFINE h == Head(conQ).host
  <2>1. CASE h = None \/ pending[h] = <<>>
    BY <2>1 DEF WorkerNew, TypeOK
  <2>2. CASE ~(h = None \/ pending[h] = <<>>)
    <3>1. h \in Hosts
      BY <2>2, AnnouncedHost DEF TypeOK, QueueTypes
    <3>2. Reverse(pending[h]) \in Seq(Message)
      BY <3>1, ReverseElements DEF TypeOK
    <3>3. /\ HandOver(StreamFor(h), Reverse(pending[h]))
          /\ pending' = [pending EXCEPT ![h] = <<>>]
      BY <2>2 DEF WorkerNew
    <3>4. handed' \in [Streams -> Seq(Message)]
      BY <3>2, <3>3, StreamForType, HandOverType
    <3>5. pending' \in [Hosts -> Seq(Message)]
      BY <3>1, <3>3 DEF TypeOK
    <3> QED BY <3>4, <3>5
  <2> QED BY <2>1, <2>2
<1>4. TypeOK'
  BY <1>1, <1>2, <1>3 DEF TypeOK, streamVars, taskVars
<1> QED BY <1>2, <1>4 DEF StreamOK, Listed, streamVars

LEMMA WorkerFailedType ==
  ASSUME TypeInv, NEW taken \in BOOLEAN, WorkerFailed(taken)
  PROVE  TypeInv'
<1> USE DEF TypeInv
<1>1. conQ' \in Seq(Event) /\ msgQ' \in Seq(Item)
  BY WorkerQueues DEF WorkerFailed, TypeOK, QueueTypes
<1>2. TypeOK'
  BY <1>1 DEF WorkerFailed, TypeOK, streamVars
<1> QED BY <1>2 DEF WorkerFailed, StreamOK, Listed, streamVars

LEMMA ServedIsMessage ==
  ASSUME TypeInv, NEW taken \in BOOLEAN, WorkerMessage(taken)
  PROVE  msgQ # <<>> /\ Head(msgQ) \in Message
<1>1. msgQ # <<>> /\ Head(msgQ) \in Item /\ Head(msgQ).kind = "message"
  BY SeqTypes DEF WorkerMessage, FromMessages, TypeInv, TypeOK
<1> QED BY <1>1 DEF Item, Failure

LEMMA WorkerMessageType ==
  ASSUME TypeInv, NEW taken \in BOOLEAN, WorkerMessage(taken)
  PROVE  TypeInv'
<1> USE DEF TypeInv
<1> DEFINE m == Head(msgQ)
<1>1. conQ' \in Seq(Event) /\ msgQ' \in Seq(Item) /\ m \in Message
  <2>1. conQ' \in Seq(Event) /\ msgQ' \in Seq(Item)
    BY WorkerQueues DEF WorkerMessage, TypeOK, QueueTypes
  <2> QED BY <2>1, ServedIsMessage
<1>2. m.host \in Hosts
  BY <1>1 DEF Message
<1>3. Append(pending[m.host], m) \in Seq(Message)
  BY <1>1, <1>2, SeqTypes DEF TypeOK
<1>4. pending' \in [Hosts -> Seq(Message)] /\ serverQ' \in Seq(Hosts)
  BY <1>2, <1>3, SeqTypes DEF WorkerMessage, TypeOK
<1>5. TypeOK'
  BY <1>1, <1>4 DEF WorkerMessage, TypeOK, streamVars
<1> QED BY <1>5 DEF WorkerMessage, StreamOK, Listed, streamVars

LEMMA WorkerLocalType ==
  ASSUME TypeInv, WorkerLocal
  PROVE  TypeInv'
<1> USE DEF TypeInv
<1>1. conQ' \in Seq(Event) /\ msgQ' \in Seq(Item)
  BY WorkerQueues DEF TypeOK, QueueTypes
<1>2. TypeOK'
  BY <1>1 DEF WorkerLocal, TypeOK, streamVars, taskVars
<1> QED BY <1>2 DEF WorkerLocal, StreamOK, Listed, streamVars

LEMMA InitType == Init => TypeInv
<1> SUFFICES ASSUME Init PROVE TypeInv OBVIOUS
<1>1. TypeOK
  BY DEF Init, TypeOK
<1> QED BY <1>1 DEF Init, TypeInv, StreamOK

LEMMA StepType == TypeInv /\ [Next]_vars => TypeInv'
<1> SUFFICES ASSUME TypeInv, [Next]_vars PROVE TypeInv' OBVIOUS
<1>1. ASSUME UNCHANGED vars PROVE TypeInv'
  BY <1>1 DEF vars, streamVars, taskVars, queueVars, TypeInv, TypeOK, StreamOK, Listed
<1>2. ASSUME Network PROVE TypeInv'
  BY <1>2, RefusedType, ConnectedType, SecureType, StreamStepType DEF Network
<1>3. ASSUME Worker PROVE TypeInv'
  BY <1>3, WorkerNewType, WorkerFailedType, WorkerMessageType, WorkerLocalType DEF Worker
<1>4. ASSUME NEW s \in Streams, Ready(s) PROVE TypeInv'
  BY <1>4, StreamStepType
<1> QED BY <1>1, <1>2, <1>3, <1>4, SendMessageType, ConnectType DEF Next

\* Every variable keeps its type, whichever addresses the hosts resolve to.
THEOREM TypeCorrect == Spec => []TypeOK
<1>1. TypeInv => TypeOK
  BY DEF TypeInv
<1> QED BY InitType, StepType, <1>1, PTL DEF Spec

-----------------------------------------------------------------------------
(* What is listed stays listed, under the same host.                         *)
HostListed(h) == \E p \in Peers : Listed(p) /\ remoteList[p].host = h

LEMMA StreamForListed ==
  ASSUME NEW h
  PROVE  StreamFor(h) # {} <=> HostListed(h)
BY DEF StreamFor, HostListed

LEMMA ListedStays ==
  ASSUME TypeInv, [Next]_vars, NEW p \in Peers, Listed(p)
  PROVE  /\ remoteList'[p] # None
         /\ remoteList'[p].host = remoteList[p].host
<1>1. ASSUME NEW s \in Streams, Connected(s)
      PROVE  remoteList'[p] = remoteList[p]
  BY <1>1, PeersAreAddresses DEF Connected, TypeInv, TypeOK, Listed
<1>2. ASSUME NEW s \in Streams, Secure(s)
      PROVE  remoteList'[p] # None /\ remoteList'[p].host = remoteList[p].host
  <2> DEFINE q == PeerOf[hostOf[s]]
  <2>1. hostOf[s] \in Hosts /\ q \in Peers /\ remoteList[q] \in Server
    BY <1>2, PeersAreAddresses DEF Secure, TypeInv, StreamOK, Listed, TypeOK
  <2>2. remoteList' = [remoteList EXCEPT ![q] = [remoteList[q] EXCEPT !.stream = s]]
    BY <1>2, <2>1 DEF Secure, TypeInv, TypeOK
  <2>3. /\ [remoteList[q] EXCEPT !.stream = s] \in Server
        /\ [remoteList[q] EXCEPT !.stream = s].host = remoteList[q].host
    BY <2>1 DEF Server
  <2>4. CASE p = q
    BY <2>1, <2>2, <2>3, <2>4, NoneIsNew DEF TypeInv, TypeOK, Server
  <2>5. CASE p # q
    BY <2>2, <2>5 DEF TypeInv, TypeOK, Listed
  <2> QED BY <2>4, <2>5
<1>3. ASSUME remoteList' = remoteList
      PROVE  remoteList'[p] # None /\ remoteList'[p].host = remoteList[p].host
  BY <1>3 DEF Listed
<1>4. ASSUME UNCHANGED vars PROVE remoteList' = remoteList
  BY <1>4 DEF vars, streamVars
<1>5. ASSUME NEW m \in Message, SendMessage(m) PROVE remoteList' = remoteList
  BY <1>5 DEF SendMessage, streamVars
<1>6. ASSUME Connect \/ Refused \/ Unreachable PROVE remoteList' = remoteList
  BY <1>6 DEF Connect, Refused, Unreachable, streamVars
<1>7. ASSUME NEW s \in Streams, SecureFails(s) \/ Answer(s) \/ Ready(s) \/ StreamLost(s)
      PROVE  remoteList' = remoteList
  BY <1>7 DEF SecureFails, Answer, Ready, StreamLost
<1>8. ASSUME Worker PROVE remoteList' = remoteList
  BY <1>8 DEF Worker, WorkerNew, WorkerFailed, WorkerMessage, WorkerLocal, streamVars
<1>9. remoteList'[p] # None
  BY <1>1, <1>2, <1>3, <1>4, <1>5, <1>6, <1>7, <1>8 DEF Next, Network, Listed
<1>10. remoteList'[p].host = remoteList[p].host
  BY <1>1, <1>2, <1>3, <1>4, <1>5, <1>6, <1>7, <1>8 DEF Next, Network
<1> QED BY <1>9, <1>10

LEMMA HostStays ==
  ASSUME TypeInv, [Next]_vars, NEW h, StreamFor(h) # {}
  PROVE  StreamFor(h)' # {}
<1>1. PICK p \in Peers : Listed(p) /\ remoteList[p].host = h
  BY StreamForListed DEF HostListed
<1>2. remoteList'[p] # None /\ remoteList'[p].host = h
  BY <1>1, ListedStays
<1>3. remoteList'[p].stream \in StreamFor(h)'
  BY <1>2 DEF StreamFor, Listed
<1> QED BY <1>3

-----------------------------------------------------------------------------
(* Every new item of the CONNECTIONS queue is one of its old ones, or the    *)
(* announcement a stream makes, or the report of a failed connection.        *)
LEMMA EventsStay ==
  ASSUME TypeInv, [Next]_vars, NEW i \in DOMAIN conQ'
  PROVE  \/ \E j \in DOMAIN conQ : conQ'[i] = conQ[j]
         \/ conQ'[i].kind = "failed"
         \/ \E s \in Streams : /\ Ready(s)
                               /\ conQ'[i].host = IF link[s] = "open"
                                    THEN remoteList[PeerOf[hostOf[s]]].host ELSE None
<1> USE DEF TypeInv, TypeOK
<1>1. ASSUME conQ' = conQ PROVE \E j \in DOMAIN conQ : conQ'[i] = conQ[j]
  BY <1>1
<1>2. CASE Refused
  BY <1>2 DEF Refused
<1>3. ASSUME NEW s \in Streams, Ready(s)
      PROVE  \/ \E j \in DOMAIN conQ : conQ'[i] = conQ[j]
             \/ conQ'[i].host = IF link[s] = "open"
                  THEN remoteList[PeerOf[hostOf[s]]].host ELSE None
  <2> DEFINE e == [kind |-> "new", host |-> IF link[s] = "open"
                     THEN remoteList[PeerOf[hostOf[s]]].host ELSE None]
  <2>1. conQ' = Append(conQ, e)
    BY <1>3 DEF Ready
  <2>2. i \in DOMAIN conQ \/ conQ'[i] = e
    BY <2>1
  <2>3. i \in DOMAIN conQ => conQ'[i] = conQ[i]
    BY <2>1
  <2> QED BY <2>2, <2>3
<1>4. ASSUME NEW taken \in BOOLEAN, WorkerNew(taken) \/ WorkerFailed(taken) \/ WorkerMessage(taken)
      PROVE  \E j \in DOMAIN conQ : conQ'[i] = conQ[j]
  BY <1>4, WorkerQueues DEF WorkerNew, WorkerFailed, WorkerMessage, QueueTypes
<1>5. ASSUME WorkerLocal
      PROVE  \E j \in DOMAIN conQ : conQ'[i] = conQ[j]
  <2>1. TRUE \in BOOLEAN
    OBVIOUS
  <2> QED BY <1>5, <2>1, WorkerQueues DEF QueueTypes
<1>7. ASSUME NEW s \in Streams,
             Connected(s) \/ Secure(s) \/ SecureFails(s) \/ Answer(s) \/ StreamLost(s)
      PROVE  conQ' = conQ
  BY <1>7 DEF Connected, Secure, SecureFails, Answer, StreamLost, queueVars
<1>8. ASSUME Connect \/ Unreachable \/ UNCHANGED vars PROVE conQ' = conQ
  BY <1>8 DEF Connect, Unreachable, vars, queueVars
<1>9. ASSUME NEW m \in Message, SendMessage(m) PROVE conQ' = conQ
  BY <1>9 DEF SendMessage
<1> HIDE DEF TypeInv, TypeOK
<1> QED BY <1>1, <1>2, <1>3, <1>4, <1>5, <1>7, <1>8, <1>9 DEF Next, Network, Worker

AnnouncedInv == TypeInv /\ AnnouncedIsListed

LEMMA StepAnnounced == AnnouncedInv /\ [Next]_vars => AnnouncedInv'
<1> SUFFICES ASSUME AnnouncedInv, [Next]_vars PROVE AnnouncedInv' OBVIOUS
<1>1. TypeInv
  BY DEF AnnouncedInv
<1>2. ASSUME NEW i \in DOMAIN conQ', conQ'[i].kind = "new",
             NEW h, h = conQ'[i].host, h # None
      PROVE  \E p \in Peers : remoteList'[p] # None /\ remoteList'[p].host = h
  <2>1. StreamFor(h) # {}
    <3>1. ASSUME NEW j \in DOMAIN conQ, conQ'[i] = conQ[j] PROVE StreamFor(h) # {}
      BY <1>2, <3>1 DEF AnnouncedInv, AnnouncedIsListed
    <3>2. ASSUME NEW s \in Streams, Ready(s), link[s] = "open",
                 h = remoteList[PeerOf[hostOf[s]]].host
          PROVE  StreamFor(h) # {}
      <4>1. hostOf[s] \in Hosts /\ Listed(PeerOf[hostOf[s]])
        BY <1>1, <3>2 DEF TypeInv, StreamOK
      <4> QED BY <3>2, <4>1, PeersAreAddresses DEF StreamFor
    <3> QED BY <1>1, <1>2, <3>1, <3>2, EventsStay
  <2>2. PICK p \in Peers : Listed(p) /\ remoteList[p].host = h
    BY <2>1, StreamForListed DEF HostListed
  <2> QED BY <1>1, <2>2, ListedStays
<1>3. AnnouncedIsListed'
  BY <1>2 DEF AnnouncedIsListed, StreamFor, Listed
<1> QED BY <1>1, <1>3, StepType DEF AnnouncedInv

\* The worker finds a transport for every host that is announced to it, however
\* many steps lie between the announcement and its turn (connection_server,
\* ServerStanzaHandler, queue_worker), whichever addresses the hosts resolve to.
THEOREM AnnouncedHasStream == Spec => []AnnouncedIsListed
<1>1. Init => AnnouncedInv
  BY InitType DEF Init, AnnouncedInv, AnnouncedIsListed
<1>2. AnnouncedInv => AnnouncedIsListed
  BY DEF AnnouncedInv
<1> QED BY <1>1, <1>2, StepAnnounced, PTL DEF Spec

-----------------------------------------------------------------------------
(* Hosts on addresses of their own: an entry is for the host of its          *)
(* peername and holds a stream of it; a host is connected only while nothing *)
(* is listed for it; what is kept is kept under its host.                    *)
PeersDistinct == \A g, h \in Hosts : PeerOf[g] = PeerOf[h] => g = h

EntryOK ==
  \A p \in Peers : Listed(p) =>
    /\ PeerOf[remoteList[p].host] = p
    /\ hostOf[remoteList[p].stream] = remoteList[p].host

FreshOK == connecting # None => ~Listed(PeerOf[connecting])

StoreOK == \A h \in Hosts : \A i \in DOMAIN pending[h] : pending[h][i].host = h

HostInv == TypeInv /\ EntryOK /\ FreshOK /\ StoreOK /\ OneStreamPerHost /\ RightHost

LEMMA ListedHost ==
  ASSUME TypeInv, EntryOK, PeersDistinct, NEW h \in Hosts
  PROVE  StreamFor(h) # {} <=> Listed(PeerOf[h])
<1>1. ASSUME Listed(PeerOf[h]) PROVE StreamFor(h) # {}
  <2>1. PeerOf[h] \in Peers /\ remoteList[PeerOf[h]].host \in Hosts
    BY <1>1, PeersAreAddresses DEF TypeInv, TypeOK, Listed, Server
  <2>2. remoteList[PeerOf[h]].host = h
    BY <1>1, <2>1 DEF EntryOK, PeersDistinct
  <2> QED BY <1>1, <2>1, <2>2 DEF StreamFor
<1>2. ASSUME NEW p \in Peers, Listed(p), remoteList[p].host = h PROVE Listed(PeerOf[h])
  BY <1>2 DEF EntryOK
<1> QED BY <1>1, <1>2 DEF StreamFor

LEMMA StreamOfHost ==
  ASSUME TypeInv, EntryOK, NEW h \in Hosts, NEW s \in StreamFor(h)
  PROVE  s \in Streams /\ hostOf[s] = h
BY StreamForType DEF StreamFor, EntryOK, TypeInv

LEMMA ConnectedHost ==
  ASSUME HostInv, PeersDistinct, NEW s \in Streams, Connected(s)
  PROVE  EntryOK' /\ FreshOK' /\ OneStreamPerHost' /\ RightHost'
<1> DEFINE q == PeerOf[connecting]
<1>1. /\ connecting \in Hosts /\ q \in Peers /\ ~Listed(q)
      /\ link[s] = "none" /\ hostOf[s] = None
  BY PeersAreAddresses DEF Connected, HostInv, TypeInv, TypeOK, FreshOK, StreamOK
<1>2. /\ hostOf' = [hostOf EXCEPT ![s] = connecting]
      /\ remoteList' = [remoteList EXCEPT ![q] = [host |-> connecting, stream |-> s]]
      /\ connecting' = None /\ handed' = handed
  BY <1>1 DEF Connected
<1>3. /\ hostOf'[s] = connecting
      /\ \A t \in Streams : t # s => hostOf'[t] = hostOf[t]
      /\ remoteList'[q] = [host |-> connecting, stream |-> s]
      /\ \A p \in Peers : p # q => remoteList'[p] = remoteList[p]
  BY <1>1, <1>2 DEF HostInv, TypeInv, TypeOK
<1>4. \A t \in Streams : hostOf[t] # connecting
  BY <1>1, NoneIsNew DEF HostInv, TypeInv, StreamOK
<1>5. EntryOK'
  <2>1. ASSUME NEW p \in Peers, p # q, Listed(p)
        PROVE  remoteList[p].stream # s /\ remoteList[p].stream \in Streams
    <3>1. remoteList[p].host \in Hosts /\ remoteList[p].stream \in Streams
      BY <2>1 DEF HostInv, TypeInv, TypeOK, Listed, Server
    <3> QED BY <1>1, <2>1, <3>1, NoneIsNew DEF HostInv, EntryOK
  <2> QED BY <1>3, <2>1 DEF HostInv, EntryOK, Listed
<1>6. FreshOK'
  BY <1>2 DEF FreshOK
<1>7. OneStreamPerHost'
  BY <1>3, <1>4 DEF HostInv, OneStreamPerHost
<1>8. RightHost'
  <2>1. ASSUME NEW i \in DOMAIN handed[s] PROVE FALSE
    <3>1. handed[s][i] \in Message
      BY DEF HostInv, TypeInv, TypeOK
    <3>2. handed[s][i].host \in Hosts
      BY <3>1 DEF Message
    <3> QED BY <1>1, <3>2, NoneIsNew DEF HostInv, RightHost
  <2> QED BY <1>2, <1>3, <2>1 DEF HostInv, RightHost
<1> QED BY <1>5, <1>6, <1>7, <1>8

LEMMA SecureHost ==
  ASSUME HostInv, PeersDistinct, NEW s \in Streams, Secure(s)
  PROVE  EntryOK' /\ FreshOK'
<1> DEFINE q == PeerOf[hostOf[s]]
<1>1. /\ hostOf[s] \in Hosts /\ q \in Peers /\ Listed(q) /\ remoteList[q] \in Server
  BY PeersAreAddresses DEF Secure, HostInv, TypeInv, StreamOK, Listed, TypeOK
<1>2. remoteList[q].host = hostOf[s]
  <2>1. remoteList[q].host \in Hosts
    BY <1>1 DEF Server
  <2> QED BY <1>1, <2>1 DEF HostInv, EntryOK, PeersDistinct
<1>3. /\ remoteList' = [remoteList EXCEPT ![q] = [remoteList[q] EXCEPT !.stream = s]]
      /\ hostOf' = hostOf /\ connecting' = connecting
  BY <1>1 DEF Secure, HostInv, TypeInv, TypeOK, taskVars
<1>4. /\ [remoteList[q] EXCEPT !.stream = s].host = hostOf[s]
      /\ [remoteList[q] EXCEPT !.stream = s].stream = s
  BY <1>1, <1>2 DEF Server
<1>5. /\ remoteList'[q].host = hostOf[s] /\ remoteList'[q].stream = s
      /\ \A p \in Peers : p # q => remoteList'[p] = remoteList[p]
  BY <1>1, <1>3, <1>4 DEF HostInv, TypeInv, TypeOK
<1>6. EntryOK'
  BY <1>1, <1>3, <1>5 DEF HostInv, EntryOK, Listed
<1>7. FreshOK'
  <2>1. connecting # None => PeerOf[connecting] # q /\ PeerOf[connecting] \in Peers
    BY <1>1, PeersAreAddresses DEF HostInv, FreshOK, TypeInv, TypeOK
  <2> QED BY <1>3, <1>5, <2>1 DEF HostInv, FreshOK, Listed
<1> QED BY <1>6, <1>7

\* Stanzas for h are only written to streams of h.
LEMMA HandOverHost ==
  ASSUME HostInv, NEW h \in Hosts, NEW ms \in Seq(Message),
         \A i \in DOMAIN ms : ms[i].host = h,
         HandOver(StreamFor(h), ms), hostOf' = hostOf
  PROVE  RightHost'
<1>1. PICK s \in StreamFor(h) : handed' = [handed EXCEPT ![s] = @ \o ms]
  BY DEF HandOver
<1>2. s \in Streams /\ hostOf[s] = h
  BY StreamOfHost DEF HostInv
<1>3. handed[s] \in Seq(Message) /\ handed'[s] = handed[s] \o ms
  BY <1>1, <1>2 DEF HostInv, TypeInv, TypeOK
<1>4. \A t \in Streams : t # s => handed'[t] = handed[t]
  BY <1>1, <1>2 DEF HostInv, TypeInv, TypeOK
<1>5. ASSUME NEW i \in DOMAIN handed'[s] PROVE handed'[s][i].host = h
  <2>1. i \in DOMAIN handed[s] \/ i - Len(handed[s]) \in DOMAIN ms
    BY <1>3
  <2>2. CASE i \in DOMAIN handed[s]
    <3>1. handed'[s][i] = handed[s][i]
      BY <1>3, <2>2
    <3> QED BY <1>2, <2>2, <3>1 DEF HostInv, RightHost
  <2>3. CASE i - Len(handed[s]) \in DOMAIN ms
    <3>1. handed'[s][i] = ms[i - Len(handed[s])]
      BY <1>3, <2>3
    <3> QED BY <2>3, <3>1
  <2> QED BY <2>1, <2>2, <2>3
<1> QED BY <1>2, <1>4, <1>5 DEF HostInv, RightHost

LEMMA SendMessageHost ==
  ASSUME HostInv, NEW m \in Message, SendMessage(m)
  PROVE  RightHost'
<1>1. hostOf' = hostOf /\ m.host \in Hosts
  BY DEF SendMessage, streamVars, Message
<1>2. CASE StreamFor(m.host) # {}
  <2>1. <<m>> \in Seq(Message) /\ \A i \in DOMAIN <<m>> : <<m>>[i].host = m.host
    OBVIOUS
  <2>2. HandOver(StreamFor(m.host), <<m>>)
    BY <1>2 DEF SendMessage
  <2> QED BY <1>1, <2>1, <2>2, HandOverHost
<1>3. CASE StreamFor(m.host) = {}
  BY <1>1, <1>3 DEF SendMessage, HostInv, RightHost
<1> QED BY <1>2, <1>3

LEMMA WorkerNewHost ==
  ASSUME HostInv, NEW taken \in BOOLEAN, WorkerNew(taken)
  PROVE  StoreOK' /\ RightHost'
<1> DEFINE h == Head(conQ).host
<1>1. hostOf' = hostOf
  BY DEF WorkerNew, streamVars
<1>2. CASE h = None \/ pending[h] = <<>>
  <2>1. handed' = handed /\ pending' = pending
    BY <1>2 DEF WorkerNew
  <2> QED BY <1>1, <2>1 DEF HostInv, StoreOK, RightHost
<1>3. CASE ~(h = None \/ pending[h] = <<>>)
  <2>1. h \in Hosts
    BY <1>3, AnnouncedHost DEF HostInv, TypeInv, TypeOK, QueueTypes
  <2>2. /\ HandOver(StreamFor(h), Reverse(pending[h]))
        /\ pending' = [pending EXCEPT ![h] = <<>>]
    BY <1>3 DEF WorkerNew
  <2>3. pending[h] \in Seq(Message)
    BY <2>1 DEF HostInv, TypeInv, TypeOK
  <2>4. /\ Reverse(pending[h]) \in Seq(Message)
        /\ \A i \in DOMAIN Reverse(pending[h]) : Reverse(pending[h])[i].host = h
    BY <2>1, <2>3, ReverseElements DEF HostInv, StoreOK
  <2>5. RightHost'
    BY <1>1, <2>1, <2>2, <2>4, HandOverHost
  <2>6. StoreOK'
    BY <2>1, <2>2 DEF HostInv, StoreOK, TypeInv, TypeOK
  <2> QED BY <2>5, <2>6
<1> QED BY <1>2, <1>3

LEMMA WorkerMessageHost ==
  ASSUME HostInv, NEW taken \in BOOLEAN, WorkerMessage(taken)
  PROVE  StoreOK'
<1> DEFINE m == Head(msgQ)
<1>1. m \in Message
  BY ServedIsMessage DEF HostInv
<1>2. m.host \in Hosts
  BY <1>1 DEF Message
<1>3. pending' = [pending EXCEPT ![m.host] = Append(@, m)]
  BY DEF WorkerMessage
<1>4. /\ pending[m.host] \in Seq(Message)
      /\ pending'[m.host] = Append(pending[m.host], m)
      /\ \A h \in Hosts : h # m.host => pending'[h] = pending[h]
  BY <1>2, <1>3 DEF HostInv, TypeInv, TypeOK
<1>5. ASSUME NEW i \in DOMAIN pending'[m.host] PROVE pending'[m.host][i].host = m.host
  <2>1. CASE i \in DOMAIN pending[m.host]
    <3>1. pending'[m.host][i] = pending[m.host][i]
      BY <1>4, <2>1
    <3> QED BY <1>2, <2>1, <3>1 DEF HostInv, StoreOK
  <2>2. CASE i \notin DOMAIN pending[m.host]
    <3>1. pending'[m.host][i] = m
      BY <1>1, <1>4, <2>2
    <3> QED BY <3>1
  <2> QED BY <2>1, <2>2
<1> QED BY <1>2, <1>4, <1>5 DEF HostInv, StoreOK

LEMMA ConnectHost ==
  ASSUME HostInv, PeersDistinct, Connect
  PROVE  FreshOK'
<1>1. Head(serverQ) \in Hosts
  BY SeqTypes DEF Connect, HostInv, TypeInv, TypeOK
<1>2. /\ remoteList' = remoteList
      /\ connecting' = IF StreamFor(Head(serverQ)) = {} THEN Head(serverQ) ELSE None
  BY DEF Connect, streamVars
<1>3. StreamFor(Head(serverQ)) = {} => ~Listed(PeerOf[Head(serverQ)])
  BY <1>1, ListedHost DEF HostInv
<1> QED BY <1>2, <1>3 DEF FreshOK, Listed

LEMMA InitHost == Init => HostInv
<1> SUFFICES ASSUME Init PROVE HostInv OBVIOUS
<1>1. EntryOK /\ FreshOK /\ StoreOK /\ OneStreamPerHost /\ RightHost
  BY DEF Init, EntryOK, FreshOK, StoreOK, OneStreamPerHost, RightHost, Listed
<1> QED BY <1>1, InitType DEF HostInv

LEMMA StepHost == PeersDistinct /\ HostInv /\ [Next]_vars => HostInv'
<1> SUFFICES ASSUME PeersDistinct, HostInv, [Next]_vars PROVE HostInv' OBVIOUS
<1> DEFINE Rest == EntryOK /\ FreshOK /\ StoreOK /\ OneStreamPerHost /\ RightHost
<1>1. Rest
  BY DEF HostInv
<1>2. ASSUME UNCHANGED <<remoteList, hostOf>> PROVE EntryOK' /\ OneStreamPerHost'
  BY <1>1, <1>2 DEF EntryOK, OneStreamPerHost, Listed
<1>3. ASSUME remoteList' = remoteList, connecting' = connecting \/ connecting' = None
      PROVE  FreshOK'
  BY <1>1, <1>3 DEF FreshOK, Listed
<1>4. ASSUME pending' = pending PROVE StoreOK'
  BY <1>1, <1>4 DEF StoreOK
<1>5. ASSUME UNCHANGED <<handed, hostOf>> PROVE RightHost'
  BY <1>1, <1>5 DEF RightHost
<1>6. ASSUME NEW m \in Message, SendMessage(m) PROVE Rest'
  <2>1. UNCHANGED <<remoteList, hostOf, connecting, pending>>
    BY <1>6 DEF SendMessage, streamVars, taskVars
  <2> QED BY <1>2, <1>3, <1>4, <1>6, <2>1, SendMessageHost
<1>7. ASSUME Connect PROVE Rest'
  <2>1. UNCHANGED <<remoteList, hostOf, pending, handed>>
    BY <1>7 DEF Connect, streamVars, queueVars
  <2> QED BY <1>2, <1>4, <1>5, <1>7, <2>1, ConnectHost
<1>8. ASSUME NEW s \in Streams, Connected(s) PROVE Rest'
  <2>1. pending' = pending
    BY <1>8 DEF Connected, queueVars
  <2> QED BY <1>4, <1>8, <2>1, ConnectedHost
<1>9. ASSUME NEW s \in Streams, Secure(s) PROVE Rest'
  <2>1. UNCHANGED <<hostOf, pending, handed>>
    BY <1>9 DEF Secure, queueVars
  <2>2. OneStreamPerHost'
    BY <1>1, <2>1 DEF OneStreamPerHost
  <2> QED BY <1>4, <1>5, <1>9, <2>1, <2>2, SecureHost
<1>10. ASSUME UNCHANGED <<remoteList, hostOf, pending, handed>>,
              connecting' = connecting \/ connecting' = None
       PROVE  Rest'
  BY <1>2, <1>3, <1>4, <1>5, <1>10
<1>11. ASSUME Refused \/ Unreachable \/ UNCHANGED vars PROVE Rest'
  <2>1. /\ UNCHANGED <<remoteList, hostOf, pending, handed>>
        /\ connecting' = connecting \/ connecting' = None
    BY <1>11 DEF Refused, Unreachable, vars, streamVars, taskVars, queueVars
  <2> QED BY <1>10, <2>1
<1>12. ASSUME NEW s \in Streams, SecureFails(s) \/ Answer(s) \/ Ready(s) \/ StreamLost(s)
       PROVE  Rest'
  <2>1. UNCHANGED <<remoteList, hostOf, pending, handed, connecting>>
    BY <1>12 DEF SecureFails, Answer, Ready, StreamLost, taskVars, queueVars
  <2> QED BY <1>10, <2>1
<1>13. ASSUME NEW taken \in BOOLEAN, WorkerNew(taken) PROVE Rest'
  <2>1. UNCHANGED <<remoteList, hostOf, connecting>>
    BY <1>13 DEF WorkerNew, streamVars, taskVars
  <2> QED BY <1>2, <1>3, <1>13, <2>1, WorkerNewHost
<1>14. ASSUME NEW taken \in BOOLEAN, WorkerFailed(taken) PROVE Rest'
  <2>1. UNCHANGED <<remoteList, hostOf, pending, handed, connecting>>
    BY <1>14 DEF WorkerFailed, streamVars
  <2> QED BY <1>10, <2>1
<1>15. ASSUME NEW taken \in BOOLEAN, WorkerMessage(taken) PROVE Rest'
  <2>1. UNCHANGED <<remoteList, hostOf, handed, connecting>>
    BY <1>15 DEF WorkerMessage, streamVars
  <2> QED BY <1>2, <1>3, <1>5, <1>15, <2>1, WorkerMessageHost
<1>16. ASSUME WorkerLocal PROVE Rest'
  <2>1. UNCHANGED <<remoteList, hostOf, pending, handed, connecting>>
    BY <1>16 DEF WorkerLocal, streamVars, taskVars
  <2> QED BY <1>10, <2>1
<1> HIDE DEF Rest
<1>17. Rest'
  BY <1>6, <1>7, <1>8, <1>9, <1>11, <1>12, <1>13, <1>14, <1>15, <1>16 DEF Next, Network, Worker
<1> USE DEF Rest
<1> QED BY <1>17, StepType DEF HostInv

\* With hosts on addresses of their own, everything that is written to a stream
\* is for the host the stream was opened for (handle_msg, queue_worker,
\* update_transport_server).
THEOREM StanzasReachTheirHost ==
  ASSUME PeersDistinct
  PROVE  Spec => []RightHost
<1>1. HostInv => RightHost
  BY DEF HostInv
<1>2. HostInv /\ [Next]_vars => HostInv'
  BY StepHost
<1> QED BY <1>1, <1>2, InitHost, PTL DEF Spec

\* With hosts on addresses of their own, no host is ever connected a second
\* time (server_connection_worker).
THEOREM ConnectedOnce ==
  ASSUME PeersDistinct
  PROVE  Spec => []OneStreamPerHost
<1>1. HostInv => OneStreamPerHost
  BY DEF HostInv
<1>2. HostInv /\ [Next]_vars => HostInv'
  BY StepHost
<1> QED BY <1>1, <1>2, InitHost, PTL DEF Spec

-----------------------------------------------------------------------------
(* A host that is queued or being connected stays so until a stream is listed *)
(* for it or a failure is on its way to the worker.                          *)
Queued(h) == \E i \in DOMAIN serverQ : serverQ[i] = h
Attended(h) == \/ connecting = h
               \/ StreamFor(h) # {}
               \/ serverTask = "running" /\ Queued(h)
               \/ FailureQueued

\* server_connection_worker does not end without a report, and the report does
\* not get lost while the server goes on.
EndedReported == process = "up" /\ serverTask = "ended" => FailureQueued

LEMMA AppendKeeps ==
  ASSUME NEW S, NEW q \in Seq(S), NEW e \in S
  PROVE  /\ \A i \in DOMAIN q : i \in DOMAIN Append(q, e) /\ Append(q, e)[i] = q[i]
         /\ Len(q) + 1 \in DOMAIN Append(q, e) /\ Append(q, e)[Len(q) + 1] = e
OBVIOUS

LEMMA TailKeeps ==
  ASSUME NEW S, NEW q \in Seq(S), q # <<>>, NEW e, e # Head(q),
         \E i \in DOMAIN q : q[i] = e
  PROVE  \E i \in DOMAIN Tail(q) : Tail(q)[i] = e
<1>1. PICK i \in DOMAIN q : q[i] = e
  OBVIOUS
<1>2. i - 1 \in DOMAIN Tail(q) /\ Tail(q)[i - 1] = q[i]
  BY <1>1
<1> QED BY <1>1, <1>2

LEMMA FailureHas ==
  ASSUME NEW q, q \in Seq(Event) \/ q \in Seq(Item)
  PROVE  (\E i \in DOMAIN q : q[i].kind = "failed") <=> Has(q, Failure)
<1>1. \A i \in DOMAIN q : q[i] \in Event \/ q[i] \in Item
  OBVIOUS
<1>2. \A x : x \in Event \/ x \in Item => (x.kind = "failed" <=> x \in Failure)
  BY DEF Event, Item, Message, Failure
<1> QED BY <1>1, <1>2 DEF Has

\* A failure that is queued stays queued until the worker serves it.
LEMMA FailureStays ==
  ASSUME TypeInv, [Next]_vars, process' = "up", FailureQueued
  PROVE  FailureQueued'
<1>0. conQ \in Seq(Event) /\ msgQ \in Seq(Item) /\ QueueTypes
  BY DEF TypeInv, TypeOK, QueueTypes
<1>1. Has(conQ, Failure) \/ Has(msgQ, Failure)
  BY <1>0, FailureHas DEF FailureQueued
<1>2. ASSUME UNCHANGED <<conQ, msgQ>> PROVE FailureQueued'
  BY <1>2 DEF FailureQueued
<1>3. ASSUME NEW m \in Message, SendMessage(m) PROVE FailureQueued'
  <2>1. conQ' = conQ /\ (msgQ' = msgQ \/ msgQ' = Append(msgQ, m)) /\ m \in Item
    BY <1>3 DEF SendMessage, Item
  <2>2. \A i \in DOMAIN msgQ : i \in DOMAIN msgQ' /\ msgQ'[i] = msgQ[i]
    BY <1>0, <2>1
  <2> QED BY <2>1, <2>2 DEF FailureQueued
<1>4. ASSUME Refused \/ \E s \in Streams : Ready(s) PROVE FailureQueued'
  <2>1. msgQ' = msgQ /\ \E e : conQ' = Append(conQ, e)
    BY <1>4 DEF Refused, Ready
  <2>2. \A i \in DOMAIN conQ : i \in DOMAIN conQ' /\ conQ'[i] = conQ[i]
    BY <1>0, <2>1
  <2> QED BY <2>1, <2>2 DEF FailureQueued
<1>5. ASSUME NEW taken \in BOOLEAN,
             \/ FromConnections(taken) /\ Head(conQ).kind # "failed"
             \/ FromMessages(taken) /\ Head(msgQ).kind # "failed"
             \/ WorkerLocal
      PROVE  FailureQueued'
  <2>1. \A x \in Failure : x.kind = "failed"
    BY DEF Failure
  <2>2. Has(conQ', Failure) \/ Has(msgQ', Failure)
    BY <1>0, <1>1, <1>5, <2>1, WorkerKeeps
  <2>3. conQ' \in Seq(Event) /\ msgQ' \in Seq(Item)
    BY <1>0, <1>5, WorkerQueues DEF QueueTypes
  <2> QED BY <2>2, <2>3, FailureHas DEF FailureQueued
<1>6. ASSUME NEW taken \in BOOLEAN, WorkerNew(taken) \/ WorkerMessage(taken)
      PROVE  FailureQueued'
  BY <1>5, <1>6 DEF WorkerNew, WorkerMessage
<1>7. ASSUME WorkerLocal PROVE FailureQueued'
  <2>1. TRUE \in BOOLEAN
    OBVIOUS
  <2> QED BY <1>5, <1>7, <2>1
<1>8. ASSUME NEW s \in Streams,
             Connected(s) \/ Secure(s) \/ SecureFails(s) \/ Answer(s) \/ StreamLost(s)
      PROVE  UNCHANGED <<conQ, msgQ>>
  BY <1>8 DEF Connected, Secure, SecureFails, Answer, StreamLost, queueVars
<1>9. ASSUME Connect \/ UNCHANGED vars PROVE UNCHANGED <<conQ, msgQ>>
  BY <1>9 DEF Connect, vars, queueVars
<1>10. ~Unreachable /\ \A taken \in BOOLEAN : ~WorkerFailed(taken)
  BY DEF Unreachable, WorkerFailed
<1> QED BY <1>2, <1>3, <1>4, <1>6, <1>7, <1>8, <1>9, <1>10 DEF Next, Network, Worker

LEMMA RefusedReports ==
  ASSUME TypeInv, Refused
  PROVE  FailureQueued'
<1> DEFINE e == [kind |-> "failed", host |-> connecting]
<1>1. conQ \in Seq(Event) /\ conQ' = Append(conQ, e) /\ e \in Event
  BY DEF Refused, TypeInv, TypeOK, Event, Failure
<1>2. Len(conQ) + 1 \in DOMAIN conQ' /\ conQ'[Len(conQ) + 1] = e
  BY <1>1, AppendKeeps
<1> QED BY <1>2 DEF FailureQueued

\* What a step may do to a host that is attended to.
LEMMA AttendedStays ==
  ASSUME HostInv, PeersDistinct, [Next]_vars, process' = "up",
         NEW h \in Hosts, Attended(h)
  PROVE  Attended(h)'
<1>1. TypeInv /\ conQ \in Seq(Event) /\ serverQ \in Seq(Hosts)
  BY DEF HostInv, TypeInv, TypeOK
<1>2. CASE StreamFor(h) # {}
  BY <1>1, <1>2, HostStays DEF Attended
<1>3. CASE FailureQueued
  BY <1>1, <1>3, FailureStays DEF Attended
<1>4. SUFFICES ASSUME connecting = h \/ (serverTask = "running" /\ Queued(h))
               PROVE  Attended(h)'
  BY <1>2, <1>3 DEF Attended
<1>5. ASSUME UNCHANGED <<connecting, serverQ, serverTask>> PROVE Attended(h)'
  BY <1>4, <1>5 DEF Attended, Queued
<1>6. ASSUME Connect, StreamFor(h) = {} PROVE Attended(h)'
  <2>1. /\ serverQ # <<>> /\ connecting = None
        /\ serverQ' = Tail(serverQ) /\ serverTask' = serverTask
        /\ connecting' = IF StreamFor(Head(serverQ)) = {} THEN Head(serverQ) ELSE None
    BY <1>6 DEF Connect, ServerTaskIdle
  <2>2. serverTask = "running" /\ Queued(h)
    BY <1>4, <2>1, NoneIsNew
  <2>3. CASE Head(serverQ) = h
    BY <1>6, <2>1, <2>3 DEF Attended
  <2>4. CASE Head(serverQ) # h
    BY <1>1, <2>1, <2>2, <2>4, TailKeeps DEF Attended, Queued
  <2> QED BY <2>3, <2>4
<1>7. ASSUME NEW s \in Streams, Connected(s), StreamFor(h) = {} PROVE Attended(h)'
  <2>1. serverQ' = serverQ /\ serverTask' = serverTask /\ connecting \in Hosts
    BY <1>1, <1>7 DEF Connected, TypeInv, TypeOK
  <2>2. CASE connecting = h
    <3>1. PeerOf[h] \in Peers /\ ~Listed(PeerOf[h])
      BY <1>7, PeersAreAddresses, ListedHost DEF HostInv
    <3>2. remoteList'[PeerOf[h]] = [host |-> h, stream |-> s]
      BY <1>1, <1>7, <2>2, <3>1 DEF Connected, TypeInv, TypeOK
    <3>3. [host |-> h, stream |-> s] # None
      BY NoneIsNew
    <3>4. s \in StreamFor(h)'
      BY <3>1, <3>2, <3>3 DEF StreamFor, Listed
    <3> QED BY <3>4 DEF Attended
  <2>3. CASE connecting # h
    BY <1>4, <2>1, <2>3 DEF Attended, Queued
  <2> QED BY <2>2, <2>3
<1>8. ASSUME Refused PROVE Attended(h)'
  BY <1>1, <1>8, RefusedReports DEF Attended
<1>9. ASSUME NEW taken \in BOOLEAN, WorkerMessage(taken) PROVE Attended(h)'
  <2> DEFINE m == Head(msgQ)
  <2>1. /\ connecting' = connecting /\ serverTask' = serverTask
        /\ serverQ' = serverQ \/ serverQ' = Append(serverQ, m.host)
    BY <1>9 DEF WorkerMessage
  <2>2. m.host \in Hosts
    <3>1. m \in Message
      BY <1>1, <1>9, ServedIsMessage
    <3> QED BY <3>1 DEF Message
  <2>3. CASE Queued(h)
    <3>1. \A i \in DOMAIN serverQ : i \in DOMAIN serverQ' /\ serverQ'[i] = serverQ[i]
      BY <1>1, <2>1, <2>2, AppendKeeps
    <3>2. Queued(h)'
      BY <2>3, <3>1 DEF Queued
    <3> QED BY <1>4, <2>1, <3>2 DEF Attended
  <2> QED BY <1>4, <2>1, <2>3 DEF Attended
<1>10. ASSUME NEW s \in Streams,
              Secure(s) \/ SecureFails(s) \/ Answer(s) \/ Ready(s) \/ StreamLost(s)
       PROVE  UNCHANGED <<connecting, serverQ, serverTask>>
  BY <1>10 DEF Secure, SecureFails, Answer, Ready, StreamLost, taskVars
<1>11. ASSUME NEW m \in Message, SendMessage(m)
       PROVE  UNCHANGED <<connecting, serverQ, serverTask>>
  BY <1>11 DEF SendMessage, taskVars
<1>12. ASSUME NEW taken \in BOOLEAN, WorkerNew(taken) \/ WorkerLocal \/ UNCHANGED vars
       PROVE  UNCHANGED <<connecting, serverQ, serverTask>>
  BY <1>12 DEF WorkerNew, WorkerLocal, vars, taskVars
<1>13. ~Unreachable /\ \A taken \in BOOLEAN : ~WorkerFailed(taken)
  BY DEF Unreachable, WorkerFailed
<1> HIDE DEF Attended
<1> QED BY <1>2, <1>5, <1>6, <1>7, <1>8, <1>9, <1>10, <1>11, <1>12, <1>13
        DEF Next, Network, Worker

ConnectsInv == HostInv /\ EndedReported /\ SomeoneConnects

LEMMA StepConnects == PeersDistinct /\ ConnectsInv /\ [Next]_vars => ConnectsInv'
<1> SUFFICES ASSUME PeersDistinct, ConnectsInv, [Next]_vars PROVE ConnectsInv' OBVIOUS
<1>1. HostInv /\ TypeInv
  BY DEF ConnectsInv, HostInv
<1>2. \A h \in Hosts : process = "up" /\ pending[h] # <<>> => Attended(h)
  BY DEF ConnectsInv, SomeoneConnects, Attended, Queued
<1>3. process' = "up" => process = "up"
  BY <1>1 DEF TypeInv, TypeOK, Next, Network, Worker, vars, taskVars, SendMessage, Connect,
     Connected, Refused, Unreachable, Secure, SecureFails, Answer, Ready, StreamLost,
     WorkerNew, WorkerFailed, WorkerMessage, WorkerLocal
<1>4. ASSUME NEW h \in Hosts, process' = "up", pending'[h] # <<>>, pending[h] = <<>>
      PROVE  Queued(h)'
  <2>1. PICK taken \in BOOLEAN : WorkerMessage(taken)
    <3>1. ASSUME NEW taken \in BOOLEAN, WorkerNew(taken) PROVE pending'[h] = <<>>
      BY <1>1, <1>4, <3>1 DEF WorkerNew, TypeInv, TypeOK
    <3>2. ASSUME pending' = pending PROVE FALSE
      BY <1>4, <3>2
    <3>3. ASSUME NEW s \in Streams, Connected(s) \/ Secure(s) \/ SecureFails(s)
                   \/ Answer(s) \/ Ready(s) \/ StreamLost(s)
          PROVE  pending' = pending
      BY <3>3 DEF Connected, Secure, SecureFails, Answer, Ready, StreamLost, queueVars
    <3>4. ASSUME NEW m \in Message, SendMessage(m) PROVE pending' = pending
      BY <3>4 DEF SendMessage
    <3>5. ASSUME NEW taken \in BOOLEAN, WorkerFailed(taken) \/ WorkerLocal
          PROVE  pending' = pending
      BY <3>5 DEF WorkerFailed, WorkerLocal
    <3>6. ASSUME Connect \/ Refused \/ Unreachable \/ UNCHANGED vars PROVE pending' = pending
      BY <3>6 DEF Connect, Refused, Unreachable, vars, queueVars
    <3> QED BY <1>4, <3>1, <3>2, <3>3, <3>4, <3>5, <3>6 DEF Next, Network, Worker
  <2> DEFINE m == Head(msgQ)
  <2>2. m \in Message
    BY <1>1, <2>1, ServedIsMessage
  <2>3. m.host \in Hosts
    BY <2>2 DEF Message
  <2>4. /\ pending' = [pending EXCEPT ![m.host] = Append(@, m)]
        /\ serverQ' = IF pending[m.host] = <<>> THEN Append(serverQ, m.host) ELSE serverQ
    BY <2>1 DEF WorkerMessage
  <2>5. h = m.host
    BY <1>1, <1>4, <2>3, <2>4 DEF TypeInv, TypeOK
  <2>6. serverQ' = Append(serverQ, h) /\ serverQ \in Seq(Hosts)
    BY <1>1, <1>4, <2>4, <2>5 DEF TypeInv, TypeOK
  <2> QED BY <2>6, AppendKeeps DEF Queued
<1>5. EndedReported'
  <2> SUFFICES ASSUME process' = "up", serverTask' = "ended" PROVE FailureQueued'
    BY DEF EndedReported
  <2>1. CASE serverTask = "ended"
    <3>1. FailureQueued
      BY <1>3, <2>1 DEF ConnectsInv, EndedReported
    <3> QED BY <1>1, <3>1, FailureStays
  <2>2. CASE serverTask # "ended"
    <3>1. Refused
      BY <2>2 DEF Next, Network, Worker, vars, taskVars, SendMessage, Connect, Connected,
         Refused, Unreachable, Secure, SecureFails, Answer, Ready, StreamLost, WorkerNew,
         WorkerFailed, WorkerMessage, WorkerLocal
    <3> QED BY <1>1, <3>1, RefusedReports
  <2> QED BY <2>1, <2>2
<1>6. ASSUME NEW h \in Hosts, process' = "up", pending'[h] # <<>>
      PROVE  Attended(h)'
  <2>1. CASE pending[h] = <<>>
    <3>1. Queued(h)' /\ serverTask' \in {"running", "ended"}
      BY <1>1, <1>4, <1>6, <2>1, StepType DEF TypeInv, TypeOK
    <3> QED BY <1>5, <1>6, <3>1 DEF Attended, EndedReported
  <2>2. CASE pending[h] # <<>>
    BY <1>1, <1>2, <1>3, <1>6, <2>2, AttendedStays
  <2> QED BY <2>1, <2>2
<1>7. SomeoneConnects'
  BY <1>6 DEF SomeoneConnects, Attended, Queued
<1>8. HostInv'
  BY <1>1, StepHost
<1> QED BY <1>5, <1>7, <1>8 DEF ConnectsInv

\* With hosts on addresses of their own, the server never goes on with stanzas
\* kept for a host that is not connected, listed or queued for a task that still
\* runs: once server_connection_worker has ended, a failure is in one of the
\* queues of queue_worker, wherever it was put back.
THEOREM KeptStanzasAreAttended ==
  ASSUME PeersDistinct
  PROVE  Spec => []SomeoneConnects
<1>1. Init => ConnectsInv
  BY InitHost DEF Init, ConnectsInv, SomeoneConnects, EndedReported
<1>2. ConnectsInv => SomeoneConnects
  BY DEF ConnectsInv
<1>3. ConnectsInv /\ [Next]_vars => ConnectsInv'
  BY StepConnects
<1> QED BY <1>1, <1>2, <1>3, PTL DEF Spec

-----------------------------------------------------------------------------
(* Every message that was sent is in one of the queue, the lists of the store *)
(* and the streams, and there once.  What was not sent is nowhere.            *)
Copies(id) == {m \in Message : m.id = id}

InQueue(id) == Has(msgQ, Copies(id))
InList(id, h) == Has(pending[h], Copies(id))
InStream(id, s) == Has(handed[s], Copies(id))

SinglePlace(id) ==
  /\ InQueue(id) => /\ \A h \in Hosts : ~InList(id, h)
                    /\ \A s \in Streams : ~InStream(id, s)
  /\ \A h \in Hosts, s \in Streams : ~(InList(id, h) /\ InStream(id, s))
  /\ \A g, h \in Hosts : InList(id, g) /\ InList(id, h) => g = h
  /\ \A s, t \in Streams : InStream(id, s) /\ InStream(id, t) => s = t

SingleCopy(id) ==
  /\ Single(msgQ, Copies(id))
  /\ \A h \in Hosts : Single(pending[h], Copies(id))
  /\ \A s \in Streams : Single(handed[s], Copies(id))

Somewhere(id) == \/ InQueue(id)
                 \/ \E h \in Hosts : InList(id, h)
                 \/ \E s \in Streams : InStream(id, s)

IsSent(id) == \E m \in sent : m.id = id

PlaceOK(id) == SinglePlace(id) /\ SingleCopy(id) /\ (Somewhere(id) <=> IsSent(id))

PlaceInv == TypeInv /\ \A id \in MsgIds : PlaceOK(id)

LEMMA PlaceInvTypes ==
  ASSUME PlaceInv
  PROVE  /\ msgQ \in Seq(Item) /\ conQ \in Seq(Event) /\ sent \subseteq Message
         /\ QueueTypes
         /\ pending \in [Hosts -> Seq(Message)]
         /\ handed \in [Streams -> Seq(Message)]
BY DEF PlaceInv, TypeInv, TypeOK, QueueTypes

\* A step that gives every list the messages it had.
LEMMA PlaceSame ==
  ASSUME NEW id \in MsgIds, PlaceOK(id), sent' = sent,
         InQueue(id)' <=> InQueue(id),
         Single(msgQ, Copies(id)) => Single(msgQ', Copies(id)),
         UNCHANGED <<pending, handed>>
  PROVE  PlaceOK(id)'
BY DEF PlaceOK, SinglePlace, SingleCopy, Somewhere, IsSent, InQueue, InList, InStream,
       Copies, Message

\* handle_msg queues the message or hands it to one stream.
LEMMA SendMessagePlace ==
  ASSUME PlaceInv, NEW m \in Message, SendMessage(m), NEW id \in MsgIds
  PROVE  PlaceOK(id)'
<1> DEFINE C == Copies(id)
<1>1. /\ PlaceOK(id) /\ UNCHANGED pending /\ C' = C
      /\ sent' = sent \cup {m} /\ \A n \in sent : n.id # m.id
  BY DEF PlaceInv, SendMessage, Copies, Message
<1>2. m \in C <=> m.id = id
  BY DEF Copies
<1>3. IsSent(id)' <=> IsSent(id) \/ m \in C
  BY <1>1, <1>2 DEF IsSent
<1>4. m \in C => ~Somewhere(id)
  BY <1>1, <1>2 DEF PlaceOK, IsSent
<1> HIDE DEF C
<1>5. CASE msgQ' = Append(msgQ, m) /\ UNCHANGED handed
  <2>1. /\ Has(msgQ', C) <=> Has(msgQ, C) \/ m \in C
        /\ Single(msgQ, C) /\ (m \in C => ~Has(msgQ, C)) => Single(msgQ', C)
    <3>1. m \in Item /\ msgQ \in Seq(Item) /\ msgQ' = Append(msgQ, m)
      BY <1>5, PlaceInvTypes DEF Item
    <3> QED BY <3>1, AppendHas
  <2> QED
    BY <1>1, <1>3, <1>4, <1>5, <2>1
       DEF PlaceOK, SinglePlace, SingleCopy, Somewhere, InQueue, InList, InStream, C
<1>6. CASE HandOver(StreamFor(m.host), <<m>>) /\ UNCHANGED msgQ
  <2>1. PICK s \in Streams : handed' = [handed EXCEPT ![s] = @ \o <<m>>]
    BY <1>6, StreamForType DEF HandOver, PlaceInv, TypeInv
  <2>2. handed'[s] = Append(handed[s], m) /\ \A t \in Streams : t # s => handed'[t] = handed[t]
    BY <2>1, PlaceInvTypes
  <2>3. /\ Has(handed'[s], C) <=> Has(handed[s], C) \/ m \in C
        /\ Single(handed[s], C) /\ (m \in C => ~Has(handed[s], C)) => Single(handed'[s], C)
    BY <2>2, AppendHas, PlaceInvTypes
  <2> QED
    BY <1>1, <1>3, <1>4, <1>6, <2>2, <2>3
       DEF PlaceOK, SinglePlace, SingleCopy, Somewhere, InQueue, InList, InStream, C
<1> QED BY <1>5, <1>6 DEF SendMessage

\* The flush moves the list of a host to one stream, whole.
LEMMA WorkerNewPlace ==
  ASSUME PlaceInv, NEW taken \in BOOLEAN, WorkerNew(taken), NEW id \in MsgIds
  PROVE  PlaceOK(id)'
<1> DEFINE C == Copies(id)
           h == Head(conQ).host
           ms == Reverse(pending[h])
<1>1. PlaceOK(id) /\ UNCHANGED sent /\ C' = C
  BY DEF PlaceInv, WorkerNew, Copies, Message
<1>2. /\ Has(msgQ', C) <=> Has(msgQ, C)
      /\ Single(msgQ, C) => Single(msgQ', C)
  <2>1. FromConnections(taken) /\ C \in SUBSET Message
    BY DEF WorkerNew, Copies
  <2> HIDE DEF C
  <2> QED BY <2>1, WorkerMessages, PlaceInvTypes
<1>3. CASE h = None \/ pending[h] = <<>>
  <2>1. UNCHANGED <<pending, handed>>
    BY <1>3 DEF WorkerNew
  <2> QED BY <1>1, <1>2, <2>1, PlaceSame DEF InQueue
<1>4. CASE ~(h = None \/ pending[h] = <<>>)
  <2>1. h \in Hosts
    BY <1>4, AnnouncedHost, PlaceInvTypes
  <2>2. /\ HandOver(StreamFor(h), ms)
        /\ pending' = [pending EXCEPT ![h] = <<>>]
    BY <1>4 DEF WorkerNew
  <2>3. PICK s \in Streams : handed' = [handed EXCEPT ![s] = @ \o ms]
    BY <2>2, StreamForType DEF HandOver, PlaceInv, TypeInv
  <2>4. ms \in Seq(Message) /\ (Has(ms, C) <=> Has(pending[h], C))
           /\ (Single(pending[h], C) => Single(ms, C))
    BY <2>1, ReverseHas, PlaceInvTypes
  <2> HIDE DEF C, h, ms
  <2>5. handed'[s] = handed[s] \o ms /\ \A t \in Streams : t # s => handed'[t] = handed[t]
    BY <2>3, PlaceInvTypes
  <2>6. /\ Has(handed'[s], C) <=> Has(handed[s], C) \/ Has(pending[h], C)
        /\ Single(handed[s], C) /\ Single(pending[h], C)
             /\ ~(Has(handed[s], C) /\ Has(pending[h], C)) => Single(handed'[s], C)
    BY <2>4, <2>5, ConcatHas, PlaceInvTypes
  <2>7. /\ ~Has(pending'[h], C) /\ Single(pending'[h], C)
        /\ \A g \in Hosts : g # h => pending'[g] = pending[g]
    BY <2>1, <2>2, EmptyHas, PlaceInvTypes
  <2>8. /\ \A t \in Streams : Has(handed'[t], C) <=>
                              Has(handed[t], C) \/ (t = s /\ Has(pending[h], C))
        /\ \A g \in Hosts : Has(pending'[g], C) <=> g # h /\ Has(pending[g], C)
    BY <2>5, <2>6, <2>7
  <2>9. SingleCopy(id)'
    BY <1>1, <1>2, <2>1, <2>5, <2>6, <2>7
       DEF PlaceOK, SinglePlace, SingleCopy, InList, InStream, C
  <2>10. SinglePlace(id)'
    BY <1>1, <1>2, <2>1, <2>8 DEF PlaceOK, SinglePlace, InQueue, InList, InStream, C
  <2>11. (Somewhere(id) <=> IsSent(id))'
    BY <1>1, <1>2, <2>1, <2>8
       DEF PlaceOK, Somewhere, IsSent, InQueue, InList, InStream, C
  <2> QED BY <2>9, <2>10, <2>11 DEF PlaceOK
<1> QED BY <1>3, <1>4

\* The worker takes a message off the queue and keeps it for its host.
LEMMA WorkerMessagePlace ==
  ASSUME PlaceInv, NEW taken \in BOOLEAN, WorkerMessage(taken), NEW id \in MsgIds
  PROVE  PlaceOK(id)'
<1> DEFINE C == Copies(id)
           m == Head(msgQ)
<1>1. PlaceOK(id) /\ UNCHANGED <<sent, handed>> /\ C' = C
  BY DEF PlaceInv, WorkerMessage, Copies, Message
<1>2. FromMessages(taken) /\ m \in Message /\ C \in SUBSET Message
  BY ServedIsMessage DEF WorkerMessage, PlaceInv, Copies
<1>3. m.host \in Hosts
  BY <1>2 DEF Message
<1>4. pending' = [pending EXCEPT ![m.host] = Append(@, m)]
  BY DEF WorkerMessage
<1>5. /\ Has(msgQ, C) <=> m \in C \/ Has(msgQ', C)
      /\ Single(msgQ, C) => Single(msgQ', C) /\ (m \in C => ~Has(msgQ', C))
  <2> HIDE DEF C
  <2> QED BY <1>2, ServedMessages, PlaceInvTypes
<1> HIDE DEF C, m
<1>6. /\ pending'[m.host] = Append(pending[m.host], m)
      /\ \A g \in Hosts : g # m.host => pending'[g] = pending[g]
  BY <1>3, <1>4, PlaceInvTypes
<1>7. /\ Has(pending'[m.host], C) <=> Has(pending[m.host], C) \/ m \in C
      /\ Single(pending[m.host], C) /\ (m \in C => ~Has(pending[m.host], C))
           => Single(pending'[m.host], C)
  BY <1>2, <1>3, <1>6, AppendHas, PlaceInvTypes
<1>8. \A g \in Hosts : Has(pending'[g], C) <=>
                        Has(pending[g], C) \/ (g = m.host /\ m \in C)
  BY <1>6, <1>7
<1>9. SingleCopy(id)'
  BY <1>1, <1>3, <1>5, <1>6, <1>7
     DEF PlaceOK, SinglePlace, SingleCopy, InQueue, InList, InStream, C
<1>10. SinglePlace(id)'
  BY <1>1, <1>3, <1>5, <1>8
     DEF PlaceOK, SinglePlace, SingleCopy, InQueue, InList, InStream, C
<1>11. (Somewhere(id) <=> IsSent(id))'
  BY <1>1, <1>3, <1>5, <1>8
     DEF PlaceOK, Somewhere, IsSent, InQueue, InList, InStream, C
<1> QED BY <1>9, <1>10, <1>11 DEF PlaceOK

LEMMA InitPlace == Init => PlaceInv
<1> SUFFICES ASSUME Init PROVE PlaceInv OBVIOUS
<1>1. ASSUME NEW id \in MsgIds PROVE PlaceOK(id)
  BY EmptyHas DEF Init, PlaceOK, SinglePlace, SingleCopy, Somewhere, IsSent,
                  InQueue, InList, InStream
<1> QED BY <1>1, InitType DEF PlaceInv

LEMMA StepPlace == PlaceInv /\ [Next]_vars => PlaceInv'
<1> SUFFICES ASSUME PlaceInv, [Next]_vars PROVE PlaceInv' OBVIOUS
<1>1. ASSUME NEW id \in MsgIds PROVE PlaceOK(id)'
  <2>0. PlaceOK(id)
    BY DEF PlaceInv
  <2>1. ASSUME UNCHANGED <<msgQ, pending, handed, sent>> PROVE PlaceOK(id)'
    BY <2>0, <2>1, PlaceSame DEF InQueue, Copies, Message
  <2>2. ASSUME /\ Has(msgQ', Copies(id)) <=> Has(msgQ, Copies(id))
               /\ Single(msgQ, Copies(id)) => Single(msgQ', Copies(id)),
               UNCHANGED <<pending, handed, sent>>
        PROVE  PlaceOK(id)'
    BY <2>0, <2>2, PlaceSame DEF InQueue, Copies, Message
  <2>3. ASSUME UNCHANGED vars PROVE PlaceOK(id)'
    BY <2>1, <2>3 DEF vars, queueVars
  <2>4. ASSUME Network PROVE PlaceOK(id)'
    <3>1. UNCHANGED <<msgQ, pending, handed, sent>>
      BY <2>4 DEF Network, Refused, Unreachable, Connected, Secure, SecureFails,
                  Answer, StreamLost, queueVars
    <3> QED BY <2>1, <3>1
  <2>5. ASSUME Connect \/ (\E s \in Streams : Ready(s)) PROVE PlaceOK(id)'
    <3>1. UNCHANGED <<msgQ, pending, handed, sent>>
      BY <2>5 DEF Connect, Ready, queueVars
    <3> QED BY <2>1, <3>1
  <2>6. ASSUME WorkerLocal PROVE PlaceOK(id)'
    <3>1. TRUE \in BOOLEAN /\ Copies(id) \in SUBSET Message
      BY DEF Copies
    <3>2. UNCHANGED <<pending, handed, sent>>
      BY <2>6 DEF WorkerLocal
    <3> QED BY <2>2, <2>6, <3>1, <3>2, WorkerMessages, PlaceInvTypes
  <2>7. ASSUME NEW taken \in BOOLEAN, WorkerFailed(taken) PROVE PlaceOK(id)'
    <3>1. Copies(id) \in SUBSET Message /\ UNCHANGED <<pending, handed, sent>>
      BY <2>7 DEF WorkerFailed, Copies
    <3>2. CASE FromConnections(taken)
      BY <2>2, <3>1, <3>2, WorkerMessages, PlaceInvTypes
    <3>3. CASE FromMessages(taken) /\ Head(msgQ).kind = "failed"
      <4>1. Head(msgQ) \notin Copies(id)
        BY <3>3 DEF Copies, Message
      <4> QED BY <2>2, <3>1, <3>3, <4>1, ServedMessages, PlaceInvTypes
    <3> QED BY <2>7, <3>2, <3>3 DEF WorkerFailed
  <2> QED BY <2>3, <2>4, <2>5, <2>6, <2>7, SendMessagePlace, WorkerNewPlace,
             WorkerMessagePlace DEF Next, Worker
<1> QED BY <1>1, StepType DEF PlaceInv

LEMMA PlaceInvImpliesOne == PlaceInv => ExactlyOnePlace
<1> SUFFICES ASSUME PlaceInv, NEW m \in sent PROVE Cardinality(Places(m.id)) = 1
  BY DEF ExactlyOnePlace
<1> DEFINE id == m.id
<1>1. id \in MsgIds /\ PlaceOK(id) /\ Somewhere(id)
  BY PlaceInvTypes DEF PlaceInv, Message, PlaceOK, IsSent
<1> HIDE DEF id
<1>2. /\ \A i \in DOMAIN msgQ :
           msgQ[i].kind = "message" /\ msgQ[i].id = id <=> msgQ[i] \in Copies(id)
      /\ \A h \in Hosts : \A i \in DOMAIN pending[h] :
           pending[h][i].id = id <=> pending[h][i] \in Copies(id)
      /\ \A s \in Streams : \A i \in DOMAIN handed[s] :
           handed[s][i].id = id <=> handed[s][i] \in Copies(id)
  <2>1. \A i \in DOMAIN msgQ : msgQ[i] \in Item
    BY PlaceInvTypes
  <2>2. \A x \in Item : x.kind = "message" /\ x.id = id <=> x \in Copies(id)
    BY DEF Item, Message, Failure, Copies
  <2> QED BY <2>1, <2>2, PlaceInvTypes DEF Copies
<1>3. \A x : x \in Places(id) <=>
        \/ \E i \in DOMAIN msgQ : msgQ[i] \in Copies(id) /\ x = <<"queue", None, i>>
        \/ \E h \in Hosts : \E i \in DOMAIN pending[h] :
             pending[h][i] \in Copies(id) /\ x = <<"kept", h, i>>
        \/ \E s \in Streams : \E i \in DOMAIN handed[s] :
             handed[s][i] \in Copies(id) /\ x = <<"handed", s, i>>
  <2> DEFINE Q == {<<"queue", None, i>> :
                     i \in {k \in DOMAIN msgQ : msgQ[k].kind = "message" /\ msgQ[k].id = id}}
             L(h) == {<<"kept", h, i>> : i \in {k \in DOMAIN pending[h] : pending[h][k].id = id}}
             W(s) == {<<"handed", s, i>> : i \in {k \in DOMAIN handed[s] : handed[s][k].id = id}}
  <2>1. Places(id) = Q \cup (UNION {L(h) : h \in Hosts}) \cup (UNION {W(s) : s \in Streams})
    BY DEF Places
  <2>2. \A x : x \in Q <=>
          \E i \in DOMAIN msgQ : msgQ[i] \in Copies(id) /\ x = <<"queue", None, i>>
    BY <1>2
  <2>3. \A x : \A h \in Hosts : x \in L(h) <=>
          \E i \in DOMAIN pending[h] : pending[h][i] \in Copies(id) /\ x = <<"kept", h, i>>
    BY <1>2
  <2>4. \A x : \A s \in Streams : x \in W(s) <=>
          \E i \in DOMAIN handed[s] : handed[s][i] \in Copies(id) /\ x = <<"handed", s, i>>
    BY <1>2
  <2> HIDE DEF Q, L, W
  <2> QED BY <2>1, <2>2, <2>3, <2>4
<1>4. Places(id) # {}
  BY <1>1, <1>3 DEF Somewhere, InQueue, InList, InStream, Has
<1>5. ASSUME NEW x \in Places(id), NEW y \in Places(id) PROVE x = y
  <2>1. CASE InQueue(id)
    BY <1>1, <1>3, <1>5, <2>1
       DEF PlaceOK, SinglePlace, SingleCopy, Single, InQueue, InList, InStream, Has
  <2>2. CASE \E h \in Hosts : InList(id, h)
    BY <1>1, <1>3, <1>5, <2>2
       DEF PlaceOK, SinglePlace, SingleCopy, Single, InQueue, InList, InStream, Has
  <2>3. CASE \E s \in Streams : InStream(id, s)
    BY <1>1, <1>3, <1>5, <2>3
       DEF PlaceOK, SinglePlace, SingleCopy, Single, InQueue, InList, InStream, Has
  <2> QED BY <1>1, <2>1, <2>2, <2>3 DEF Somewhere
<1> QED BY <1>4, <1>5, AtMostOneElement DEF id

\* Between handle_msg, the queue, the store of queue_worker and the streams no
\* message is copied or dropped, whatever the hosts resolve to and in whatever
\* order the worker serves its queues.
THEOREM MessagesStayWhole == Spec => []ExactlyOnePlace
BY InitPlace, StepPlace, PlaceInvImpliesOne, PTL DEF Spec

=============================================================================
