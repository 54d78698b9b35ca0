------------------------------ MODULE Delivery ------------------------------
(***************************************************************************)
(* Routing of message stanzas between the clients of one PyJabber server,  *)
(* with the store for offline clients: ConnectionManager (_peerList),      *)
(* Presence (_online_status), StanzaHandler.handle_msg, QueueBridge.feed   *)
(* and the queue_worker task, all on one asyncio event loop.               *)
(*                                                                         *)
(* A connection c stands for one accepted socket: its transport, its       *)
(* protocol object, and, once bound, its resource (a fresh uuid4).  An     *)
(* address is the socket's peername, the key of _peerList; the operating   *)
(* system hands the address of a dead connection out again.                *)
(*                                                                         *)
(* Every step is the code between two suspension points.  The awaits of    *)
(* handle_msg, handle_pre (global presence) and queue_worker on unbounded  *)
(* queues do not suspend, so a stanza is handled in one step.              *)
(***************************************************************************)
EXTENDS Naturals, Sequences, FiniteSets, SequencesExt

CONSTANTS
  Users,          \* account names (the bare JIDs of the local host)
  Conns,          \* accepted connections, each used once
  Addrs,          \* peernames (ip, port)
  MsgIds,         \* identities of the messages clients send, each used once
  Priorities,     \* ranks of the <priority/> strings, in the order of max()
  None,           \* Python's None
  Persistence,    \* app_config.message_persistence
  AddrReuse,      \* may the address of a dead connection come back?
  Faulty,         \* connections whose clients send stanzas a handler fails on
  MaxInbox,       \* bound: stanzas read but not yet handled, per connection
  MaxPresence,    \* bound: presence stanzas sent in a behaviour
  MaxRestart      \* bound: restarts of the server process

ASSUME NoneIsNew ==
  /\ None \notin Users \cup Conns \cup Addrs \cup Priorities
  /\ None \notin [jid : [user : Users, res : Conns \cup {None}] \cup {None},
                  transport : Conns, online : BOOLEAN]
  /\ None \notin [user : Users, res : Conns \cup {None}]
  /\ None \notin [type : {"available", "unavailable"},
                  prio : Priorities \cup {None}]
ASSUME ParametersTyped ==
  /\ Priorities \subseteq Nat
  /\ Persistence \in BOOLEAN
  /\ AddrReuse \in BOOLEAN
  /\ Faulty \subseteq Conns
  /\ MaxInbox \in Nat /\ MaxPresence \in Nat /\ MaxRestart \in Nat

VARIABLES
  link,       \* the socket of c: "none", "open", "closing" or "lost"
  stage,      \* progress of its negotiation; "failed" once its bridge task died
  addr,       \* its peername
  user,       \* the account it authenticated as
  inbox,      \* QueueBridge._queue of c: parsed stanzas not yet handled
  peerList,   \* ConnectionManager._peerList, by address
  presence,   \* Presence._online_status: the entry of resource c, or None
  conQ,       \* the CONNECTIONS queue: JIDs of new connections
  msgQ,       \* the MESSAGES queue: messages to be stored
  pending,    \* queue_worker's local_pending_stanzas, by JID
  received,   \* history: the messages written to c's socket while it was up
  sent,       \* history: the messages clients have sent
  presences,  \* how many presence stanzas were sent
  restarts    \* how often the server was restarted

clientVars == <<link, stage, addr, user>>
queueVars == <<conQ, msgQ, pending>>
historyVars == <<sent, presences, restarts>>
vars == <<clientVars, inbox, peerList, presence, queueVars, received,
          historyVars>>

\* A JID of the local host; res = None for the bare form.
Jid == [user : Users, res : Conns \cup {None}]
BoundJid == [user : Users, res : Conns]
Bare(u) == [user |-> u, res |-> None]
Full(c) == [user |-> user[c], res |-> c]

Message == [id : MsgIds, to : Jid]

\* The Client named tuple of _peerList.
Client == [jid : Jid \cup {None}, transport : Conns, online : BOOLEAN]

PresenceEntry == [type : {"available", "unavailable"},
                  prio : Priorities \cup {None}]

\* Stanzas a bound client sends.  "fault" is any stanza whose handler raises
\* KeyError (a presence of unknown type, an iq no plugin takes, ...).
Bind == [kind |-> "bind"]
Fault == [kind |-> "fault"]
PresenceStanza == [kind : {"presence"}, entry : PresenceEntry]
MessageStanza == [kind : {"message"}, msg : Message]
Stanza == {Bind, Fault} \cup PresenceStanza \cup MessageStanza

Init ==
  /\ link = [c \in Conns |-> "none"]
  /\ stage = [c \in Conns |-> "connected"]
  /\ addr = [c \in Conns |-> None]
  /\ user = [c \in Conns |-> None]
  /\ inbox = [c \in Conns |-> <<>>]
  /\ peerList = [a \in Addrs |-> None]
  /\ presence = [c \in Conns |-> None]
  /\ conQ = <<>>
  /\ msgQ = <<>>
  /\ pending = [j \in Jid |-> <<>>]
  /\ received = [c \in Conns |-> <<>>]
  /\ sent = {}
  /\ presences = 0
  /\ restarts = 0

-----------------------------------------------------------------------------
(* ConnectionManager *)

Listed(a) == peerList[a] # None

\* Mutant: the online flag is not looked at.
AnyAt(j) ==
  {a \in Addrs : /\ Listed(a)
                 /\ peerList[a].jid # None
                 /\ peerList[a].jid.user = j.user
                 /\ j.res \in {None, peerList[a].jid.res}}

\* The entries get_transport_online(j) returns: the one with the full JID j,
\* or every one of the bare JID j.
OnlineAt(j) ==
  {a \in Addrs : /\ Listed(a)
                 /\ peerList[a].online
                 /\ peerList[a].jid # None
                 /\ peerList[a].jid.user = j.user
                 /\ j.res \in {None, peerList[a].jid.res}}

TransportsOnline(j) == {peerList[a].transport : a \in OnlineAt(j)}

\* close(peer): forget the entry, close the transport the entry holds.
Close(a) ==
  /\ peerList' = [peerList EXCEPT ![a] = None]
  /\ link' = [c \in Conns |-> IF Listed(a) /\ peerList[a].transport = c
                                 /\ link[c] = "open"
                              THEN "closing" ELSE link[c]]

\* Mutant: the flag is set at the first entry of the user, whatever resource.
SetOnlineUser(j, flag) ==
  peerList' = [a \in Addrs |->
                 IF Listed(a) /\ peerList[a].jid # None
                    /\ peerList[a].jid.user = j.user
                 THEN [peerList[a] EXCEPT !.online = flag] ELSE peerList[a]]

\* online(jid, flag)
SetOnline(j, flag) ==
  peerList' = [a \in Addrs |->
                 IF Listed(a) /\ peerList[a].jid = j
                 THEN [peerList[a] EXCEPT !.online = flag] ELSE peerList[a]]

\* transport.write(stanza), for the stanzas of the sequence ms in their order:
\* asyncio discards what is written to a transport that is closing or lost.
Write(bufs, ms) ==
  received' = [c \in Conns |-> IF c \in bufs /\ link[c] = "open"
                               THEN received[c] \o ms ELSE received[c]]

-----------------------------------------------------------------------------
(* Connections: XMLProtocol and the stages of StreamNegotiator *)

\* connection_made: an entry left behind under the same address is kept.
ConnectionMade(c, a) ==
  /\ link[c] = "none"
  /\ \A d \in Conns : addr[d] = a => AddrReuse /\ link[d] = "lost"
  /\ link' = [link EXCEPT ![c] = "open"]
  /\ addr' = [addr EXCEPT ![c] = a]
  /\ peerList' = [peerList EXCEPT ![a] =
       IF Listed(a) THEN @
       ELSE [jid |-> None, transport |-> c, online |-> FALSE]]
  /\ UNCHANGED <<stage, user, inbox, presence, queueVars, received,
                 historyVars>>

\* _handle_tls: the entry of the address gets the upgraded transport.
StartTls(c) ==
  /\ link[c] = "open" /\ stage[c] = "connected" /\ Listed(addr[c])
  /\ stage' = [stage EXCEPT ![c] = "secured"]
  /\ peerList' = [peerList EXCEPT ![addr[c]].transport = c]
  /\ UNCHANGED <<link, addr, user, inbox, presence, queueVars, received,
                 historyVars>>

\* handle_auth: the entry of the address gets the bare JID of the account.
Authenticate(c, u) ==
  /\ link[c] = "open" /\ stage[c] = "secured" /\ Listed(addr[c])
  /\ stage' = [stage EXCEPT ![c] = "auth"]
  /\ user' = [user EXCEPT ![c] = u]
  /\ peerList' = [peerList EXCEPT ![addr[c]].jid = Bare(u)]
  /\ UNCHANGED <<link, addr, inbox, presence, queueVars, received,
                 historyVars>>

\* data_received: the client sends one more stanza, never after its
\* </stream:stream>.  Once it authenticated it may send any, the one request to
\* bind a resource first, later or not at all.
Send(c, s) ==
  /\ link[c] = "open" /\ Listed(addr[c])
  /\ Len(inbox[c]) < MaxInbox
  /\ \/ stage[c] = "auth" /\ (s = Bind => ~ Contains(inbox[c], Bind))
     \/ stage[c] \in {"bound", "failed"} /\ s # Bind
  /\ inbox' = [inbox EXCEPT ![c] = Append(@, s)]
  /\ UNCHANGED <<clientVars, peerList, presence, queueVars, received, restarts>>

SendBind(c) == Send(c, Bind) /\ UNCHANGED <<sent, presences>>
SendFault(c) == c \in Faulty /\ Send(c, Fault) /\ UNCHANGED <<sent, presences>>

SendPresence(c, p) ==
  /\ presences < MaxPresence
  /\ Send(c, [kind |-> "presence", entry |-> p])
  /\ presences' = presences + 1
  /\ UNCHANGED sent

SendMessage(c, m) ==
  /\ \A n \in sent : n.id # m.id
  /\ Send(c, [kind |-> "message", msg |-> m])
  /\ sent' = sent \cup {m}
  /\ UNCHANGED presences

\* endElementNS: the client ends its stream.
EndStream(c) ==
  /\ link[c] = "open" /\ Listed(addr[c])
  /\ Close(addr[c])
  /\ UNCHANGED <<stage, addr, user, inbox, presence, queueVars, received,
                 historyVars>>

\* data_received after unparsable data, or connection_timeout: the transport
\* is closed and nothing else.
CloseTransport(c) ==
  /\ link[c] = "open"
  /\ link' = [link EXCEPT ![c] = "closing"]
  /\ UNCHANGED <<stage, addr, user, inbox, peerList, presence, queueVars,
                 received, historyVars>>

\* connection_lost, after a close or because the network failed: the bridge
\* task is cancelled; the entry in _peerList and the presence both stay.
ConnectionLost(c) ==
  /\ link[c] \in {"open", "closing"}
  /\ link' = [link EXCEPT ![c] = "lost"]
  /\ inbox' = [inbox EXCEPT ![c] = <<>>]
  /\ UNCHANGED <<stage, addr, user, peerList, presence, queueVars, received,
                 historyVars>>

-----------------------------------------------------------------------------
(* Stanza handling: QueueBridge.feed, StanzaHandler, Presence *)

\* Mutant: the connection is announced before its resource is set.
HandleBindEarly(c) ==
  IF Listed(addr[c])
  THEN /\ stage' = [stage EXCEPT ![c] = "bound"]
       /\ peerList' = [peerList EXCEPT ![addr[c]] =
            [@ EXCEPT !.jid = Full(c), !.transport = c]]
       /\ conQ' = Append(conQ, peerList[addr[c]].jid)
       /\ UNCHANGED <<link, presence, msgQ, received>>
  ELSE UNCHANGED <<link, stage, peerList, presence, conQ, msgQ, received>>

\* _handle_resource_bind, then StanzaHandler.__init__, which
\* announces the connection.  Once the entry is gone get_jid returns None and
\* the exception is swallowed by handle_open_stream.
HandleBind(c) ==
  IF Listed(addr[c])
  THEN /\ stage' = [stage EXCEPT ![c] = "bound"]
       /\ peerList' = [peerList EXCEPT ![addr[c]] =
            [@ EXCEPT !.jid = Full(c), !.transport = c]]
       /\ conQ' = Append(conQ, Full(c))
       /\ UNCHANGED <<link, presence, msgQ, received>>
  ELSE UNCHANGED <<link, stage, peerList, presence, conQ, msgQ, received>>

\* Any other stanza before the binding: NotAuthorized, the peer is closed.
HandleUnbound(c) ==
  /\ Close(addr[c])
  /\ UNCHANGED <<stage, presence, conQ, msgQ, received>>

Available(c) == presence[c] # None /\ presence[c].type = "available"

\* Mutant: only a changed entry updates the online flag of the connection.
HandlePresenceOnce(c, p) ==
  /\ presence' = [presence EXCEPT ![c] = p]
  /\ conQ' = IF p.type = "available" /\ ~Available(c)
             THEN Append(conQ, Full(c)) ELSE conQ
  /\ IF presence[c] = None THEN SetOnline(Full(c), p.type = "available")
                           ELSE UNCHANGED peerList
  /\ UNCHANGED <<link, stage, msgQ, received>>

\* _handle_global_presence
HandlePresence(c, p) ==
  /\ presence' = [presence EXCEPT ![c] = p]
  /\ conQ' = IF p.type = "available" /\ ~Available(c)
             THEN Append(conQ, Full(c)) ELSE conQ
  /\ SetOnline(Full(c), p.type = "available")
  /\ UNCHANGED <<link, stage, msgQ, received>>

\* The resources of _online_status[u]: those that ever sent a presence.
Resources(u) == {c \in Conns : user[c] = u /\ presence[c] # None}

\* most_priority(u): the entries with the highest priority; an entry without
\* priority counts only when none has one.
MostPriority(u) ==
  {c \in Resources(u) : \A d \in Resources(u) :
     presence[d].prio # None =>
       presence[c].prio # None /\ presence[c].prio >= presence[d].prio}

\* handle_msg finds nobody to write to and stores the message instead.
ToBeStored(m) ==
  IF m.to.res = None THEN MostPriority(m.to.user) = {}
                     ELSE OnlineAt(m.to) = {}

\* The transports handle_msg writes m to.
Buffers(m) ==
  IF m.to.res = None
  THEN UNION {TransportsOnline([user |-> m.to.user, res |-> c]) :
                c \in MostPriority(m.to.user)}
  ELSE TransportsOnline(m.to)

\* Mutant: a full JID is treated like its bare JID.
HandleMessageBare(m) ==
  LET b == [m EXCEPT !.to = Bare(m.to.user)] IN
  /\ IF ToBeStored(b)
     THEN /\ msgQ' = IF Persistence THEN Append(msgQ, m) ELSE msgQ
          /\ UNCHANGED received
     ELSE Write(Buffers(b), <<m>>) /\ UNCHANGED msgQ
  /\ UNCHANGED <<link, stage, peerList, presence, conQ>>

\* handle_msg for a local addressee
HandleMessage(m) ==
  /\ IF ToBeStored(m)
     THEN /\ msgQ' = IF Persistence THEN Append(msgQ, m) ELSE msgQ
          /\ UNCHANGED received
     ELSE Write(Buffers(m), <<m>>) /\ UNCHANGED msgQ
  /\ UNCHANGED <<link, stage, peerList, presence, conQ>>

\* StanzaHandler.feed raises InternalServerError inside the bridge task: the
\* task ends and nobody closes the connection.
HandleFault(c) ==
  /\ stage' = [stage EXCEPT ![c] = "failed"]
  /\ UNCHANGED <<link, peerList, presence, conQ, msgQ, received>>

\* QueueBridge.feed: one stanza from the inbox of c.
Bridge(c) ==
  /\ link[c] \in {"open", "closing"} /\ stage[c] # "failed"
  /\ inbox[c] # <<>>
  /\ inbox' = [inbox EXCEPT ![c] = Tail(@)]
  /\ LET s == Head(inbox[c]) IN
     \/ stage[c] = "auth" /\ s.kind = "bind" /\ HandleBind(c)
     \/ stage[c] = "auth" /\ s.kind # "bind" /\ HandleUnbound(c)
     \/ stage[c] = "bound" /\ s.kind = "presence" /\ HandlePresence(c, s.entry)
     \/ stage[c] = "bound" /\ s.kind = "message" /\ HandleMessage(s.msg)
     \/ stage[c] = "bound" /\ s.kind = "fault" /\ HandleFault(c)
  /\ UNCHANGED <<addr, user, pending, historyVars>>

-----------------------------------------------------------------------------
(* The queue_worker task *)

\* Mutant: the item of the queue that is not served is dropped.
LostItem(q, taken) == IF taken THEN Tail(q) ELSE q

\* The worker serves one queue per round; had it already taken the head of the
\* other one as well, it puts that item back at the end.
PutBack(q, taken) == IF taken THEN Append(Tail(q), Head(q)) ELSE q

\* The one key of the store a new connection of j looks at.
TargetKey(j) == IF pending[j] # <<>> THEN j ELSE Bare(j.user)

\* Mutant: the list is copied and never emptied.
FlushKeeping(k) ==
  /\ Write(TransportsOnline(k), Reverse(pending[k]))
  /\ UNCHANGED pending

\* Mutant: the list is written to every connection of the user, available or not.
FlushToAll(k) ==
  /\ Write({peerList[a].transport : a \in AnyAt(k)}, Reverse(pending[k]))
  /\ pending' = [pending EXCEPT ![k] = <<>>]

\* The stored stanzas of the key, last one first, to every online transport.
Flush(k) ==
  /\ Write(TransportsOnline(k), Reverse(pending[k]))
  /\ pending' = [pending EXCEPT ![k] = <<>>]

WorkerConnection(taken) ==
  /\ conQ # <<>>
  /\ taken => msgQ # <<>>
  /\ conQ' = Tail(conQ)
  /\ msgQ' = PutBack(msgQ, taken)
  /\ Flush(TargetKey(Head(conQ)))
  /\ UNCHANGED <<clientVars, inbox, peerList, presence, historyVars>>

\* Mutant: a message whose addressee has come online is queued again.
WorkerMessageRetry(taken) ==
  /\ msgQ # <<>>
  /\ taken => conQ # <<>>
  /\ conQ' = PutBack(conQ, taken)
  /\ LET m == Head(msgQ) IN
     IF OnlineAt(m.to) # {}
     THEN msgQ' = Append(Tail(msgQ), m) /\ UNCHANGED pending
     ELSE msgQ' = Tail(msgQ) /\ pending' = [pending EXCEPT ![m.to] = Append(@, m)]
  /\ UNCHANGED <<clientVars, inbox, peerList, presence, received, historyVars>>

WorkerMessage(taken) ==
  /\ msgQ # <<>>
  /\ taken => conQ # <<>>
  /\ msgQ' = Tail(msgQ)
  /\ conQ' = PutBack(conQ, taken)
  /\ LET m == Head(msgQ) IN
     pending' = [pending EXCEPT ![m.to] = Append(@, m)]
  /\ UNCHANGED <<clientVars, inbox, peerList, presence, received, historyVars>>

Worker == \E taken \in BOOLEAN : WorkerConnection(taken) \/ WorkerMessage(taken)

\* The server process stops and starts again: the store lived in a local
\* variable of queue_worker, the rest in objects of the process.
Restart ==
  /\ restarts < MaxRestart
  /\ restarts' = restarts + 1
  /\ link' = [c \in Conns |-> IF link[c] = "none" THEN "none" ELSE "lost"]
  /\ inbox' = [c \in Conns |-> <<>>]
  /\ peerList' = [a \in Addrs |-> None]
  /\ presence' = [c \in Conns |-> None]
  /\ conQ' = <<>> /\ msgQ' = <<>>
  /\ pending' = [j \in Jid |-> <<>>]
  /\ UNCHANGED <<stage, addr, user, received, sent, presences>>

-----------------------------------------------------------------------------
Environment ==
  \/ \E c \in Conns, a \in Addrs : ConnectionMade(c, a)
  \/ \E c \in Conns : \/ StartTls(c)
                      \/ \E u \in Users : Authenticate(c, u)
                      \/ SendBind(c)
                      \/ SendFault(c)
                      \/ \E p \in PresenceEntry : SendPresence(c, p)
                      \/ \E m \in Message : SendMessage(c, m)
                      \/ EndStream(c)
                      \/ CloseTransport(c)
                      \/ ConnectionLost(c)

Next == Environment \/ (\E c \in Conns : Bridge(c)) \/ Worker \/ Restart

Spec == Init /\ [][Next]_vars

\* The event loop runs every ready task again and again, and calls
\* connection_lost after every transport.close().  Nothing is assumed of the
\* clients or the network.
Fairness ==
  /\ \A c \in Conns : WF_vars(Bridge(c))
  /\ \A c \in Conns : WF_vars(link[c] = "closing" /\ ConnectionLost(c))
  /\ WF_vars(Worker)

FairSpec == Spec /\ Fairness

-----------------------------------------------------------------------------
(* Properties *)

TypeOK ==
  /\ link \in [Conns -> {"none", "open", "closing", "lost"}]
  /\ stage \in [Conns -> {"connected", "secured", "auth", "bound", "failed"}]
  /\ addr \in [Conns -> Addrs \cup {None}]
  /\ user \in [Conns -> Users \cup {None}]
  /\ inbox \in [Conns -> Seq(Stanza)]
  /\ peerList \in [Addrs -> Client \cup {None}]
  /\ presence \in [Conns -> PresenceEntry \cup {None}]
  /\ conQ \in Seq(BoundJid)
  /\ msgQ \in Seq(Message)
  /\ pending \in [Jid -> Seq(Message)]
  /\ received \in [Conns -> Seq(Message)]
  /\ sent \subseteq Message
  /\ presences \in Nat
  /\ restarts \in Nat

\* Where a message is held: the inboxes, the queue and the store.
IsMessage(s, id) == s.kind = "message" /\ s.msg.id = id
InInbox(id, c) == {i \in DOMAIN inbox[c] : IsMessage(inbox[c][i], id)}
InQueue(id) == {i \in DOMAIN msgQ : msgQ[i].id = id}
InStore(id, j) == {i \in DOMAIN pending[j] : pending[j][i].id = id}
Held(id) ==
  (UNION {{<<"inbox", c, i>> : i \in InInbox(id, c)} : c \in Conns})
    \cup {<<"queue", None, i>> : i \in InQueue(id)}
    \cup (UNION {{<<"store", j, i>> : i \in InStore(id, j)} : j \in Jid})

\* How often, and on which connections, a message was received.
ReceivedAt(id, c) == {i \in DOMAIN received[c] : received[c][i].id = id}
Recipients(id) == {c \in Conns : ReceivedAt(id, c) # {}}

\* A message is in one place at a time, is held nowhere once a connection
\* received it, and no connection receives it twice: the hand-over from inbox
\* to queue to store, the put-back of the worker and the flush never copy it.
AtMostOnce ==
  \A id \in MsgIds :
    /\ Cardinality(Held(id)) <= 1
    /\ Recipients(id) # {} => Held(id) = {}
    /\ \A c \in Conns : Cardinality(ReceivedAt(id, c)) <= 1

\* A message to a full JID reaches one connection at most (get_transport's
\* "it will only return one buffer"), over any reuse of addresses.
FullJidOneConnection ==
  \A m \in sent : m.to.res # None => Cardinality(Recipients(m.id)) <= 1

\* The entry of a bound connection whose last presence is available is online:
\* the online flag of _peerList never falls behind _online_status.
AvailableIsOnline ==
  \A c \in Conns : \A a \in Addrs :
    /\ Available(c) /\ stage[c] \in {"bound", "failed"}
    /\ Listed(a) /\ peerList[a].jid = Full(c)
    => peerList[a].online

\* The two records of availability agree: an entry of _peerList is online
\* exactly when _online_status has its resource as available.
OnlineIffAvailable ==
  \A a \in Addrs : Listed(a) =>
    (peerList[a].online <=>
       \E c \in Conns : /\ stage[c] \in {"bound", "failed"}
                        /\ peerList[a].jid = Full(c) /\ Available(c))

\* Every message a connection received was addressed to it, or to the bare JID
\* of its account, whatever was queued, stored or reconnected in between.
RightRecipient ==
  \A c \in Conns : \A i \in DOMAIN received[c] :
    LET to == received[c][i].to IN to.user = user[c] /\ to.res \in {None, c}

\* A step writes messages only to connections that are available at that
\* moment: never to one still negotiating, nor to one that said it left.
OnlyAvailableReceive ==
  [][\A c \in Conns : received'[c] # received[c] =>
       link[c] = "open" /\ stage[c] \in {"bound", "failed"} /\ Available(c)]_vars

\* A message read by a live bridge does not stay in an inbox or in the MESSAGES
\* queue: it is written, stored or discarded in the end, whatever the worker
\* puts back at the end of its queues.
InTransit(id) ==
  InQueue(id) # {} \/ \E c \in Conns : stage[c] # "failed" /\ InInbox(id, c) # {}
AcceptedIsSettled == \A id \in MsgIds : InTransit(id) ~> ~InTransit(id)

-----------------------------------------------------------------------------
(* What the documentation promises and the code does not do *)

\* Nobody is connected as the addressee of m: every connection that ever
\* authenticated as it is gone, and connection_lost has run for it.
Offline(m) == \A c \in Conns :
                user[c] = m.to.user /\ m.to.res \in {None, c} => link[c] = "lost"

\* config.yaml: "If a client sends a message to an offline client, the server
\* will keep it".  A message handled while its addressee has no connection is
\* stored.
OfflineMessageIsKept ==
  [][\A c \in Conns :
       /\ Persistence /\ inbox[c] # <<>> /\ stage[c] = "bound"
       /\ inbox'[c] = Tail(inbox[c]) /\ link'[c] # "lost"
       /\ Head(inbox[c]).kind = "message" /\ Offline(Head(inbox[c]).msg)
       => msgQ' = Append(msgQ, Head(inbox[c]).msg)]_vars

\* config.yaml: "... and forward it when the client connects."  Stored messages
\* leave the store only to be received.
KeptMessageIsForwarded ==
  [][\A j \in Jid : pending'[j] = <<>> =>
       \A i \in DOMAIN pending[j] : Recipients(pending[j][i].id)' # {}]_vars

\* PendingMessageWrapper: the pending messages are those "for local clients who
\* are currently disconnected".  A message for the full JID of an available
\* connection does not stay in the store.
StoredWhileOnline(c) == /\ link[c] = "open" /\ stage[c] = "bound" /\ Listed(addr[c])
                        /\ Available(c) /\ pending[Full(c)] # <<>>
OnlineIsNotPending == \A c \in Conns : StoredWhileOnline(c) ~> ~StoredWhileOnline(c)

=============================================================================
