--------------------------- MODULE RemoteDelivery ---------------------------
(***************************************************************************)
(* Messages from local clients to other servers: the remote branch of      *)
(* StanzaHandler.handle_msg, the remote half of queue_worker, the          *)
(* server_connection_worker task, and the outgoing streams with their      *)
(* entries in ConnectionManager._remoteList.                               *)
(*                                                                         *)
(* A stream s stands for one socket that server_connection_worker opened.  *)
(* The key of its entry is the peername: the address and port the host     *)
(* resolved to, so that hosts on one address share a key.                  *)
(***************************************************************************)
EXTENDS Naturals, Sequences, FiniteSets, SequencesExt

CONSTANTS
  Hosts,     \* remote domains
  Peers,     \* peernames of remote servers
  PeerOf,    \* the peername a host resolves to
  Streams,   \* outgoing sockets, each used once
  MsgIds,    \* identities of the messages clients send, each used once
  None       \* Python's None

ASSUME PeersAreAddresses == PeerOf \in [Hosts -> Peers]
ASSUME NoneIsNew == None \notin Hosts \cup [host : Hosts, stream : Streams]

VARIABLES
  link,         \* the socket of s: "none", "open" or "lost"
  phase,        \* progress of its negotiation
  hostOf,       \* the host it was opened for
  remoteList,   \* ConnectionManager._remoteList, by peername
  serverQ,      \* the SERVERS queue: hosts to connect to
  connecting,   \* the host create_connection is waiting for, or None
  serverTask,   \* server_connection_worker: "running" or "ended"
  process,      \* "up", or "down" once a task of Server.start failed
  conQ,         \* the CONNECTIONS queue
  msgQ,         \* the MESSAGES queue
  pending,      \* queue_worker's remote_pending_stanzas, by host
  handed,       \* history: the messages given to write() of s, sent or not
  sent          \* history: the messages clients have sent

streamVars == <<link, phase, hostOf, remoteList>>
taskVars == <<serverQ, connecting, serverTask, process>>
queueVars == <<conQ, msgQ, pending>>
vars == <<streamVars, taskVars, queueVars, handed, sent>>

Server == [host : Hosts, stream : Streams]

\* PendingMessageWrapper, FailedRemoteConnectionWrapper and
\* NewConnectionWrapper(host, False).  What is put back makes the MESSAGES queue
\* one of messages and failures.
Message == [kind : {"message"}, id : MsgIds, host : Hosts]
Failure == [kind : {"failed"}, host : Hosts]
Event == [kind : {"new"}, host : Hosts \cup {None}] \cup Failure
Item == Message \cup Failure

Init ==
  /\ link = [s \in Streams |-> "none"]
  /\ phase = [s \in Streams |-> "plain"]
  /\ hostOf = [s \in Streams |-> None]
  /\ remoteList = [p \in Peers |-> None]
  /\ serverQ = <<>>
  /\ connecting = None
  /\ serverTask = "running"
  /\ process = "up"
  /\ conQ = <<>>
  /\ msgQ = <<>>
  /\ pending = [h \in Hosts |-> <<>>]
  /\ handed = [s \in Streams |-> <<>>]
  /\ sent = {}

-----------------------------------------------------------------------------
(* ConnectionManager *)

Listed(p) == remoteList[p] # None

\* Mutant: the first stream of the list, whatever its host.
AnyStream(h) == {remoteList[p].stream : p \in {q \in Peers : Listed(q)}}

\* get_server_transport_host(h): the stream listed for the host, lost or not.
StreamFor(h) ==
  {remoteList[p].stream : p \in {q \in Peers : Listed(q) /\ remoteList[q].host = h}}

\* transport.write of the messages ms, in their order, to the first of ss.
HandOver(ss, ms) ==
  \E s \in ss : handed' = [handed EXCEPT ![s] = @ \o ms]

-----------------------------------------------------------------------------
(* Clients: handle_msg for a domain that is not the local host *)

SendMessage(m) ==
  /\ process = "up"
  /\ \A n \in sent : n.id # m.id
  /\ sent' = sent \cup {m}
  /\ IF StreamFor(m.host) # {}
     THEN HandOver(StreamFor(m.host), <<m>>) /\ UNCHANGED msgQ
     ELSE msgQ' = Append(msgQ, m) /\ UNCHANGED handed
  /\ UNCHANGED <<streamVars, taskVars, conQ, pending>>

-----------------------------------------------------------------------------
(* server_connection_worker *)

ServerTaskIdle == process = "up" /\ serverTask = "running" /\ connecting = None

\* Mutant: a host with an open stream is connected again.
ConnectAgain ==
  /\ ServerTaskIdle /\ serverQ # <<>>
  /\ serverQ' = Tail(serverQ)
  /\ connecting' = Head(serverQ)
  /\ UNCHANGED <<streamVars, serverTask, process, queueVars, handed, sent>>

\* The next host of the queue: nothing to do if a stream is listed for it.
Connect ==
  /\ ServerTaskIdle /\ serverQ # <<>>
  /\ serverQ' = Tail(serverQ)
  /\ connecting' = IF StreamFor(Head(serverQ)) = {} THEN Head(serverQ) ELSE None
  /\ UNCHANGED <<streamVars, serverTask, process, queueVars, handed, sent>>

\* create_connection succeeds: connection_made lists the stream, unless its
\* peername is listed.
Connected(s) ==
  /\ process = "up" /\ connecting # None /\ link[s] = "none"
  /\ connecting' = None
  /\ link' = [link EXCEPT ![s] = "open"]
  /\ hostOf' = [hostOf EXCEPT ![s] = connecting]
  /\ remoteList' = [remoteList EXCEPT ![PeerOf[connecting]] =
       IF Listed(PeerOf[connecting]) THEN @ ELSE [host |-> connecting, stream |-> s]]
  /\ UNCHANGED <<phase, serverQ, serverTask, process, queueVars, handed, sent>>

\* Mutant: the handlers of the exceptions only log.
RefusedSilently ==
  /\ process = "up" /\ connecting # None
  /\ connecting' = None
  /\ serverTask' = "ended"
  /\ UNCHANGED <<streamVars, serverQ, process, queueVars, handed, sent>>

\* Mutant: a timeout is reported whether or not a host is being connected.
RefusedIdle ==
  /\ process = "up"
  /\ connecting' = None
  /\ serverTask' = "ended"
  /\ conQ' = Append(conQ, [kind |-> "failed", host |-> connecting])
  /\ UNCHANGED <<streamVars, serverQ, process, msgQ, pending, handed, sent>>

\* The connection is refused, times out or the name is unknown.  The handlers
\* of these exceptions are outside the loop: the task reports and ends.
Refused ==
  /\ process = "up" /\ connecting # None
  /\ connecting' = None
  /\ serverTask' = "ended"
  /\ conQ' = Append(conQ, [kind |-> "failed", host |-> connecting])
  /\ UNCHANGED <<streamVars, serverQ, process, msgQ, pending, handed, sent>>

\* Any other error ends the task with an exception, and Server.start with it.
Unreachable ==
  /\ process = "up" /\ connecting # None
  /\ process' = "down"
  /\ UNCHANGED <<streamVars, serverQ, connecting, serverTask, queueVars, handed,
                 sent>>

-----------------------------------------------------------------------------
(* Outgoing streams: XMLProtocolServerOutgoing, StreamServerNegotiator *)

\* handle_tls_server: the entry of the peername gets the upgraded transport.
Secure(s) ==
  /\ process = "up" /\ link[s] = "open" /\ phase[s] = "plain"
  /\ phase' = [phase EXCEPT ![s] = "secured"]
  /\ remoteList' = [remoteList EXCEPT ![PeerOf[hostOf[s]]].stream = s]
  /\ UNCHANGED <<link, hostOf, taskVars, queueVars, handed, sent>>

\* start_tls meets a reset connection: the signal to close is dropped and the
\* handshake counts as done.
SecureFails(s) ==
  /\ process = "up" /\ link[s] = "open" /\ phase[s] = "plain"
  /\ link' = [link EXCEPT ![s] = "lost"]
  /\ phase' = [phase EXCEPT ![s] = "secured"]
  /\ UNCHANGED <<hostOf, remoteList, taskVars, queueVars, handed, sent>>

\* The peer's <success/> is read and waits for the bridge of the stream.
Answer(s) ==
  /\ process = "up" /\ link[s] = "open" /\ phase[s] = "secured"
  /\ phase' = [phase EXCEPT ![s] = "answered"]
  /\ UNCHANGED <<link, hostOf, remoteList, taskVars, queueVars, handed, sent>>

\* The bridge handles it, even when the stream was lost in between, and makes
\* the ServerStanzaHandler, which announces the host listed for the peername.
\* A lost TLS transport has no peername any more, and no host.
Ready(s) ==
  /\ process = "up" /\ phase[s] = "answered"
  /\ phase' = [phase EXCEPT ![s] = "ready"]
  /\ LET h == IF link[s] = "open" THEN remoteList[PeerOf[hostOf[s]]].host ELSE None
     IN conQ' = Append(conQ, [kind |-> "new", host |-> h])
  /\ UNCHANGED <<link, hostOf, remoteList, taskVars, msgQ, pending, handed, sent>>

\* Mutant: connection_lost forgets the entry.
StreamLostForgets(s) ==
  /\ process = "up" /\ link[s] = "open"
  /\ link' = [link EXCEPT ![s] = "lost"]
  /\ remoteList' = [remoteList EXCEPT ![PeerOf[hostOf[s]]] = None]
  /\ UNCHANGED <<phase, hostOf, taskVars, queueVars, handed, sent>>

\* connection_lost: it fails before it forgets the entry, and nothing else
\* forgets it.
StreamLost(s) ==
  /\ process = "up" /\ link[s] = "open"
  /\ link' = [link EXCEPT ![s] = "lost"]
  /\ UNCHANGED <<phase, hostOf, remoteList, taskVars, queueVars, handed, sent>>

-----------------------------------------------------------------------------
(* The queue_worker task *)

\* Mutant: the item that is not served is dropped.
LostItem(cs, ms, x) == conQ' = cs /\ msgQ' = ms

\* x was taken beside the item that is served, and leaves cs and ms: a new
\* stream goes back to CONNECTIONS and anything else, a failure too, to MESSAGES.
PutBack(cs, ms, x) ==
  IF x.kind = "new" THEN conQ' = Append(cs, x) /\ msgQ' = ms
                    ELSE conQ' = cs /\ msgQ' = Append(ms, x)

\* The head of CONNECTIONS is served; taken tells whether that of MESSAGES was
\* taken with it.
FromConnections(taken) ==
  /\ process = "up" /\ conQ # <<>>
  /\ IF taken THEN msgQ # <<>> /\ PutBack(Tail(conQ), Tail(msgQ), Head(msgQ))
              ELSE conQ' = Tail(conQ) /\ UNCHANGED msgQ

\* The head of MESSAGES is served.
FromMessages(taken) ==
  /\ process = "up" /\ msgQ # <<>>
  /\ IF taken THEN conQ # <<>> /\ PutBack(Tail(conQ), Tail(msgQ), Head(conQ))
              ELSE msgQ' = Tail(msgQ) /\ UNCHANGED conQ

\* A new stream: the stanzas kept for its host, last one first.  Without a
\* transport the worker would fail; AnnouncedIsListed says that there is one.
WorkerNew(taken) ==
  /\ FromConnections(taken) /\ Head(conQ).kind = "new"
  /\ LET h == Head(conQ).host IN
     IF h = None \/ pending[h] = <<>> THEN UNCHANGED <<pending, handed>>
     ELSE /\ HandOver(StreamFor(h), Reverse(pending[h]))
          /\ pending' = [pending EXCEPT ![h] = <<>>]
  /\ UNCHANGED <<streamVars, taskVars, sent>>

\* A failed connection, from either queue: the host of the local server is read
\* from app_config, which was None when the module was imported.  The exception
\* ends the task, and Server.start with it.
WorkerFailed(taken) ==
  /\ \/ FromConnections(taken) /\ Head(conQ).kind = "failed"
     \/ FromMessages(taken) /\ Head(msgQ).kind = "failed"
  /\ process' = "down"
  /\ UNCHANGED <<streamVars, serverQ, connecting, serverTask, pending, handed, sent>>

\* A message is kept for its host; the first one queues the host.
WorkerMessage(taken) ==
  /\ FromMessages(taken) /\ Head(msgQ).kind = "message"
  /\ LET m == Head(msgQ) IN
     /\ pending' = [pending EXCEPT ![m.host] = Append(@, m)]
     /\ serverQ' = IF pending[m.host] = <<>> THEN Append(serverQ, m.host)
                                             ELSE serverQ
  /\ UNCHANGED <<streamVars, connecting, serverTask, process, handed, sent>>

\* An item for the local half of the worker is served, and the one of the other
\* queue that was taken with it is put back.
WorkerLocal ==
  /\ process = "up"
  /\ \/ msgQ # <<>> /\ PutBack(conQ, Tail(msgQ), Head(msgQ))
     \/ conQ # <<>> /\ PutBack(Tail(conQ), msgQ, Head(conQ))
  /\ UNCHANGED <<streamVars, taskVars, pending, handed, sent>>

-----------------------------------------------------------------------------
Network == Refused \/ Unreachable
             \/ \E s \in Streams :
                  Connected(s) \/ Secure(s) \/ SecureFails(s) \/ Answer(s) \/ StreamLost(s)

Worker == \/ WorkerLocal
          \/ \E taken \in BOOLEAN :
               WorkerNew(taken) \/ WorkerFailed(taken) \/ WorkerMessage(taken)

Next == \/ \E m \in Message : SendMessage(m)
        \/ Connect
        \/ Network
        \/ \E s \in Streams : Ready(s)
        \/ Worker

Spec == Init /\ [][Next]_vars

-----------------------------------------------------------------------------
(* Properties *)

TypeOK ==
  /\ link \in [Streams -> {"none", "open", "lost"}]
  /\ phase \in [Streams -> {"plain", "secured", "answered", "ready"}]
  /\ hostOf \in [Streams -> Hosts \cup {None}]
  /\ remoteList \in [Peers -> Server \cup {None}]
  /\ serverQ \in Seq(Hosts)
  /\ connecting \in Hosts \cup {None}
  /\ serverTask \in {"running", "ended"}
  /\ process \in {"up", "down"}
  /\ conQ \in Seq(Event)
  /\ msgQ \in Seq(Item)
  /\ pending \in [Hosts -> Seq(Message)]
  /\ handed \in [Streams -> Seq(Message)]
  /\ sent \subseteq Message

\* What is written to a stream is for the host it was opened for: neither the
\* store nor the list of streams mixes hosts up (on addresses of their own).
RightHost ==
  \A s \in Streams : \A i \in DOMAIN handed[s] : handed[s][i].host = hostOf[s]

\* No host is ever connected twice, although it can be queued again while its
\* stream exists.
OneStreamPerHost ==
  \A s, t \in Streams : hostOf[s] = hostOf[t] /\ hostOf[s] # None => s = t

\* A failure on its way to the worker, in whichever queue it was put.
FailureQueued ==
  \/ \E i \in DOMAIN conQ : conQ[i].kind = "failed"
  \/ \E i \in DOMAIN msgQ : msgQ[i].kind = "failed"

\* The server does not go on with stanzas for a host that nobody attends to:
\* while some are kept, the host is being connected or listed, or queued with a
\* task that reads the queue.  The only other case is a failure that is on its
\* way to the worker and ends the server (on addresses of their own).
SomeoneConnects ==
  \A h \in Hosts : process = "up" /\ pending[h] # <<>> =>
    \/ connecting = h
    \/ StreamFor(h) # {}
    \/ serverTask = "running" /\ \E i \in DOMAIN serverQ : serverQ[i] = h
    \/ FailureQueued

\* A host that is announced has a stream when the worker comes to it, however
\* late that is: the worker writes to the transport it finds without a check.
AnnouncedIsListed ==
  \A i \in DOMAIN conQ :
    conQ[i].kind = "new" /\ conQ[i].host # None => StreamFor(conQ[i].host) # {}

\* Where a message is: in the queue, kept for a host, or given to a stream.
Places(id) ==
  {<<"queue", None, i>> :
     i \in {k \in DOMAIN msgQ : msgQ[k].kind = "message" /\ msgQ[k].id = id}}
    \cup (UNION {{<<"kept", h, i>> : i \in {k \in DOMAIN pending[h] : pending[h][k].id = id}}
                  : h \in Hosts})
    \cup (UNION {{<<"handed", s, i>> : i \in {k \in DOMAIN handed[s] : handed[s][k].id = id}}
                  : s \in Streams})

\* A message that was sent is in one place exactly: moving it from queue to
\* store to stream, in whatever order the worker serves its queues, neither
\* copies nor loses it.
ExactlyOnePlace == \A m \in sent : Cardinality(Places(m.id)) = 1

\* Failures that wait for the worker.
Failures == Cardinality({i \in DOMAIN conQ : conQ[i].kind = "failed"})
              + Cardinality({i \in DOMAIN msgQ : msgQ[i].kind = "failed"})

\* What FailedRemoteConnectionWrapper says it does: "Notifies to the client with pending messages
\* to the remote server".  The worker goes on after it was told of a failure.
FailureIsHandled ==
  [][process = "up" /\ Failures' < Failures => process' = "up"]_vars

=============================================================================
