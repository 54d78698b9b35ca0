# PyJabber: a verification project

PyJabber is an XMPP server in Python: one process, one asyncio event loop, a
table of connections, a few queues with worker tasks, and a database, with a
small web page for its administration. This directory holds TLA+ models of its
logic, TLC configurations that check them on small instances, and theorems about
them checked by TLAPS. All paths below are relative to `src/pyjabber/`.

Run from this directory:

    tlc -workers 2 -config MCDelivery.cfg MCDelivery.tla
    tlapm DeliveryProofs.tla
    tlapm DeliveryMailboxProofs.tla
    tlapm RemoteDeliveryProofs.tla

and likewise `MCRemoteDelivery`, `MCAdminPage`, `MCSubscription`, `MCUpload` and
the other proof modules.

## The system

| component | state | operations | talks to |
|---|---|---|---|
| `network/protocols/XMLProtocol.py`, `network/parsers/XMLParser.py`, `stream/QueueBridge.py` (one of each per socket) | transport, XML stack, queue of parsed stanzas, bridge task | connection_made, data_received, connection_lost, connection_timeout; startElementNS/endElementNS; put, feed | ConnectionManager, negotiator, StanzaHandler |
| `stream/negotiators/StreamNegotiator.py`, `features/SASL/SASL.py` | stage of the negotiation | TLS, SASL, registration, binding of a resource | ConnectionManager, database |
| `network/ConnectionManager.py` (singleton) | `_peerList`: peername -> (jid, transport, online); tables of remote servers | connection, close, online, set_jid, update_transport_peer, get_transport, get_transport_online | called by everybody |
| `features/presence/PresenceFeature.py` (singleton) | `_online_status`: account -> entries of its resources; `_pending` subscriptions | global and directed presence, subscribe, subscribed, unsubscribed; most_priority | ConnectionManager, Roster, CONNECTIONS queue |
| `stream/handlers/StanzaHandler.py` (per bound connection) | its JID | handle_msg, handle_pre, handle_iq | Presence, ConnectionManager, MESSAGES queue, plugins |
| `queues/workers/MessageQueueWorker.py` (one task) | stanzas kept for local and for remote JIDs | one item of CONNECTIONS or MESSAGES per round | ConnectionManager, SERVERS queue |
| `queues/workers/ServerConnectionWorker.py` (one task), outgoing and incoming server protocols | sockets to remote servers | connect, report a failure | CONNECTIONS queue |
| `plugins/roster/Roster.py` | copy of the roster table, one per connection's plugin and one in Presence | get, set, create entry, update item | database |
| `plugins/xep_0060/xep_0060.py` (singleton) | copies of nodes and subscribers | create, delete, subscribe, unsubscribe, publish, retract, purge, items | database |
| `plugins/xep_0363/upload_server.py` | upload slots | slot_request, handle_upload, handle_download | file system |
| `webpage/src` (React, in a browser) | list of accounts, selected account, its roster, form, requests in flight | show, create and delete accounts, show a roster | API over HTTP |
| `webpage/api/api.py` | none | handleUser, handleRoster, handleDelete, handleRegister | database |
| `network/StreamAlivenessMonitor.py` (per socket) | a timer task | reset, cancel, expiry | XMLProtocol |
| `server.py` | the gathered tasks | start, run_server | everything |

What is hard in it:

* *Concurrency.* Every socket has a bridge task and callbacks of its own, the
  two workers have one each, and all share the tables without locks. A handler
  runs without interruption up to an `await` that suspends. Awaiting `put` on
  the unbounded queues does not suspend; database access, hashing, TLS and file
  access do.
* *Order.* A message that cannot be delivered goes through a queue to the store
  while its addressee binds, comes online or leaves; connections are announced
  through another queue; the worker serves an arbitrary one of the two and puts
  the other item back at the end.
* *Stale copies.* Presence decides from a copy of the roster table, the page
  from the last list it was sent, handlers from what they read before an
  `await`. Answers to the page come late, out of order or not at all.
* *Failure.* A socket is lost between any two steps; `connection_lost` cleans up
  nothing but the bridge; peernames come back; a handler that raises kills its
  bridge; a restart empties every table and the store of messages.

What makes each part correct:

* ConnectionManager and Presence: they agree on who is available; an entry
  belongs to the connection it was made for; a full JID names one connection.
* Routing and store: a message reaches only its addressee, only while it is
  available, and not twice; nothing gets lost between the queues; kept messages
  are delivered.
* Negotiation: a connection is bound only after TLS and authentication;
  a rejected peer is closed.
* Server to server: a host is connected once, stanzas for it are delivered or
  answered with an error, one failure does not end the service.
* Roster and subscriptions: a roster shows only subscriptions that were granted
  or that its owner wrote there; a request is not lost; a text of the attribute
  jid has one entry.
* Pubsub: what is decided from memory agrees with the database.
* Upload: a file keeps to its declared size; a filled slot has a whole file and
  keeps it.
* Accounts: a name is that of one account. Page: it shows what
  is there once its answers have come, and acts on the account that was clicked.

Not all of this is true of the code; what is, and with which exceptions, the
properties say. `PROJECT.json` lists every hazard at its line, with the
properties that cover it or the reason why none does.

## Modules

| module | contents |
|---|---|
| `Delivery` | connections, availability, routing of messages between local clients, the queues, queue_worker and its store; its properties |
| `Mailbox` | what the server promises about a message, without any of that |
| `DeliveryMailbox` | the refinement mapping from `Delivery` to `Mailbox` |
| `MCDelivery` | the instances of `Delivery` for TLC |
| `DeliveryProofs` | theorems about `Delivery`: types, availability, who receives |
| `DeliveryMailboxProofs` | theorems about the way of one message through `Delivery`; it implements `Mailbox` |
| `RemoteDelivery` | messages to other servers: the remote branch of handle_msg, the remote half of queue_worker, server_connection_worker and the outgoing streams |
| `MCRemoteDelivery` | the instances of `RemoteDelivery` for TLC |
| `RemoteDeliveryProofs` | theorems about `RemoteDelivery` |
| `Occurrences` | lemmas about how often the elements of a set occur in a queue, for both proofs about messages |
| `Subscription` | rosters and presence subscriptions: the table, the cache of Presence, handlers suspended at every access to the table |
| `MCSubscription`, `SubscriptionProofs` | its instance for TLC, theorems about it |
| `Accounts` | the tables of accounts and rosters, the API on them, in-band registration |
| `AdminPage` | the administration page: its state, its requests and their answers; it extends `Accounts` |
| `MCAdminPage`, `AccountsProofs`, `AdminPageProofs` | an instance of `AdminPage` for TLC, theorems about both |
| `Upload` | upload slots, the requests that fill them, the files |
| `MCUpload`, `UploadProofs` | its instance for TLC, theorems about it |

`Delivery` and `RemoteDelivery` are two views of one queue_worker: each models
its own items in the two queues. While an item of the other kind is served, one
of its own may be put back at the end of its queue: that is `WorkerLocal` in
`RemoteDelivery`. `Delivery` leaves it out, as none of its properties is about
the order of messages or announcements.

### Delivery and the code

A *connection* `c` stands for one accepted socket with its transport, protocol,
parser, bridge and, once bound, its resource: `_handle_resource_bind` draws a
fresh uuid4, so the connection itself serves as the name of the resource.
Connections are never used twice; *addresses* (peernames, the keys of
`_peerList`) are, when `AddrReuse` is TRUE.

| variable | code |
|---|---|
| `link[c]` | state of the socket: none, open, closing (`transport.close()` was called), lost |
| `stage[c]` | connected, secured (TLS), auth, bound (StanzaHandler exists), failed (the bridge task died) |
| `inbox[c]` | `QueueBridge._queue` |
| `peerList[a]` | `ConnectionManager._peerList` |
| `presence[c]` | the entry of resource `c` in `Presence._online_status` |
| `conQ`, `msgQ` | the CONNECTIONS and MESSAGES queues |
| `pending[j]` | `local_pending_stanzas` of queue_worker, an absent key being an empty list |
| `received[c]`, `sent`, `presences`, `restarts` | history and bounds, not in the code |

| action | code |
|---|---|
| ConnectionMade, CloseTransport, ConnectionLost | `connection_made`; `data_received` on unparsable data and `connection_timeout`; `connection_lost` |
| StartTls, Authenticate | `_handle_tls`, `handle_auth`, successful |
| Send... | `data_received` and the parser, up to `QueueBridge.put`: from the authentication on any stanza, the request to bind once or not at all |
| EndStream | `endElementNS` for the stream element |
| Bridge | one round of `QueueBridge.feed`: HandleBind, HandleUnbound before the binding; HandlePresence, HandleMessage, HandleFault after it |
| WorkerConnection, WorkerMessage | one round of `queue_worker` |
| Restart | the process stops and starts |

Abstractions:

* A handler is one step. `handle_msg`, the online part of
  `_handle_global_presence` and `queue_worker` await only unbounded queues.
  `handle_auth` and `_handle_tls` do suspend, but change the table in one piece
  after the last suspension; they are modelled as that piece, guarded by the
  entry still being there.
* queue_worker starts a getter on each queue and waits for the first. When both
  are done it pops one from a set: `taken` says that the item of the other queue
  had been taken as well and is put back at the end.
* A presence has a type and the rank its priority has among strings. Broadcasts
  to contacts are writes of presence stanzas, which no property here is about.
* Accounts are names without regular-expression characters, which
  `get_transport_online` would interpret.
* A stored message is the message itself; its payload does not matter.
* A write to a transport that is closing or lost is dropped by asyncio.
* `Faulty` clients send stanzas whose handler raises KeyError.
* Domains other than the local host are left to `RemoteDelivery`.

`_orphan_jids` is left out: `close` writes it and `get_jid` drops the entry and
returns nothing. `_handle_lost_connection` is left out: `connection_lost` puts
to a queue that nobody reads.

### RemoteDelivery and the code

A *stream* `s` stands for one socket that `create_connection` opened, with its
protocol, parser and bridge. Its key in `_remoteList` is the peername, which is
what the host resolves to: `PeerOf[host]`. Hosts on one address share a key.

| variable | code |
|---|---|
| `link[s]`, `hostOf[s]` | the socket, and `_host` of its protocol |
| `phase[s]` | plain; secured (`starttls_handshake` is set); answered (the success waits for the bridge); ready (ServerStanzaHandler exists) |
| `remoteList[p]` | `ConnectionManager._remoteList` |
| `serverQ`, `connecting`, `serverTask` | the SERVERS queue and server_connection_worker: the host it awaits a connection to, whether it still runs |
| `process` | down once a task that `Server.start` gathers has raised |
| `conQ`, `msgQ`, `pending[h]` | the queues, `remote_pending_stanzas` |
| `handed[s]`, `sent` | history, not in the code |

| action | code |
|---|---|
| SendMessage | `handle_msg`, remote branch |
| Connect | one turn of server_connection_worker up to `create_connection` |
| Connected, Refused, Unreachable | `connection_made`; the two handlers that report a failure; any other OSError |
| Secure, SecureFails | `handle_tls_server` |
| Answer, Ready | `<success/>` is received; the bridge handles it and makes the ServerStanzaHandler |
| StreamLost | `connection_lost`, `connection_timeout` |
| WorkerNew, WorkerFailed, WorkerMessage | one round of queue_worker for a remote item |
| WorkerLocal | a round for a local item |

What the code does here and one would not expect:

* `connection_lost` calls `disconnection_server`, which does not exist: an entry
  of `_remoteList` stays for ever, and StreamLost only changes the socket.
* The `try` of server_connection_worker is outside its loop: Refused ends it.
* queue_worker imports the name `app_config` while it is None: WorkerFailed
  raises and takes the process with it. Hence what follows in the code, the
  notification and the removal of the key, is not reached.
* What is put back is told apart by `isinstance(item, NewConnectionWrapper)`: a
  failure that was taken beside the item served goes to the queue of messages
  (`PutBack`), from where WorkerFailed serves it later, behind them.
* A TLS transport that was lost has no peername, `get_host` finds nothing, and
  Ready announces None.
* A stanza stored after the NewConnection of its host was served queues the host
  again; Connect finds it listed and goes on, and the stanza waits. No property
  claims otherwise.
* A connection to a second host on an address that is listed is not listed, and
  the upgrade to TLS puts its transport under the first host. The properties
  that fail then are checked and proved for addresses of their own
  (`PeersDistinct`); the others hold for any `PeerOf`.

A peer that sends its success before TLS makes two of these steps at once. A
bridge that dies during the negotiation is a peer that stops answering.

### Subscription and the code

Presence is a singleton with a Roster of its own. Each connection's PluginManager
has another one, which serves roster queries. They share the table only. `feed`
re-reads the table before every query, as nothing ever sets `_initial_update`;
`roster_by_jid`, from which the subscription handlers decide, does not.

| variable | code |
|---|---|
| `rows` | the table `roster`; row `i` has the id `i` |
| `cache` | `_roster_in_memory` of Presence |
| `pending` | the table `pending_subs` |
| `task[c]` | the handler the bridge of `c` is in: where it is suspended and its local variables; dead after an exception |
| `granted`, `claimed`, `lost`, `seen`, `began` of a row or task | history: grants, what clients' items claim, interrupted requests, reads and writes |
| `stanzas` | bound |

| action | code |
|---|---|
| Subscribe, Subscribed, Unsubscribed | `_handle_subscribe`, `_handle_subscribed`, `_handle_unsubscribed` up to the first suspension |
| RosterSet | `feed` and `handle_set` of a plugin for a query of the client |
| Select, Install | `_update_roster`: the read; the replacement of the cache, with the handler going on from there (GoOn) |
| Commit | the write of `handle_set` or `update_item` |
| StorePendingSub | `store_pending_sub` |
| Interrupt, Restart | the bridge is cancelled by `connection_lost`; the process stops and starts on its database file |

What the code does here and one would not expect:

* `handle_set` stores a client's item as it was sent, a subscription or an ask of
  its own included (`../test/plugins/test_plugin_roster.py:107-137` sends
  `subscription="both"` and expects a result). In the model a client may set any
  item of `ClientSets`; `claimed` records what it shows, and OnlyGranted and
  AskedIsStored are about what the server adds to that.
* `handle_set` finds an entry by the text of its attribute jid, the subscription
  handlers by the name with or without the host. A contact may therefore have an
  entry in each form, without any overlap: a client's item, and one that Presence
  creates while its cache lacks the first. DuplicatesOverlapped is about entries
  of one text.
* An item without the attribute jid, which `handle_set` would store too, is left
  out.
* Removing an entry raises (`ET.tostring` of a string), so rows never go. The API
  that deletes accounts could remove rows; that is left to `Accounts`.
* `handle_set` updates the row whose text is what it read, so it is a
  compare-and-swap; `update_item` overwrites the row by its id.
* The `for ... else` of `_handle_subscribe` stores a request whether or not it
  was delivered. One with the same text is refused by the primary key, and the
  handler fails.
* `_handle_subscribed` creates an entry for the user who approves only when his
  roster is empty; `_handle_unsubscribed` changes the entry of its sender.
* `get_all_pending_presence` unpacks three columns of two: the server does not
  start while `pending_subs` has a row. Restart is therefore possible with an
  empty table only, `_pending` is always empty and `delete_pending_presence` is
  never reached.
* With the in-memory database the accesses do not overlap as they do with a file;
  the model covers both, as it allows every interleaving.

### Accounts, AdminPage and the code

`Accounts` is what the administration promises: rows of `credentials` come from
registrations, in band or through the API, and go by `handleDelete`. The handlers
of the API do not suspend; in-band registration does, between RegisterCheck and
RegisterStore (the hashing of the password). `NextId` is how SQLite numbers a
row without AUTOINCREMENT. Names are related by `Matches`, what LIKE makes of
them: the empty name, which the API accepts, matches every name. `born` and
`checked` of a row are history, as are the names that ever had an account
(`registered`): a session of one adds roster entries after the account is gone.

| variable | code |
|---|---|
| `credentials`, `roster` | the tables |
| `registering` | `handle_iq` of SASL suspended in `_store_hash_task` |
| `page` | the `useState` values of Contact, FormModal and RosterModal, and history about requests |
| `requests` | `fetch` calls in flight, with their answers |
| `inserted`, `sent`, `visit` | bounds, and numbers by which rows, requests and mounts are told apart |

| action | code |
|---|---|
| Mount, Unmount | entering and leaving the route `users/` (`index.js`, `sidebar.jsx`), the effects of Contact included |
| OpenForm, TypeJid, SubmitForm, CancelForm, DismissForm | the button and the form (`Form.jsx`) |
| ShowRoster, CloseRoster | the dialog (`rosterModal.jsx`) with its effect |
| DeleteUser | the bin of a row and its confirmation |
| HandleUser, HandleRoster, ServeDelete, ServeCreate | the handlers of `api.py` |
| ReceiveUsers, ReceiveRoster, ReceiveDeleted, ReceiveCreated, Fail | the promise callbacks |

* The committed `userList.jsx` has a stray closing tag where the bundle that is
  served (`webpage/build`) has two effects, which ask for the list when Contact
  is mounted and whenever the form opens or closes. The model follows the bundle.
* `onClose` of a modal is given the state setter, which then gets the event: a
  truthy value. Escape and the backdrop therefore do not close it (DismissForm).
* SubmitForm posts the account and, with the same click, asks for the list. The
  list may be read before the account is stored, and nothing asks again. No
  property claims that a new account is shown.
* A failed deletion does not ask for the list again. A failed roster leaves the
  one that was shown.
* With the engine that `setup_database` makes, an asynchronous one, the `with
  DB.connection()` of the handlers raises, and every request fails: in the model,
  the behaviours in which Fail takes each one. `DB.connection` is annotated to
  return a `sqlalchemy.Connection`, and the handlers are modelled with one.
* An account made by the page gets a hash that `_verify_password_async` cannot
  split. Whether an account can authenticate is not modelled.

### Upload and the code

| variable | code |
|---|---|
| `slots[s]` | `_slots`: size, filled or not, and the file in the slot's directory |
| `up[u]` | the local state of one `handle_upload` |
| `disk[f]` | the files; one is named by the request that created it, as a file that was removed lives on for those who have it open |
| `overlapped` | history: slots with two requests at a time |

| action | code |
|---|---|
| SlotRequest | `feed` of HTTPFieldUpload and `slot_request` |
| Accept | the checks of `handle_upload`, passed |
| Open, Receive, Write, BodyEnds, Finish | the rest of it, split where it suspends; a piece is written some time between its arrival and the closing of the file |

Two requests for one slot may both be accepted before either is done. Then one
empties the file of the other, leaves holes in it, or removes it although the
other has filled the slot; that is what `overlapped` excepts. Zero counts as no
size; a negative size is accepted and never met.

## Runs

Deadlock is not checked: clients send finitely many
stanzas here and the system then rests, as a server without clients does.

| run | instance | shows |
|---|---|---|
| delivery | 2 accounts, 2 connections, 2 fresh addresses, 1 message, 2 presences, inbox of 2, 1 restart; symmetry | TypeOK; OnlineIffAvailable; RightRecipient; OnlyAvailableReceive; ImplementsMailbox |
| reuse | 1 account, 3 connections over 2 addresses, 1 message, 2 presences, inbox of 1; symmetry | AtMostOnce; FullJidOneConnection; AvailableIsOnline |
| live | 1 account, 2 connections, a faulty client, a priority; FairSpec, no symmetry | AcceptedIsSettled |
| offline | as delivery, inbox of 1 | violates OfflineMessageIsKept |
| forward | as delivery, inbox of 1 | violates KeptMessageIsForwarded |
| pending | 1 account, 1 connection; FairSpec | violates OnlineIsNotPending |
| address | as delivery, inbox of 1, addresses come back | violates RightRecipient |
| remote | 2 hosts with an address each, 3 sockets, 3 messages; symmetry | TypeOK; RightHost; OneStreamPerHost; SomeoneConnects; AnnouncedIsListed; ExactlyOnePlace |
| failed | 1 host, 1 socket, 1 message | violates FailureIsHandled |
| subscription | 2 users with 2 and 1 connections, 3 stanzas, 5 roster queries; symmetry | TypeOK; DuplicatesOverlapped; OnlyGranted; AskedIsStored; OwnWritesSeen |
| adminpage | names empty and ann, 1 roster item, 1 registering client, 2 rows, 5 requests with 2 in flight, 2 visits | TypeOK; DuplicatesOverlapped; DeletedNotShown; DialogShowsSelected; ShownOrLater |
| upload | 1 slot, 3 uploads, sizes -1 to 3 with a maximum of 2, bodies of up to 3 pieces; symmetry | TypeOK; SizeKept; FilledIsWhole; FilledStays |

The first seven use `MCDelivery`, the next two `MCRemoteDelivery`.

*Why the bounds are enough.* Two connections make sender and addressee, of one
account or of two; a third, in `reuse`, is the one that comes after both over a
used address. Two presences let a resource come and go, or two resources be
available. An inbox of two lets a stanza wait behind a bind, as a client that
pipelines does, or a bind behind a stanza that closes the entry; with one, the interesting races are between connections and
they all remain. One message is enough for duplication and loss; the order among
messages is not a property here. The constants that bound a run are `MaxInbox`,
`MaxPresence`, `MaxRestart` and the sets `Conns` and `MsgIds`, whose members are
used once.

In `remote`, three messages are needed for one to be kept and flushed, one to
be queued meanwhile and stored after the flush, so that its host is queued
again, and one to be written directly or for the other host; a third socket is
there to be opened wrongly. `Streams` and `MsgIds` bound the run.

In `subscription`, two connections of one user are what it takes to race on one
roster, and the third belongs to the contact who answers. Three stanzas are a
request, an answer and one that interferes with either (`MaxStanzas`); the
number of interruptions and restarts is not bounded. The queries set the contact
in both forms, with a subscription and a request of their own, with one only, and
with neither, and ask for a removal; an entry for oneself makes a roster that is
not empty and lacks the contact.

In `adminpage`, two rows are enough for an id that is given again and for two
accounts of one name; the two names match in one direction only. Two requests in
flight can overtake each other. Five requests are the two of a visit, a
deletion, the list after it and one more, or a dialog that is closed and opened
again (`MaxRequests`, `MaxInFlight`, `MaxInserted`, `MaxVisits`).

In `upload`, two requests overlap and a third comes after them or retries.
Requests for different slots share nothing, which `UploadProofs` proves (Files),
so one slot is enough. The sizes include a negative one, zero, which is none,
the maximum and one above it; a body of `MaxBody` pieces exceeds the maximum.

*Fairness.* `FairSpec` assumes weak fairness of every bridge, of queue_worker,
and of `connection_lost` after a close. The event loop is a FIFO of ready
callbacks and its queues wake their getters, so a task that can run does; asyncio
schedules `connection_lost` when a transport is closed. Nothing is assumed of
clients or of the network: they may stop at any time.

### What disagrees with the documentation

* `config/config.yaml:57-58` says that the server keeps a message for an offline
  client. `connection_lost` leaves the connection in the table and in the
  presence list (`XMLProtocol.py:153` is commented out), so the message goes to
  a dead transport (run *offline*).
* The same comment says kept messages are forwarded when the client connects.
  The binding announces the connection; the flush that follows finds no online
  transport and empties the store (run *forward*). The NewConnection of the
  first presence comes too late.
* `queues/PendingMessage.py:13` says pending messages are for clients that are
  disconnected. A message can be stored after the announcement of its addressee
  was served, and then waits although the addressee is online (run *pending*).
* `get_transport_online` returns transports that are not of the JID when a
  peername comes back (run *address*): the new connection inherits the entry.
  This is why the properties of run *delivery* are checked, and the theorems that
  need it are stated, for addresses that do not come back.
* `queues/FailedRemoteConnection.py:8` says that clients are notified when a
  remote connection fails. The handler raises instead and the server stops (run
  *failed*).

`config.yaml:59` also says that messages are kept between executions of the
server; the store is a local variable, and `Restart` empties it.

* `database.py:18-24` says that `DB.connection` returns a `sqlalchemy.Connection`
  for a `with` statement; with the engine of `setup_database` it cannot. No run
  shows it: the models do not contain the database library.

## Proofs

`DeliveryProofs` proves, for all values of the constants that satisfy the
assumptions `NoneIsNew` and `ParametersTyped` of `Delivery`:

| theorem | further assumption | statement |
|---|---|---|
| TypeCorrect | | `Spec => []TypeOK` |
| AvailableStaysOnline | | `Spec => []AvailableIsOnline` |
| AvailabilityAgrees | `AddrReuse = FALSE` | `Spec => []OnlineIffAvailable` |
| OnlyAddresseesReceive | `AddrReuse = FALSE` | `Spec => []RightRecipient` |
| OnlyAvailableConnectionsReceive | `AddrReuse = FALSE` | `Spec => OnlyAvailableReceive` |

None of the properties is inductive. The argument is layered:

* `TypeInv` adds to TypeOK how far a connection has come (`ConnOK`): an address
  once it was accepted, an account once it authenticated, a presence only once
  it is bound. Without it an entry could get `None` for an address or a JID.
* `ConnInv` adds, for fresh addresses, that no two connections share one
  (`AddrOK`) and that an entry belongs to the connection of its address
  (`EntryOK`): its transport is that connection, its JID is what the stage of
  that connection says, its online flag is the presence of that connection.
  OnlineIffAvailable follows, since a full JID is that of one connection only.
* `DeliveryInv` adds that only bound connections have received anything
  (`ReceivedOK`, which keeps RightRecipient from being disturbed by a later
  authentication) and that what is stored under a JID is addressed to it
  (`StoreOK`). RightRecipient is then preserved by both places that write:
  `handle_msg` and the flush. OnlyAvailableReceive needs ConnInv only.
* AvailableIsOnline needs only `TypeInv` beside itself (`OnlineInv`): a
  connection is bound before it is available, and `online` updates every entry
  with its JID. Hence it holds with reused addresses as well.

`DeliveryMailboxProofs` proves, from the same assumptions:

| theorem | further assumption | statement |
|---|---|---|
| MessagesArriveOnce | | `Spec => []AtMostOnce` |
| FullJidReachesOne | | `Spec => []FullJidOneConnection` |
| DeliveryImplementsMailbox | `AddrReuse = FALSE` | `Spec => ImplementsMailbox` |

* AtMostOnce counts copies. The proofs do not: they speak of a set `C` of
  messages, of which a queue has some (`Has`) or no two (`Single`, both in
  `Occurrences`). `Kept(C)` says that one container at a time has some of C, no
  container two, and none has any once one was received. StepFollows shows that
  every step keeps this, for any C, if it is not a client's sending of one of C
  while another is still somewhere; there is one lemma for each operation on the
  containers (SendEffect, TakeEffect, WriteEffect, FlushEffect, StoreEffect).
* `OnceInv` takes for C the messages of one identity (`Copies`), and, from the
  same lemma with one message as C, adds that what is held or received was sent
  (`HeldWasSent`), so that a fresh identity is nowhere, and that the store has a
  message under its addressee (`UnderAddressee`). Nothing in it is about
  connections or addresses, so it holds over any reuse.
* FullJidOneConnection survives the reuse that breaks RightRecipient: an entry
  with a full JID may hold the transport of a later connection, but it is at the
  address of the connection bound to that resource (`FullEntry`), hence alone
  (OneTransport). Whoever receives a message in a step is that transport, and
  nobody had received it before, for it was still held (`OneRecipient`).
* For the refinement, `View` says what the place, addressee and recipients of
  `DeliveryMailbox` are in terms of the containers; it follows from OnceInv. Then
  every action is a step of `Mailbox` or leaves its state alone:

  | `Delivery` | `Mailbox` |
  |---|---|
  | Authenticate | SignIn |
  | SendMessage | Accept |
  | Bridge, a message of a bound client | Enqueue, or Settle for the open transports written to, or, if nothing is stored (`Persistence` is FALSE), Lose, which is then the same step as Settle for nobody |
  | Bridge, a message before the binding | Lose |
  | WorkerMessage | Store |
  | WorkerConnection | Forward; nothing if the list is empty |
  | ConnectionLost | Lose, of all messages in its inbox; nothing if there are none |
  | Restart | Crash |
  | any other | nothing |

  That recipients are connections of the addressee is where `ConnInv`, and so
  `AddrReuse = FALSE`, is needed.

`RemoteDeliveryProofs` proves, with the assumptions `PeersAreAddresses` and
`NoneIsNew` of `RemoteDelivery`:

| theorem | further assumption | statement |
|---|---|---|
| TypeCorrect | | `Spec => []TypeOK` |
| AnnouncedHasStream | | `Spec => []AnnouncedIsListed` |
| StanzasReachTheirHost | `PeersDistinct` | `Spec => []RightHost` |
| ConnectedOnce | `PeersDistinct` | `Spec => []OneStreamPerHost` |
| KeptStanzasAreAttended | `PeersDistinct` | `Spec => []SomeoneConnects` |
| MessagesStayWhole | | `Spec => []ExactlyOnePlace` |

* `TypeInv` adds `StreamOK`: an open or lost stream has a host, whose peername is
  listed. With the fact that what is listed stays listed under its host
  (`ListedStays`), and that an event of `conQ` comes from an old one, a failure
  or Ready (`EventsStay`), AnnouncedIsListed is inductive.
* `HostInv` adds that an entry is for the host of its peername and holds a stream
  of it (`EntryOK`), that the host being connected is not listed (`FreshOK`), and
  that stanzas are kept under their own host (`StoreOK`). A second stream of a
  host would need FreshOK to fail; a write goes to a stream of `StreamFor`, which
  EntryOK makes one of the right host.
* SomeoneConnects follows a host from the SERVERS queue to `connecting`, to the
  table or to the report of its failure (`AttendedStays`). Once
  server_connection_worker has ended, what is queued for it does not count: then
  its report is in one of the two queues as long as the server is up
  (`EndedReported`), since serving it is what takes the server down.
* ExactlyOnePlace is `PlaceInv`: a message is in one of the queue, the lists of
  the store and the streams, there once, and somewhere exactly if it was sent.
  It needs nothing about hosts: a message, or a host's list as it is emptied, is
  handed to one stream, whichever the lookup finds.

`SubscriptionProofs` proves, with the assumptions of `Subscription` on its
parameters and no other:

| theorem | statement |
|---|---|
| CopiesCorrect | `Spec => []Inv` |
| SubscriptionTypeCorrect | `Spec => []TypeOK` |
| EntriesOverlapped | `Spec => []DuplicatesOverlapped` |
| GrantedOnly | `Spec => []OnlyGranted` |
| RequestsStored | `Spec => []AskedIsStored` |
| PresenceSeesItsWrites | `Spec => []OwnWritesSeen` |

* OnlyGranted is not inductive: handlers write items that they copied from the
  cache, from a read or from a local variable, all of them maybe old. `Inv` says
  what any copy has in common with the table: it is no longer than it (`View`),
  a row never changes its owner, contact or form, and what the copy shows as
  granted or asked was granted, asked for, or claimed by a query of the owner
  (`Fine`). As grants, claims and stored requests only increase, a copy that was fine stays fine; so the operators are
  stated over the table, the grants and the requests as parameters, with one
  lemma that they are monotonic.
* DuplicatesOverlapped needs that no row with the key of a new entry was there
  when its handler began (`NewSince`), which holds because `feed` reads the table
  after that (`ReadSince`).
* OwnWritesSeen needs that a Presence handler which has written still has to read
  (`SeenInv`).

`AccountsProofs` and `AdminPageProofs` prove, with the assumptions of `Accounts`
and `AdminPage`:

| theorem | statement |
|---|---|
| AccountsCorrect, AccountsDuplicatesOverlapped | `AccountsSpec => []AccountsInv`, `[]DuplicatesOverlapped` |
| PageCorrect, PageTypeCorrect | `Spec => []PageInv`, `[]TypeOK` |
| PageDuplicatesOverlapped | `Spec => []DuplicatesOverlapped` |
| PageShownOrLater | `Spec => []ShownOrLater` |
| PageDeletedNotShown | `Spec => []DeletedNotShown` |
| PageDialogShowsSelected | `Spec => []DialogShowsSelected` |

* `AccountsInv` numbers the rows: a later row has a larger number, and was looked
  up no later than it was stored. An id is that of one
  row by the key of the table (`NextId`).
* `PageInv` adds that requests are numbered (`Numbered`), that a row the page
  knows was inserted at some time, and one that is gone never comes back
  (`RowsKnown`, `DeletedGone`): the list asked for after a deletion cannot show
  it. `ListSettles` says that with no list awaited the latest one is shown or a
  request failed, `DialogSettles` the same of the dialog and its roster.
* Every action of AdminPage that changes the tables does so by an action of
  Accounts, so `AccountsInv` carries over (AccountsRefined, AccountsStep).

`UploadProofs` proves, with the assumptions of `Upload`:

| theorem | statement |
|---|---|
| UploadsCorrect | `Spec => []Inv` |
| UploadTypeCorrect, UploadSizeKept, FilledSlotIsWhole | `Spec => []TypeOK`, `[]SizeKept`, `[]FilledIsWhole` |
| FilledSlotStays | `Spec => FilledStays` |

* `Files` says that a request and a slot only refer to files of the same slot, so
  that a step of one request leaves other slots alone (`Handles`, OthersKept).
* `Requests` bounds what a request has received by the declared size, counted
  before it is written; hence SizeKept, overlaps or not.
* `Alone` says that a request which has its slot to itself finds in the file
  exactly the pieces that it wrote.

Only model-checked: AcceptedIsSettled. It needs fairness, and with it ENABLED,
which the prover does not support.

## Not modelled

* *Publish-subscribe.* create, delete, subscribe and unsubscribe call
  `update_memory_from_database` without awaiting it, so that the nodes and
  subscribers every operation decides on stay those of the start
  (`server.py:135`). There is no race to check, and a node that was created is
  not found before a restart.
* *Stream aliveness monitor.* Its effect is CloseTransport in `Delivery`, allowed
  at any time. What an expiry that meets a reset does is decided inside
  `asyncio.wait_for`.
* *Stages of the negotiation*, failed logins, the S2S EXTERNAL mechanism:
  sequential code of one task; `Delivery` has the successful steps and the
  rejections that change the connection table.
* *Incoming servers*, whose stanzas ServerStanzaHandler drops, and a restart in
  `RemoteDelivery`.
* *What subscription handlers send* (the requests they forward, the pushes of
  roster items, broadcasts) and directed presence.
* *Stateless parts*: the other plugins, the plugin manager, XML building and
  parsing, the database set-up, certificates, the command line, the pages of the
  administration that show fixed content. They keep no state that other parts
  depend on.
