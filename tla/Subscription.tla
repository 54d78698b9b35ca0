---------------------------- MODULE Subscription ----------------------------
(***************************************************************************)
(* Rosters and presence subscriptions of local users (Roster, Presence).   *)
(* All of it rests on one table.  Presence is a singleton with a Roster of *)
(* its own, whose cache of the table every connection decides from; the    *)
(* plugin that serves roster queries is another Roster, one for each       *)
(* connection.  A connection handles one stanza at a time, and a handler   *)
(* suspends at every access to the table: between its decision and its     *)
(* write, between the write and the read that follows it, and between the  *)
(* read and the replacement of the cache.                                  *)
(*                                                                         *)
(* Only the writes of a handler to the table and the caches are modelled,  *)
(* not the stanzas it sends.                                               *)
(***************************************************************************)
EXTENDS Naturals, Sequences

CONSTANTS
    Users,       \* local users
    Conns,       \* connections
    UserOf,      \* the user a connection is authenticated as
    Peers,       \* <<u, v>> when u sends presences to v
    ClientSets,  \* what roster queries of type set carry: [item, drop]
    MaxStanzas   \* bound: stanzas ever handled

(***************************************************************************)
(* An item as it is stored: full when it names the contact with the host,  *)
(* as clients do and the server does not.  A client's item is stored as it *)
(* was sent, whatever subscription and ask it shows: the value remove      *)
(* stands for those of subscription that nothing looks for, and other for  *)
(* those of ask that are not subscribe.  drop is the attribute that        *)
(* handle_set takes for a removal.                                         *)
(***************************************************************************)
Subs == {"none", "to", "from", "both", "absent", "remove"}
Item == [contact : Users, full : BOOLEAN, sub : Subs,
         ask : {"absent", "subscribe", "other"}]

ASSUME UserOfAssumption == UserOf \in [Conns -> Users]
ASSUME PeersAssumption == Peers \subseteq Users \X Users
ASSUME ClientSetsAssumption == ClientSets \subseteq [item : Item, drop : BOOLEAN]
ASSUME StanzasAssumption == MaxStanzas \in Nat

VARIABLES
    rows,       \* the table roster: row i has the id i, as rows never go
    cache,      \* _roster_in_memory of Presence: the rows as they were read
    pending,    \* the table pending_subs: [from, to]
    task,       \* the handler that each connection is in
    stanzas,    \* stanzas ever handled
    granted,    \* history: <<u, v>> when u sent subscribed to v
    claimed,    \* history: <<u, v, x>> when u's own item for v showed x, see Claims
    lost,       \* history: <<u, v>> when u's request to v was interrupted
    seen        \* history: what was written and read, see Seen

vars == <<rows, cache, pending, task, stanzas, granted, claimed, lost, seen>>

(* began is history: how many rows there were when the handler began. *)
Row == [owner : Users, item : Item, began : Nat]
Ref == [id : Nat \ {0}, item : Item]

(* What a handler is about to write: a new row, an update of the rows that
   still hold the item that was read, or an update of the row with an id. *)
Write == [kind : {"insert", "match", "update"}, id : Nat, old : Item,
          item : Item]

(* write, entry, sender and receiver hold at most one element each. *)
Task == [pc : {"idle", "select", "install", "write", "store", "dead"},
         began : Nat, peer : Users, plugin : BOOLEAN, drop : BOOLEAN,
         next : {"create", "ask", "approve", "receiver", "store", "done"},
         after : {"ask", "approve", "done"},
         entry : SUBSET Item, write : SUBSET Write,
         snap : Seq(Row), snapOf : Nat,
         sender : SUBSET Ref, receiver : SUBSET Ref]

(* table counts the writes to the table and own is the last one of Presence;
   cache is the number of writes the cache has read, last the largest there
   was, and cut tells whether a Presence handler was interrupted. *)
Seen == [table : Nat, own : Nat, cache : Nat, last : Nat, cut : BOOLEAN]

NoTask(c) ==
    [pc |-> "idle", began |-> 0, peer |-> UserOf[c], plugin |-> FALSE, drop |-> FALSE,
     next |-> "done", after |-> "done", entry |-> {}, write |-> {},
     snap |-> <<>>, snapOf |-> 0, sender |-> {}, receiver |-> {}]

Init ==
    /\ rows = <<>>
    /\ cache = <<>>
    /\ pending = {}
    /\ task = [c \in Conns |-> NoTask(c)]
    /\ stanzas = 0
    /\ granted = {}
    /\ claimed = {}
    /\ lost = {}
    /\ seen = [table |-> 0, own |-> 0, cache |-> 0, last |-> 0, cut |-> FALSE]

(***************************************************************************)
(* What a Roster shows.                                                    *)
(***************************************************************************)
RosterOf(view, u) == {i \in DOMAIN view : view[i].owner = u}

(* The first item of u for v in one of the forms. *)
Find(view, u, v, forms) ==
    LET match == {i \in RosterOf(view, u) :
                     view[i].item.contact = v /\ view[i].item.full \in forms}
    IN  {[id |-> i, item |-> view[i].item] :
            i \in {i \in match : \A j \in match : i <= j}}

(***************************************************************************)
(* Where a handler goes on.                                                *)
(***************************************************************************)
Become(c, t) == task' = [task EXCEPT ![c] = t]
Done(c) == Become(c, NoTask(c))
(* An exception ends the bridge task of the connection: no further stanza of
   it is handled. *)
Dies(c) == Become(c, [NoTask(c) EXCEPT !.pc = "dead"])

(* _update_roster *)
Refreshing(t, next) == [t EXCEPT !.pc = "select", !.next = next]

Writing(t, kind, id, old, item, next) ==
    [t EXCEPT !.pc = "write", !.next = next,
              !.write = {[kind |-> kind, id |-> id, old |-> old, item |-> item]}]

(* update_item *)
UpdateItem(t, r, item, next) == Writing(t, "update", r.id, r.item, item, next)

(* Mutant: the item is created with an empty attribute. *)
CreateEntryBlank(t, v, after) ==
    [Refreshing(t, "create") EXCEPT
        !.entry = {[contact |-> v, full |-> FALSE, sub |-> "", ask |-> "absent"]},
        !.after = after]

(* create_roster_entry: a roster query as if of the client. *)
CreateEntry(t, v, after) ==
    [Refreshing(t, "create") EXCEPT
        !.entry = {[contact |-> v, full |-> FALSE, sub |-> "none", ask |-> "absent"]},
        !.after = after]

(* handle_set, with what feed has just read. *)
HandleSet(c, t, view) ==
    \E item \in t.entry :
        LET u == UserOf[c]
            match == Find(view, u, item.contact, {item.full})
        IN  \/ match # {} /\ t.drop /\ Dies(c)
            \/ ~ t.drop /\ \E r \in match :
                  Become(c, Writing(t, "match", 0, r.item, item, t.after))
            \/ match = {} /\ t.drop /\ RosterOf(view, u) # {} /\ Done(c)
            \/ /\ match = {} /\ (t.drop => RosterOf(view, u) = {})
               /\ Become(c, Writing(t, "insert", 0, item, item, t.after))

(* _handle_subscribe, once the entry was found or created.  An ask that is not
   subscribe is left as it is, and the request stored. *)
AskFor(c, t, view) ==
    \E r \in Find(view, UserOf[c], t.peer, BOOLEAN) :
        \/ /\ r.item.ask = "subscribe" \/ r.item.sub \in {"to", "both"}
           /\ Done(c)
        \/ /\ r.item.ask = "absent" /\ r.item.sub \notin {"to", "both"}
           /\ Become(c, UpdateItem(t, r, [r.item EXCEPT !.ask = "subscribe"], "store"))
        \/ /\ r.item.ask = "other" /\ r.item.sub \notin {"to", "both"}
           /\ Become(c, [t EXCEPT !.pc = "store", !.next = "store"])

(* The items of a Ref that an approval changes, as it changes them. *)
SenderItem(item) ==
    CASE item.sub = "none" -> [item EXCEPT !.sub = "to", !.ask = "absent"]
      [] item.sub = "from" -> [item EXCEPT !.sub = "both", !.ask = "absent"]

(* Mutant: an approval is taken for one of both sides. *)
ReceiverItemBoth(item) == [item EXCEPT !.sub = "both"]

ReceiverItem(item) ==
    CASE item.sub = "none" -> [item EXCEPT !.sub = "from"]
      [] item.sub = "to" -> [item EXCEPT !.sub = "both"]

(* _handle_subscribed, second update: the item of the user who approves.  One
   without the attribute raises KeyError. *)
UpdateReceiver(c, t) ==
    \/ t.receiver = {} /\ Done(c)
    \/ \E r \in t.receiver :
          \/ /\ r.item.sub \in {"none", "to"}
             /\ Become(c, UpdateItem(t, r, ReceiverItem(r.item), "done"))
          \/ r.item.sub = "absent" /\ Dies(c)
          \/ r.item.sub \in {"from", "both", "remove"} /\ Done(c)

(* First update: the item of the user who asked.  Both items were looked up
   before; sender is from before an entry was created, too. *)
Approve(c, t, view) ==
    LET u == [t EXCEPT !.receiver = Find(view, UserOf[c], t.peer, {FALSE})]
        changes == {r \in t.sender : r.item.sub \in {"none", "from"}}
    IN  \/ \E r \in changes :
              Become(c, UpdateItem(u, r, SenderItem(r.item), "receiver"))
        \/ changes = {} /\ UpdateReceiver(c, u)

(***************************************************************************)
(* Stanzas.                                                                *)
(***************************************************************************)
Fresh(c, v) == [NoTask(c) EXCEPT !.began = Len(rows), !.peer = v]

Takes(c) ==
    /\ task[c].pc = "idle"
    /\ stanzas < MaxStanzas
    /\ stanzas' = stanzas + 1

Subscribe(c, v) ==
    /\ Takes(c)
    /\ LET t == Fresh(c, v)
       IN  IF Find(cache, UserOf[c], v, BOOLEAN) = {}
           THEN Become(c, CreateEntry(t, v, "ask"))
           ELSE AskFor(c, t, cache)
    /\ UNCHANGED <<rows, cache, pending, granted, claimed, lost, seen>>

Subscribed(c, v) ==
    /\ Takes(c)
    /\ granted' = granted \cup {<<UserOf[c], v>>}
    /\ LET t == [Fresh(c, v) EXCEPT !.sender = Find(cache, v, UserOf[c], {FALSE})]
       IN  CASE RosterOf(cache, v) = {} -> Done(c)
             [] RosterOf(cache, v) # {} /\ RosterOf(cache, UserOf[c]) = {} ->
                   Become(c, CreateEntry(t, v, "approve"))
             [] OTHER -> Approve(c, t, cache)
    /\ UNCHANGED <<rows, cache, pending, claimed, lost, seen>>

(* _handle_unsubscribed changes the entry of its sender. *)
Unsubscribed(c, v) ==
    /\ Takes(c)
    /\ LET t == Fresh(c, v)
           found == Find(cache, UserOf[c], v, BOOLEAN)
       IN  \/ found = {} /\ Done(c)
           \/ \E r \in found :
                 CASE r.item.sub = "to" ->
                        Become(c, UpdateItem(t, r, [r.item EXCEPT !.sub = "none"], "done"))
                   [] r.item.sub = "both" ->
                        Become(c, UpdateItem(t, r, [r.item EXCEPT !.sub = "from"], "done"))
                   [] r.item.sub \notin {"to", "both"} /\ r.item.ask # "absent" ->
                        Become(c, UpdateItem(t, r, [r.item EXCEPT !.ask = "absent"], "done"))
                   [] OTHER -> Done(c)
    /\ UNCHANGED <<rows, cache, pending, granted, claimed, lost, seen>>

(* What a client's item shows of its own accord. *)
Claims(u, item) ==
    {<<u, item.contact, x>> :
        x \in {y \in {"from", "to"} : item.sub \in {y, "both"}}
               \cup {y \in {"ask"} : item.ask = "subscribe"}}

(* A roster query of type set: the plugin reads the table into its own cache
   and goes on with handle_set at once. *)
RosterSet(c, item, drop) ==
    /\ Takes(c)
    /\ Become(c, [Refreshing(Fresh(c, item.contact), "create") EXCEPT
                     !.plugin = TRUE, !.drop = drop, !.entry = {item}])
    /\ claimed' = claimed \cup Claims(UserOf[c], item)
    /\ UNCHANGED <<rows, cache, pending, granted, lost, seen>>

(***************************************************************************)
(* Accesses to the tables.                                                 *)
(***************************************************************************)
(* Mutant: _initial_update is set, so that feed reads the table once only. *)
SelectOnce(c) ==
    /\ task[c].pc = "select"
    /\ LET stale == ~ task[c].plugin /\ task[c].next = "create" /\ cache # <<>>
       IN  task' = [task EXCEPT ![c].pc = "install",
                        ![c].snap = IF stale THEN cache ELSE rows,
                        ![c].snapOf = IF stale THEN seen.cache ELSE seen.table]
    /\ UNCHANGED <<rows, cache, pending, stanzas, granted, claimed, lost, seen>>

Select(c) ==
    /\ task[c].pc = "select"
    /\ task' = [task EXCEPT ![c].pc = "install", ![c].snap = rows,
                            ![c].snapOf = seen.table]
    /\ UNCHANGED <<rows, cache, pending, stanzas, granted, claimed, lost, seen>>

GoOn(c, t, view) ==
    CASE t.next = "create" -> HandleSet(c, t, view)
      [] t.next = "ask" -> AskFor(c, t, view)
      [] t.next = "approve" -> Approve(c, t, view)
      [] t.next = "receiver" -> UpdateReceiver(c, t)
      [] t.next = "store" -> Become(c, [t EXCEPT !.pc = "store"])
      [] t.next = "done" -> Done(c)

(* Mutant: update_item leaves the cache as it is. *)
InstallCreated(c) ==
    /\ task[c].pc = "install"
    /\ IF task[c].plugin \/ task[c].next \in {"receiver", "store", "done"}
       THEN UNCHANGED <<cache, seen>>
       ELSE /\ cache' = task[c].snap
            /\ seen' = [seen EXCEPT !.cache = task[c].snapOf,
                          !.last = IF task[c].snapOf > @ THEN task[c].snapOf ELSE @]
    /\ GoOn(c, [task[c] EXCEPT !.snap = <<>>, !.snapOf = 0], task[c].snap)
    /\ UNCHANGED <<rows, pending, stanzas, granted, claimed, lost>>

(* The cache is replaced by what was read, and the handler goes on. *)
Install(c) ==
    /\ task[c].pc = "install"
    /\ IF task[c].plugin
       THEN UNCHANGED <<cache, seen>>
       ELSE /\ cache' = task[c].snap
            /\ seen' = [seen EXCEPT !.cache = task[c].snapOf,
                          !.last = IF task[c].snapOf > @ THEN task[c].snapOf ELSE @]
    /\ GoOn(c, [task[c] EXCEPT !.snap = <<>>, !.snapOf = 0], task[c].snap)
    /\ UNCHANGED <<rows, pending, stanzas, granted, claimed, lost>>

Written(c, w) ==
    CASE w.kind = "insert" ->
           Append(rows, [owner |-> UserOf[c], item |-> w.item,
                         began |-> task[c].began])
      [] w.kind = "match" ->
           [i \in DOMAIN rows |->
               IF rows[i].owner = UserOf[c] /\ rows[i].item = w.old
               THEN [rows[i] EXCEPT !.item = w.item] ELSE rows[i]]
      [] w.kind = "update" ->
           [i \in DOMAIN rows |->
               IF i = w.id THEN [rows[i] EXCEPT !.item = w.item] ELSE rows[i]]

(* The write of a handler.  What handle_set of a plugin does afterwards only
   refreshes a cache that is read anew before its next use. *)
Commit(c) ==
    /\ task[c].pc = "write"
    /\ \E w \in task[c].write : rows' = Written(c, w)
    /\ task' = [task EXCEPT ![c] = IF @.plugin THEN NoTask(c)
                                   ELSE [@ EXCEPT !.pc = "select", !.write = {}]]
    /\ seen' = [seen EXCEPT !.table = @ + 1,
                            !.own = IF task[c].plugin THEN @ ELSE seen.table + 1]
    /\ UNCHANGED <<cache, pending, stanzas, granted, claimed, lost>>

(* Mutant: a request that was delivered is not stored. *)
StoreUndelivered(c) ==
    /\ task[c].pc = "store"
    /\ Done(c)
    /\ UNCHANGED <<rows, cache, pending, stanzas, granted, claimed, lost, seen>>

(* store_pending_sub, whether or not the contact is connected.  A row with the
   same text is refused, and the handler fails. *)
StorePendingSub(c) ==
    /\ task[c].pc = "store"
    /\ LET p == [from |-> UserOf[c], to |-> task[c].peer]
       IN  \/ pending' = pending \cup {p} /\ Done(c)
           \/ p \in pending /\ Dies(c) /\ UNCHANGED pending
    /\ UNCHANGED <<rows, cache, stanzas, granted, claimed, lost, seen>>

(***************************************************************************)
(* The connection is lost: its handler is cancelled where it is suspended, *)
(* and the next connection starts with none.                               *)
(***************************************************************************)
Interrupted(c) ==
    IF task[c].pc \in {"idle", "dead"} THEN {} ELSE {<<UserOf[c], task[c].peer>>}

Interrupt(c) ==
    /\ task[c].pc # "idle"
    /\ Done(c)
    /\ lost' = lost \cup Interrupted(c)
    /\ seen' = [seen EXCEPT
                  !.cut = @ \/ (~ task[c].plugin /\ task[c].pc \in {"select", "install"})]
    /\ UNCHANGED <<rows, cache, pending, stanzas, granted, claimed>>

(* The process restarts on its database file.  The cache starts empty: only
   what Presence itself does fills it.  With a row in pending_subs the process
   would end at once: get_all_pending_presence unpacks three columns of two. *)
Restart ==
    /\ pending = {}
    /\ cache' = <<>>
    /\ task' = [c \in Conns |-> NoTask(c)]
    /\ lost' = lost \cup UNION {Interrupted(c) : c \in Conns}
    /\ seen' = [seen EXCEPT !.own = 0, !.cache = 0, !.last = 0, !.cut = FALSE]
    /\ UNCHANGED <<rows, pending, stanzas, granted, claimed>>

Stanza(c) ==
    \/ \E p \in Peers :
          /\ p[1] = UserOf[c]
          /\ Subscribe(c, p[2]) \/ Subscribed(c, p[2]) \/ Unsubscribed(c, p[2])
    \/ \E s \in ClientSets : RosterSet(c, s.item, s.drop)

Handler(c) == Select(c) \/ Install(c) \/ Commit(c) \/ StorePendingSub(c)

Next ==
    \/ \E c \in Conns : Stanza(c) \/ Handler(c) \/ Interrupt(c)
    \/ Restart

Spec == Init /\ [][Next]_vars

(***************************************************************************)
(* Properties.                                                             *)
(***************************************************************************)
TypeOK ==
    /\ rows \in Seq(Row)
    /\ cache \in Seq(Row)
    /\ pending \subseteq [from : Users, to : Users]
    /\ task \in [Conns -> Task]
    /\ stanzas \in Nat
    /\ granted \subseteq Users \X Users
    /\ claimed \subseteq Users \X Users \X {"from", "to", "ask"}
    /\ lost \subseteq Users \X Users
    /\ seen \in Seen

(* Two entries of a user for one text of the attribute jid come from handlers
   that overlapped: the second had begun before the first entry was written.
   Neither the stale cache of Presence nor that of another connection adds one
   (feed reads the table before every handle_set).  Entries in the two forms are
   two texts: handle_set compares no more, and a contact may have one of each. *)
DuplicatesOverlapped ==
    \A i, j \in DOMAIN rows :
        /\ i < j
        /\ rows[i].owner = rows[j].owner
        /\ rows[i].item.contact = rows[j].item.contact
        /\ rows[i].item.full = rows[j].item.full
        => rows[j].began < i

(* The server never makes up a subscription: whatever old copies of items
   handlers write over newer ones, an entry shows that presence goes to a contact
   only if its owner sent subscribed to him, and that it is expected of one only
   if he sent subscribed to the owner, unless the owner's own roster query said
   so, which handle_set stores as it is. *)
OnlyGranted ==
    \A i \in DOMAIN rows :
        LET u == rows[i].owner
            v == rows[i].item.contact
        IN  /\ rows[i].item.sub \in {"from", "both"} =>
                  <<u, v>> \in granted \/ <<u, v, "from">> \in claimed
            /\ rows[i].item.sub \in {"to", "both"} =>
                  <<v, u>> \in granted \/ <<u, v, "to">> \in claimed

(* A request that a roster shows as asked was stored, or is about to be, or
   its handler was interrupted, or the owner's own roster query showed it:
   _handle_subscribe marks the item first, and ignores every later request for
   it. *)
AskedIsStored ==
    \A i \in DOMAIN rows :
        LET p == [from |-> rows[i].owner, to |-> rows[i].item.contact]
        IN  rows[i].item.ask = "subscribe" =>
              \/ p \in pending
              \/ <<p.from, p.to>> \in lost
              \/ <<p.from, p.to, "ask">> \in claimed
              \/ \E c \in Conns :
                    UserOf[c] = p.from /\ task[c].peer = p.to /\ task[c].next = "store"

(* With no handler of Presence at work, its cache shows all that Presence
   wrote, unless an older read overtook a newer one or a handler was
   interrupted before it read (update_item refreshes the cache). *)
OwnWritesSeen ==
    /\ \A c \in Conns : task[c].pc \in {"idle", "dead"} \/ task[c].plugin
    /\ seen.cache = seen.last
    /\ ~ seen.cut
    => seen.cache >= seen.own
=============================================================================
