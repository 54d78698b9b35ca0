-------------------------- MODULE SubscriptionProofs --------------------------
(***************************************************************************)
(* Proofs of the safety properties of Subscription.                        *)
(*                                                                         *)
(* Handlers decide from copies: of the cache, of what they read, of items  *)
(* they looked up.  The inductive invariant says what a copy has in common *)
(* with the table however old it is: a row never goes and never changes    *)
(* its owner, contact or form, and a subscription that was granted or      *)
(* claimed, or a request that was stored, once remains so.  Hence its      *)
(* operators have the table R, the grants and claims G and the requests S  *)
(* as parameters, and all of them are monotonic in these.                  *)
(***************************************************************************)
EXTENDS Subscription, SequenceTheorems, WellFoundedInduction, TLAPS

(* What the items of a user may show of a contact: <<u, v, x>> once a grant
   or u's own roster query made x true of u's item for v. *)
Allowed ==
    {<<p[1], p[2], "from">> : p \in granted}
      \cup {<<p[2], p[1], "to">> : p \in granted}
      \cup claimed

Granted(G, u, v) == <<u, v, "from">> \in G /\ <<v, u, "to">> \in G

HistoryOK ==
    /\ granted \subseteq Users \X Users
    /\ claimed \subseteq Users \X Users \X {"from", "to", "ask"}

(* The item of o shows what was granted, claimed or stored only. *)
Fine(G, S, o, item) ==
    /\ item.sub \in {"from", "both"} => <<o, item.contact, "from">> \in G
    /\ item.sub \in {"to", "both"} => <<o, item.contact, "to">> \in G
    /\ item.ask = "subscribe" =>
          <<o, item.contact>> \in S \/ <<o, item.contact, "ask">> \in G

SameKey(i, j) == i.contact = j.contact /\ i.full = j.full

(* v is a copy of R, maybe an old one. *)
View(R, G, S, v) ==
    /\ v \in Seq(Row)
    /\ Len(v) <= Len(R)
    /\ \A i \in DOMAIN v :
          /\ v[i].owner = R[i].owner
          /\ SameKey(v[i].item, R[i].item)
          /\ Fine(G, S, v[i].owner, v[i].item)

(* The item may become that of row i. *)
Fits(R, G, S, i, item) ==
    /\ i \in DOMAIN R
    /\ SameKey(R[i].item, item)
    /\ Fine(G, S, R[i].owner, item)

(* r is a copy of an item of o for k. *)
RefOK(R, G, S, r, o, k) ==
    /\ Fits(R, G, S, r.id, r.item)
    /\ R[r.id].owner = o
    /\ r.item.contact = k

(* No row of u has the key of the item and was there when there were n. *)
NewSince(R, u, item, n) ==
    \A i \in DOMAIN R : R[i].owner = u /\ SameKey(R[i].item, item) => n < i

WriteOK(R, G, S, u, began, w) ==
    /\ w.kind = "insert" => Fine(G, S, u, w.item) /\ NewSince(R, u, w.item, began)
    /\ w.kind = "match" => Fine(G, S, u, w.item) /\ SameKey(w.old, w.item)
    /\ w.kind = "update" => Fits(R, G, S, w.id, w.item)

TaskOK(R, G, S, c, t) ==
    /\ t \in Task
    /\ t.began <= Len(R)
    /\ View(R, G, S, t.snap)
    /\ \A e \in t.entry : Fine(G, S, UserOf[c], e)
    /\ \A w \in t.write : WriteOK(R, G, S, UserOf[c], t.began, w)
    /\ \A r \in t.sender : RefOK(R, G, S, r, t.peer, UserOf[c])
    /\ \A r \in t.receiver : RefOK(R, G, S, r, UserOf[c], t.peer)
    /\ t.next = "approve" \/ t.after = "approve" \/ t.sender # {} \/ t.receiver # {}
          => Granted(G, UserOf[c], t.peer)
    /\ t.pc \in {"idle", "dead"} => t.next = "done"
    /\ t.plugin => t.after = "done" /\ t.next \in {"create", "done"}

(* The requests that are stored, or accounted for. *)
Asks(c, t) == IF t.next = "store" THEN {<<UserOf[c], t.peer>>} ELSE {}

Asked ==
    {p \in Users \X Users :
        \/ [from |-> p[1], to |-> p[2]] \in pending
        \/ p \in lost
        \/ \E c \in Conns : p \in Asks(c, task[c])}

(* What handle_set goes by was read when its handler had begun. *)
ReadSince ==
    \A c \in Conns :
        task[c].pc = "install" /\ task[c].next = "create"
            => task[c].began <= Len(task[c].snap)

(* What the caches have seen of the writes. *)
SeenInv ==
    /\ seen.own <= seen.table
    /\ seen.cache <= seen.last
    /\ seen.last <= seen.table
    /\ \A c \in Conns : task[c].pc = "install" => task[c].snapOf <= seen.table
    /\ \/ seen.cut
       \/ seen.own <= seen.last
       \/ \E c \in Conns :
             /\ ~ task[c].plugin
             /\ \/ task[c].pc = "select"
                \/ task[c].pc = "install" /\ seen.own <= task[c].snapOf

Copies ==
    /\ TypeOK
    /\ View(rows, Allowed, Asked, rows)
    /\ View(rows, Allowed, Asked, cache)
    /\ \A c \in Conns : TaskOK(rows, Allowed, Asked, c, task[c])
    /\ ReadSince

Inv == Copies /\ DuplicatesOverlapped /\ SeenInv

(* R2 is R after writes. *)
Grows(R, R2) ==
    /\ R \in Seq(Row)
    /\ R2 \in Seq(Row)
    /\ Len(R) <= Len(R2)
    /\ \A i \in DOMAIN R : R2[i].owner = R[i].owner /\ SameKey(R2[i].item, R[i].item)

(***************************************************************************)
(* The invariant's parts are monotonic.                                    *)
(***************************************************************************)
LEMMA FineGrows ==
    ASSUME NEW G, NEW G2, NEW S, NEW S2, NEW o, NEW item,
           G \subseteq G2, S \subseteq S2, Fine(G, S, o, item)
    PROVE  Fine(G2, S2, o, item)
BY DEF Fine

LEMMA FitsGrows ==
    ASSUME NEW R, NEW R2, NEW G, NEW G2, NEW S, NEW S2, NEW i, NEW item,
           Grows(R, R2), G \subseteq G2, S \subseteq S2, Fits(R, G, S, i, item)
    PROVE  Fits(R2, G2, S2, i, item) /\ R2[i].owner = R[i].owner
<1>1. i \in DOMAIN R2 /\ R2[i].owner = R[i].owner /\ SameKey(R2[i].item, R[i].item)
  BY DEF Grows, Fits
<1> QED  BY <1>1, FineGrows DEF Fits, SameKey

LEMMA RefGrows ==
    ASSUME NEW R, NEW R2, NEW G, NEW G2, NEW S, NEW S2, NEW r, NEW o, NEW k,
           Grows(R, R2), G \subseteq G2, S \subseteq S2, RefOK(R, G, S, r, o, k)
    PROVE  RefOK(R2, G2, S2, r, o, k)
<1>1. Fits(R, G, S, r.id, r.item)
  BY DEF RefOK
<1>2. Fits(R2, G2, S2, r.id, r.item) /\ R2[r.id].owner = R[r.id].owner
  BY <1>1, FitsGrows
<1> QED  BY <1>2 DEF RefOK

LEMMA ViewGrows ==
    ASSUME NEW R, NEW R2, NEW G, NEW G2, NEW S, NEW S2, NEW v,
           Grows(R, R2), G \subseteq G2, S \subseteq S2, View(R, G, S, v)
    PROVE  View(R2, G2, S2, v)
<1>1. v \in Seq(Row) /\ Len(v) <= Len(R2)
  BY DEF Grows, View
<1>2. ASSUME NEW i \in DOMAIN v
      PROVE  /\ v[i].owner = R2[i].owner
             /\ SameKey(v[i].item, R2[i].item)
             /\ Fine(G2, S2, v[i].owner, v[i].item)
  <2>1. i \in DOMAIN R
    BY DEF Grows, View
  <2> QED  BY <2>1, FineGrows DEF Grows, View, SameKey
<1> QED  BY <1>1, <1>2 DEF View

LEMMA NewSinceGrows ==
    ASSUME NEW R, NEW R2, NEW u, NEW item, NEW n \in Nat,
           Grows(R, R2), n <= Len(R), NewSince(R, u, item, n)
    PROVE  NewSince(R2, u, item, n)
<1> SUFFICES ASSUME NEW i \in DOMAIN R2, R2[i].owner = u, SameKey(R2[i].item, item)
             PROVE  n < i
  BY DEF NewSince
<1>1. CASE i \in DOMAIN R
  BY <1>1 DEF NewSince, Grows, SameKey
<1>2. CASE i \notin DOMAIN R
  BY <1>2 DEF Grows
<1> QED  BY <1>1, <1>2

LEMMA TaskGrows ==
    ASSUME NEW R, NEW R2, NEW G, NEW G2, NEW S, NEW S2, NEW c, NEW t,
           Grows(R, R2), G \subseteq G2, S \subseteq S2, TaskOK(R, G, S, c, t)
    PROVE  TaskOK(R2, G2, S2, c, t)
<1>1. t \in Task /\ t.began \in Nat /\ t.began <= Len(R) /\ t.began <= Len(R2)
  BY DEF TaskOK, Task, Grows
<1>2. View(R2, G2, S2, t.snap)
  BY ViewGrows DEF TaskOK
<1>3. ASSUME NEW w \in t.write
      PROVE  WriteOK(R2, G2, S2, UserOf[c], t.began, w)
  <2>1. WriteOK(R, G, S, UserOf[c], t.began, w)
    BY DEF TaskOK
  <2> QED  BY <1>1, <2>1, FineGrows, FitsGrows, NewSinceGrows DEF WriteOK
<1>4. \A r \in t.sender : RefOK(R2, G2, S2, r, t.peer, UserOf[c])
  BY RefGrows DEF TaskOK
<1>5. \A r \in t.receiver : RefOK(R2, G2, S2, r, UserOf[c], t.peer)
  BY RefGrows DEF TaskOK
<1>6. \A e \in t.entry : Fine(G2, S2, UserOf[c], e)
  BY FineGrows DEF TaskOK
<1>7. Granted(G, UserOf[c], t.peer) => Granted(G2, UserOf[c], t.peer)
  BY DEF Granted
<1> QED  BY <1>1, <1>2, <1>3, <1>4, <1>5, <1>6, <1>7 DEF TaskOK

(***************************************************************************)
(* What handlers decide keeps their tasks in order.  A Decision is taken   *)
(* for what the tables are now; G are the grants after the step.           *)
(***************************************************************************)
Decision(R, G, S, c, t) ==
    /\ task' = [task EXCEPT ![c] = t]
    /\ TaskOK(R, G, S \cup Asks(c, t), c, t)
    /\ t.pc # "install"

LEMMA FindOK ==
    ASSUME NEW R, NEW G, NEW S, NEW view, NEW u, NEW v, NEW forms,
           View(R, G, S, view), R \in Seq(Row),
           NEW r \in Find(view, u, v, forms)
    PROVE  r \in Ref /\ RefOK(R, G, S, r, u, v) /\ r.item.full \in forms
<1>1. PICK i \in DOMAIN view :
         /\ view[i].owner = u
         /\ view[i].item.contact = v
         /\ view[i].item.full \in forms
         /\ r = [id |-> i, item |-> view[i].item]
  BY DEF Find, RosterOf
<1>2. view[i] \in Row /\ i \in Nat \ {0} /\ i \in DOMAIN R /\ R[i] \in Row
  BY DEF View
<1>3. r.id = i /\ r.item = view[i].item /\ r \in Ref
  BY <1>1, <1>2 DEF Ref, Row
<1>4. Fits(R, G, S, i, view[i].item) /\ R[i].owner = u
  BY <1>1, <1>2 DEF View, Fits, SameKey
<1> QED  BY <1>1, <1>3, <1>4 DEF RefOK

LEMMA Least ==
    ASSUME NEW T \in SUBSET Nat, T # {}
    PROVE  \E x \in T : \A y \in T : x <= y
<1> DEFINE Less == {p \in Nat \X Nat : p[1] < p[2]}
<1>1. IsWellFoundedOn(Less, Nat)
  BY NatLessThanWellFounded DEF OpToRel
<1>2. PICK x \in T : \A y \in T : <<y, x>> \notin Less
  BY <1>1, WFMin
<1>3. ASSUME NEW y \in T
      PROVE  x <= y
  <2>1. x \in Nat /\ y \in Nat /\ <<y, x>> \notin Less
    BY <1>2
  <2> QED  BY <2>1
<1> QED  BY <1>3

LEMMA NotFound ==
    ASSUME NEW view \in Seq(Row), NEW u, NEW v, NEW forms,
           Find(view, u, v, forms) = {}
    PROVE  \A i \in DOMAIN view :
              ~ (/\ view[i].owner = u
                 /\ view[i].item.contact = v
                 /\ view[i].item.full \in forms)
<1> DEFINE match == {i \in RosterOf(view, u) :
                        view[i].item.contact = v /\ view[i].item.full \in forms}
<1>1. match \in SUBSET Nat
  BY DEF RosterOf
<1>2. \A i \in match : ~ (\A j \in match : i <= j)
  BY DEF Find
<1>3. match = {}
  BY <1>1, <1>2, Least
<1> QED  BY <1>3 DEF RosterOf

(***************************************************************************)
(* A handler that ended.                                                   *)
(***************************************************************************)
LEMMA EmptyView ==
    ASSUME NEW R \in Seq(Row), NEW G, NEW S
    PROVE  View(R, G, S, <<>>)
BY EmptySeq DEF View

LEMMA Ended ==
    ASSUME NEW R \in Seq(Row), NEW G, NEW S, NEW c \in Conns, Done(c) \/ Dies(c)
    PROVE  \E t : Decision(R, G, S, c, t) /\ Asks(c, t) = {}
<1> DEFINE dead == [NoTask(c) EXCEPT !.pc = "dead"]
<1>1. NoTask(c) \in Task /\ dead \in Task
  BY UserOfAssumption, EmptySeq DEF NoTask, Task
<1>2. Asks(c, NoTask(c)) = {} /\ Asks(c, dead) = {}
  BY DEF Asks, NoTask
<1>3. View(R, G, S \cup Asks(c, NoTask(c)), <<>>) /\ View(R, G, S \cup Asks(c, dead), <<>>)
  BY EmptyView
<1>4. CASE Done(c)
  <2>1. TaskOK(R, G, S \cup Asks(c, NoTask(c)), c, NoTask(c))
    BY <1>1, <1>3 DEF NoTask, TaskOK
  <2> QED  BY <1>2, <1>4, <2>1 DEF Decision, Done, Become, NoTask
<1>5. CASE Dies(c)
  <2>1. TaskOK(R, G, S \cup Asks(c, dead), c, dead)
    BY <1>1, <1>3 DEF NoTask, TaskOK
  <2> QED  BY <1>2, <1>5, <2>1 DEF Decision, Dies, Become, NoTask
<1> QED  BY <1>4, <1>5

(***************************************************************************)
(* A handler that goes on to write.                                        *)
(***************************************************************************)
LEMMA StaysOK ==
    ASSUME NEW R \in Seq(Row), NEW G, NEW S, NEW S2, NEW c, NEW t,
           TaskOK(R, G, S, c, t), S \subseteq S2
    PROVE  TaskOK(R, G, S2, c, t)
<1>1. Grows(R, R)
  BY DEF Grows, SameKey
<1> QED  BY <1>1, TaskGrows

Writes(t, t2, w, next) == t2 = [t EXCEPT !.pc = "write", !.next = next, !.write = {w}]

CanWrite(R, G, S, c, t, w, next) ==
    /\ w \in Write
    /\ WriteOK(R, G, S, UserOf[c], t.began, w)
    /\ next \in {"ask", "approve", "receiver", "store", "done"}
    /\ t.plugin => next = "done"
    /\ next = "approve" => t.after = "approve"

LEMMA WritingKept ==
    ASSUME NEW R, NEW G, NEW S, NEW c, NEW t, NEW t2, NEW w, NEW next,
           TaskOK(R, G, S, c, t),
           CanWrite(R, G, S, c, t, w, next),
           Writes(t, t2, w, next)
    PROVE  /\ TaskOK(R, G, S, c, t2)
           /\ t2.pc = "write" /\ t2.next = next /\ t2.peer = t.peer
<1>1. t \in Task
  BY DEF TaskOK
<1>2. t2 \in Task
  BY <1>1 DEF Task, Writes, CanWrite
<1>3. /\ t2.pc = "write" /\ t2.next = next /\ t2.write = {w}
      /\ t2.began = t.began /\ t2.peer = t.peer /\ t2.plugin = t.plugin
      /\ t2.after = t.after /\ t2.entry = t.entry /\ t2.snap = t.snap
      /\ t2.sender = t.sender /\ t2.receiver = t.receiver
  BY <1>1 DEF Task, Writes
<1>4. TaskOK(R, G, S, c, t2)
  BY <1>2, <1>3 DEF TaskOK, CanWrite
<1> QED  BY <1>3, <1>4

LEMMA UpdateKept ==
    ASSUME NEW R \in Seq(Row), NEW G, NEW S, NEW S2, NEW c \in Conns, NEW t,
           TaskOK(R, G, S, c, t), ~ t.plugin,
           NEW r \in Ref, NEW item \in Item, NEW next \in {"receiver", "store", "done"},
           S2 = S \cup IF next = "store" THEN {<<UserOf[c], t.peer>>} ELSE {},
           Fits(R, G, S2, r.id, item),
           Become(c, UpdateItem(t, r, item, next))
    PROVE  \E t2 : Decision(R, G, S, c, t2)
<1> DEFINE w == [kind |-> "update", id |-> r.id, old |-> r.item, item |-> item]
           t2 == UpdateItem(t, r, item, next)
<1>1. w \in Write /\ WriteOK(R, G, S2, UserOf[c], t.began, w)
  BY DEF WriteOK, Write, Ref
<1>2. Writes(t, t2, w, next)
  BY DEF UpdateItem, Writing, Writes
<1>3. CanWrite(R, G, S2, c, t, w, next)
  BY <1>1 DEF CanWrite
<1>4. TaskOK(R, G, S2, c, t)
  BY StaysOK
<1>5. /\ TaskOK(R, G, S2, c, t2)
      /\ t2.pc = "write" /\ t2.next = next /\ t2.peer = t.peer
  <2> HIDE DEF w, t2
  <2> QED  BY <1>2, <1>3, <1>4, WritingKept
<1>6. TaskOK(R, G, S \cup Asks(c, t2), c, t2)
  BY <1>5 DEF Asks
<1> QED  BY <1>5, <1>6 DEF Decision, Become

(* The handler goes on to store the request. *)
LEMMA StoreKept ==
    ASSUME NEW R \in Seq(Row), NEW G, NEW S, NEW c \in Conns, NEW t, NEW t2,
           TaskOK(R, G, S, c, t), ~ t.plugin,
           t2 = [t EXCEPT !.pc = "store", !.next = "store"], Become(c, t2)
    PROVE  Decision(R, G, S, c, t2) /\ Asks(c, t2) = {<<UserOf[c], t.peer>>}
<1>1. t \in Task
  BY DEF TaskOK
<1>2. /\ t2 \in Task
      /\ t2.receiver = t.receiver /\ t2.sender = t.sender /\ t2.write = t.write
      /\ t2.pc = "store" /\ t2.next = "store" /\ t2.after = t.after
      /\ t2.peer = t.peer /\ t2.began = t.began /\ t2.plugin = t.plugin
      /\ t2.entry = t.entry /\ t2.snap = t.snap
  BY <1>1 DEF Task
<1>3. TaskOK(R, G, S \cup Asks(c, t2), c, t)
  BY StaysOK
<1>4. TaskOK(R, G, S \cup Asks(c, t2), c, t2)
  BY <1>2, <1>3 DEF TaskOK
<1> QED  BY <1>2, <1>4 DEF Decision, Become, Asks

LEMMA AskForKept ==
    ASSUME NEW R \in Seq(Row), NEW G, NEW S, NEW c \in Conns, NEW t, NEW view,
           TaskOK(R, G, S, c, t), ~ t.plugin, View(R, G, S, view),
           AskFor(c, t, view)
    PROVE  \E t2 : Decision(R, G, S, c, t2)
<1>1. PICK r \in Find(view, UserOf[c], t.peer, BOOLEAN) :
         \/ Done(c)
         \/ Become(c, UpdateItem(t, r, [r.item EXCEPT !.ask = "subscribe"], "store"))
         \/ Become(c, [t EXCEPT !.pc = "store", !.next = "store"])
  BY DEF AskFor
<1>2. r \in Ref /\ RefOK(R, G, S, r, UserOf[c], t.peer)
  BY FindOK
<1>3. CASE Done(c)
  BY <1>3, Ended
<1>4. CASE Become(c, UpdateItem(t, r, [r.item EXCEPT !.ask = "subscribe"], "store"))
  <2> DEFINE item == [r.item EXCEPT !.ask = "subscribe"]
  <2>1. /\ r.item \in Item /\ item \in Item
        /\ item.contact = r.item.contact /\ item.full = r.item.full
        /\ item.sub = r.item.sub
    BY <1>2 DEF Ref, Item
  <2>2. Fits(R, G, S \cup {<<UserOf[c], t.peer>>}, r.id, item)
    <3> HIDE DEF item
    <3>1. /\ Fits(R, G, S, r.id, r.item)
          /\ R[r.id].owner = UserOf[c] /\ r.item.contact = t.peer
      BY <1>2 DEF RefOK
    <3>2. Fine(G, S \cup {<<UserOf[c], t.peer>>}, R[r.id].owner, item)
      BY <2>1, <3>1 DEF Fits, Fine
    <3> QED  BY <2>1, <3>1, <3>2 DEF Fits, SameKey
  <2> HIDE DEF item
  <2>3. Become(c, UpdateItem(t, r, item, "store"))
    BY <1>4 DEF item
  <2> QED  BY <1>2, <2>1, <2>2, <2>3, UpdateKept
<1>5. CASE Become(c, [t EXCEPT !.pc = "store", !.next = "store"])
  BY <1>5, StoreKept
<1> QED  BY <1>1, <1>3, <1>4, <1>5

LEMMA UpdateReceiverKept ==
    ASSUME NEW R \in Seq(Row), NEW G, NEW S, NEW c \in Conns, NEW t,
           TaskOK(R, G, S, c, t), ~ t.plugin, UpdateReceiver(c, t)
    PROVE  \E t2 : Decision(R, G, S, c, t2)
<1>1. CASE Done(c) \/ Dies(c)
  BY <1>1, Ended
<1>2. CASE ~ (Done(c) \/ Dies(c))
  <2>1. PICK r \in t.receiver :
           /\ r.item.sub \in {"none", "to"}
           /\ Become(c, UpdateItem(t, r, ReceiverItem(r.item), "done"))
    BY <1>2 DEF UpdateReceiver
  <2> DEFINE item == ReceiverItem(r.item)
  <2>2. /\ r \in Ref /\ r.item \in Item
        /\ RefOK(R, G, S, r, UserOf[c], t.peer)
        /\ Granted(G, UserOf[c], t.peer)
    BY DEF TaskOK, Task, Ref
  <2>3. /\ item \in Item
        /\ item.contact = r.item.contact /\ item.full = r.item.full
        /\ item.ask = r.item.ask
        /\ item.sub = IF r.item.sub = "to" THEN "both" ELSE "from"
    BY <2>1, <2>2 DEF ReceiverItem, Item, Subs
  <2>4. Fits(R, G, S, r.id, item)
    <3> HIDE DEF item
    <3>1. /\ Fits(R, G, S, r.id, r.item)
          /\ R[r.id].owner = UserOf[c] /\ r.item.contact = t.peer
      BY <2>2 DEF RefOK
    <3>2. Fine(G, S, R[r.id].owner, item)
      BY <2>1, <2>2, <2>3, <3>1 DEF Fits, Fine, Granted
    <3> QED  BY <2>3, <3>1, <3>2 DEF Fits, SameKey
  <2>5. Become(c, UpdateItem(t, r, item, "done"))
    BY <2>1
  <2> HIDE DEF item
  <2> QED  BY <2>2, <2>3, <2>4, <2>5, UpdateKept
<1> QED  BY <1>1, <1>2

LEMMA ApproveKept ==
    ASSUME NEW R \in Seq(Row), NEW G, NEW S, NEW c \in Conns, NEW t, NEW view,
           TaskOK(R, G, S, c, t), ~ t.plugin, View(R, G, S, view),
           Granted(G, UserOf[c], t.peer), Approve(c, t, view)
    PROVE  \E t2 : Decision(R, G, S, c, t2)
<1> DEFINE found == Find(view, UserOf[c], t.peer, {FALSE})
           u == [t EXCEPT !.receiver = found]
<1>1. t \in Task
  BY DEF TaskOK
<1>2. \A r \in found : r \in Ref /\ RefOK(R, G, S, r, UserOf[c], t.peer)
  BY FindOK
<1>3. /\ u \in Task
      /\ u.receiver = found /\ u.sender = t.sender /\ u.write = t.write
      /\ u.pc = t.pc /\ u.next = t.next /\ u.after = t.after /\ u.peer = t.peer
      /\ u.began = t.began /\ u.plugin = t.plugin /\ u.entry = t.entry
      /\ u.snap = t.snap
  <2> HIDE DEF found
  <2> QED  BY <1>1, <1>2 DEF Task
<1>4. TaskOK(R, G, S, c, u)
  <2> HIDE DEF found, u
  <2> QED  BY <1>2, <1>3 DEF TaskOK
<1>5. CASE UpdateReceiver(c, u)
  <2> HIDE DEF u
  <2> QED  BY <1>3, <1>4, <1>5, UpdateReceiverKept
<1>6. CASE ~ UpdateReceiver(c, u)
  <2>1. PICK r \in t.sender :
           /\ r.item.sub \in {"none", "from"}
           /\ Become(c, UpdateItem(u, r, SenderItem(r.item), "receiver"))
    BY <1>6 DEF Approve
  <2> DEFINE item == SenderItem(r.item)
  <2>2. /\ r \in Ref /\ r.item \in Item
        /\ RefOK(R, G, S, r, t.peer, UserOf[c])
    BY DEF TaskOK, Task, Ref
  <2>3. /\ item \in Item
        /\ item.contact = r.item.contact /\ item.full = r.item.full
        /\ item.ask = "absent"
        /\ item.sub = IF r.item.sub = "from" THEN "both" ELSE "to"
    BY <2>1, <2>2 DEF SenderItem, Item, Subs
  <2>4. Fits(R, G, S, r.id, item)
    <3> HIDE DEF item
    <3>1. /\ Fits(R, G, S, r.id, r.item)
          /\ R[r.id].owner = t.peer /\ r.item.contact = UserOf[c]
      BY <2>2 DEF RefOK
    <3>2. Fine(G, S, R[r.id].owner, item)
      BY <2>1, <2>3, <3>1 DEF Fits, Fine, Granted
    <3> QED  BY <2>3, <3>1, <3>2 DEF Fits, SameKey
  <2>5. Become(c, UpdateItem(u, r, item, "receiver")) /\ ~ u.plugin
    BY <1>3, <2>1
  <2> HIDE DEF item, u
  <2> QED  BY <1>4, <2>2, <2>3, <2>4, <2>5, UpdateKept
<1> QED  BY <1>5, <1>6

LEMMA WriteKept ==
    ASSUME NEW R \in Seq(Row), NEW G, NEW S, NEW c \in Conns, NEW t, NEW w,
           TaskOK(R, G, S, c, t), CanWrite(R, G, S, c, t, w, t.after),
           Become(c, Writing(t, w.kind, w.id, w.old, w.item, t.after))
    PROVE  \E t2 : Decision(R, G, S, c, t2)
<1> DEFINE t2 == Writing(t, w.kind, w.id, w.old, w.item, t.after)
<1>1. w = [kind |-> w.kind, id |-> w.id, old |-> w.old, item |-> w.item]
  BY DEF CanWrite, Write
<1>2. Writes(t, t2, w, t.after)
  BY <1>1 DEF Writing, Writes
<1>3. /\ TaskOK(R, G, S, c, t2)
      /\ t2.pc = "write" /\ t2.next = t.after /\ t2.peer = t.peer
  <2> HIDE DEF t2
  <2> QED  BY <1>2, WritingKept
<1>4. Asks(c, t2) = {}
  <2>1. t.after # "store"
    BY DEF TaskOK, Task
  <2> QED  BY <1>3, <2>1 DEF Asks
<1>5. TaskOK(R, G, S \cup Asks(c, t2), c, t2)
  <2> HIDE DEF t2
  <2>1. S \cup Asks(c, t2) = S
    BY <1>4
  <2> QED  BY <1>3, <2>1
<1> QED  BY <1>3, <1>5 DEF Decision, Become

LEMMA HandleSetKept ==
    ASSUME NEW R \in Seq(Row), NEW G, NEW S, NEW c \in Conns, NEW t, NEW view,
           TaskOK(R, G, S, c, t), View(R, G, S, view), t.began <= Len(view),
           HandleSet(c, t, view)
    PROVE  \E t2 : Decision(R, G, S, c, t2)
<1>1. PICK item \in t.entry :
         LET match == Find(view, UserOf[c], item.contact, {item.full})
         IN  \/ Done(c) \/ Dies(c)
             \/ \E r \in match :
                   Become(c, Writing(t, "match", 0, r.item, item, t.after))
             \/ /\ match = {}
                /\ Become(c, Writing(t, "insert", 0, item, item, t.after))
  BY DEF HandleSet
<1> DEFINE match == Find(view, UserOf[c], item.contact, {item.full})
<1>2. /\ t \in Task /\ item \in Item /\ Fine(G, S, UserOf[c], item)
      /\ t.after \in {"ask", "approve", "done"} /\ (t.plugin => t.after = "done")
  BY DEF TaskOK, Task
<1>3. CASE Done(c) \/ Dies(c)
  BY <1>3, Ended
<1>4. ASSUME NEW r \in match,
             Become(c, Writing(t, "match", 0, r.item, item, t.after))
      PROVE  \E t2 : Decision(R, G, S, c, t2)
  <2> DEFINE w == [kind |-> "match", id |-> 0, old |-> r.item, item |-> item]
  <2>1. r.item \in Item /\ SameKey(r.item, item)
    BY FindOK DEF RefOK, Ref, SameKey
  <2>2. /\ w \in Write /\ w.kind = "match" /\ w.id = 0
        /\ w.old = r.item /\ w.item = item
    BY <1>2, <2>1 DEF Write
  <2> HIDE DEF w
  <2>3. CanWrite(R, G, S, c, t, w, t.after)
    BY <1>2, <2>1, <2>2 DEF CanWrite, WriteOK
  <2>4. Become(c, Writing(t, w.kind, w.id, w.old, w.item, t.after))
    BY <1>4, <2>2
  <2> QED  BY <2>3, <2>4, WriteKept
<1>5. ASSUME match = {}, Become(c, Writing(t, "insert", 0, item, item, t.after))
      PROVE  \E t2 : Decision(R, G, S, c, t2)
  <2> DEFINE w == [kind |-> "insert", id |-> 0, old |-> item, item |-> item]
  <2>1. NewSince(R, UserOf[c], item, t.began)
    <3> SUFFICES ASSUME NEW i \in DOMAIN R, R[i].owner = UserOf[c],
                        SameKey(R[i].item, item), i <= t.began
                 PROVE  FALSE
      BY <1>2 DEF NewSince, Task
    <3>1. view \in Seq(Row) /\ i \in DOMAIN view
      BY <1>2 DEF View, Task
    <3>2. /\ view[i].owner = UserOf[c]
          /\ view[i].item.contact = item.contact
          /\ view[i].item.full \in {item.full}
      BY <3>1 DEF View, SameKey
    <3> QED  BY <1>5, <3>1, <3>2, NotFound
  <2>2. /\ w \in Write /\ w.kind = "insert" /\ w.id = 0
        /\ w.old = item /\ w.item = item
    BY <1>2 DEF Write
  <2> HIDE DEF w
  <2>3. CanWrite(R, G, S, c, t, w, t.after)
    BY <1>2, <2>1, <2>2 DEF CanWrite, WriteOK
  <2>4. Become(c, Writing(t, w.kind, w.id, w.old, w.item, t.after))
    BY <1>5, <2>2
  <2> QED  BY <2>3, <2>4, WriteKept
<1> QED  BY <1>1, <1>3, <1>4, <1>5

Cleared(t) == [t EXCEPT !.snap = <<>>, !.snapOf = 0]

LEMMA GoOnKept ==
    ASSUME NEW R \in Seq(Row), NEW G, NEW S, NEW c \in Conns, NEW t,
           TaskOK(R, G, S, c, t), t.pc = "install",
           t.next = "create" => t.began <= Len(t.snap),
           GoOn(c, Cleared(t), t.snap)
    PROVE  \E t2 : Decision(R, G, S, c, t2) /\ Asks(c, t) \subseteq Asks(c, t2)
<1> DEFINE u == Cleared(t)
           view == t.snap
<1>1. t \in Task /\ View(R, G, S, view)
  BY DEF TaskOK
<1>2. /\ u \in Task
      /\ u.receiver = t.receiver /\ u.sender = t.sender /\ u.write = t.write
      /\ u.pc = t.pc /\ u.next = t.next /\ u.after = t.after /\ u.peer = t.peer
      /\ u.began = t.began /\ u.plugin = t.plugin /\ u.entry = t.entry
      /\ u.snap = <<>>
  BY <1>1, EmptySeq DEF Task, Cleared
<1>3. TaskOK(R, G, S, c, u)
  <2>1. View(R, G, S, u.snap)
    BY <1>2, EmptyView
  <2> HIDE DEF u
  <2> QED  BY <1>2, <2>1 DEF TaskOK
<1>4. /\ u.next \in {"create", "ask", "approve", "receiver", "store", "done"}
      /\ u.plugin => u.next \in {"create", "done"}
  BY <1>2, <1>3 DEF TaskOK, Task
<1>5. GoOn(c, u, view)
  OBVIOUS
<1>12. u.next # "store" => Asks(c, t) = {}
  BY <1>2 DEF Asks
<1> HIDE DEF u, view
<1>6. CASE u.next = "create"
  <2>1. HandleSet(c, u, view) /\ u.began <= Len(view)
    BY <1>2, <1>5, <1>6 DEF GoOn, view
  <2> QED  BY <1>1, <1>3, <1>6, <1>12, <2>1, HandleSetKept
<1>7. CASE u.next = "ask"
  <2>1. AskFor(c, u, view) /\ ~ u.plugin
    BY <1>4, <1>5, <1>7 DEF GoOn
  <2> QED  BY <1>1, <1>3, <1>7, <1>12, <2>1, AskForKept
<1>8. CASE u.next = "approve"
  <2>1. Approve(c, u, view) /\ ~ u.plugin /\ Granted(G, UserOf[c], u.peer)
    BY <1>3, <1>4, <1>5, <1>8 DEF GoOn, TaskOK
  <2> QED  BY <1>1, <1>3, <1>8, <1>12, <2>1, ApproveKept
<1>9. CASE u.next = "receiver"
  <2>1. UpdateReceiver(c, u) /\ ~ u.plugin
    BY <1>4, <1>5, <1>9 DEF GoOn
  <2> QED  BY <1>3, <1>9, <1>12, <2>1, UpdateReceiverKept
<1>10. CASE u.next = "store"
  <2> DEFINE t2 == [u EXCEPT !.pc = "store"]
  <2>1. Become(c, t2)
    BY <1>5, <1>10 DEF GoOn
  <2>2. /\ t2 \in Task
        /\ t2.receiver = u.receiver /\ t2.sender = u.sender /\ t2.write = u.write
        /\ t2.pc = "store" /\ t2.next = u.next /\ t2.after = u.after
        /\ t2.peer = u.peer /\ t2.began = u.began /\ t2.plugin = u.plugin
        /\ t2.entry = u.entry /\ t2.snap = u.snap
    BY <1>2 DEF Task
  <2> HIDE DEF t2
  <2>3. TaskOK(R, G, S \cup Asks(c, t2), c, u)
    BY <1>3, StaysOK
  <2>4. TaskOK(R, G, S \cup Asks(c, t2), c, t2)
    BY <2>2, <2>3 DEF TaskOK
  <2>5. Asks(c, t) \subseteq Asks(c, t2)
    BY <1>2, <2>2 DEF Asks
  <2> QED  BY <2>1, <2>2, <2>4, <2>5 DEF Decision, Become
<1>11. CASE u.next = "done"
  <2>1. Done(c)
    BY <1>5, <1>11 DEF GoOn
  <2> QED  BY <1>11, <1>12, <2>1, Ended
<1> QED  BY <1>4, <1>6, <1>7, <1>8, <1>9, <1>10, <1>11

(***************************************************************************)
(* Stanzas.                                                                *)
(***************************************************************************)
LEMMA FreshOK ==
    ASSUME rows \in Seq(Row), NEW G, NEW S, NEW c \in Conns, NEW v \in Users
    PROVE  /\ TaskOK(rows, G, S, c, Fresh(c, v))
           /\ ~ Fresh(c, v).plugin /\ Fresh(c, v).peer = v
           /\ Fresh(c, v).sender = {} /\ Fresh(c, v).pc = "idle"
<1> DEFINE n == NoTask(c)
<1>1. /\ n \in Task
      /\ n.pc = "idle" /\ n.plugin = FALSE /\ n.next = "done" /\ n.after = "done"
      /\ n.entry = {} /\ n.write = {} /\ n.snap = <<>> /\ n.sender = {} /\ n.receiver = {}
  BY UserOfAssumption, EmptySeq DEF NoTask, Task
<1>2. Fresh(c, v) = [n EXCEPT !.began = Len(rows), !.peer = v]
  BY DEF Fresh
<1> HIDE DEF n
<1> DEFINE t == Fresh(c, v)
<1>3. Len(rows) \in Nat
  OBVIOUS
<1>4. /\ t \in Task
      /\ t.pc = "idle" /\ t.plugin = FALSE /\ t.next = "done" /\ t.after = "done"
      /\ t.entry = {} /\ t.write = {} /\ t.snap = <<>> /\ t.sender = {} /\ t.receiver = {}
      /\ t.began = Len(rows) /\ t.peer = v
  BY <1>1, <1>2, <1>3 DEF Task
<1>5. View(rows, G, S, t.snap)
  BY <1>4, EmptyView
<1> HIDE DEF t
<1>6. TaskOK(rows, G, S, c, t)
  BY <1>4, <1>5 DEF TaskOK
<1> QED  BY <1>4, <1>6 DEF t

LEMMA CreateKept ==
    ASSUME NEW R \in Seq(Row), NEW G, NEW S, NEW c \in Conns, NEW t,
           TaskOK(R, G, S, c, t), ~ t.plugin,
           NEW v \in Users, NEW after \in {"ask", "approve"},
           after = "approve" => Granted(G, UserOf[c], t.peer),
           Become(c, CreateEntry(t, v, after))
    PROVE  \E t2 : Decision(R, G, S, c, t2)
<1> DEFINE e == [contact |-> v, full |-> FALSE, sub |-> "none", ask |-> "absent"]
           t2 == CreateEntry(t, v, after)
<1>1. t \in Task
  BY DEF TaskOK
<1>2. e \in Item /\ Fine(G, S, UserOf[c], e)
  BY DEF Item, Subs, Fine
<1> HIDE DEF e
<1>3. t2 = [t EXCEPT !.pc = "select", !.next = "create", !.entry = {e}, !.after = after]
  BY DEF CreateEntry, Refreshing, e
<1> HIDE DEF t2
<1>4. /\ t2 \in Task
      /\ t2.pc = "select" /\ t2.next = "create" /\ t2.entry = {e} /\ t2.after = after
      /\ t2.receiver = t.receiver /\ t2.sender = t.sender /\ t2.write = t.write
      /\ t2.peer = t.peer /\ t2.began = t.began /\ t2.plugin = t.plugin
      /\ t2.snap = t.snap
  BY <1>1, <1>2, <1>3 DEF Task
<1>5. Become(c, t2)
  BY DEF t2
<1>6. TaskOK(R, G, S, c, t2) /\ Asks(c, t2) = {}
  BY <1>2, <1>4 DEF TaskOK, Asks
<1>7. TaskOK(R, G, S \cup Asks(c, t2), c, t2)
  BY <1>6, StaysOK
<1> QED  BY <1>4, <1>5, <1>7 DEF Decision, Become

LEMMA SubscribeKept ==
    ASSUME Copies, NEW c \in Conns, NEW v \in Users, Subscribe(c, v)
    PROVE  \E t : Decision(rows, Allowed, Asked, c, t)
<1> DEFINE t == Fresh(c, v)
<1>1. rows \in Seq(Row) /\ View(rows, Allowed, Asked, cache)
  BY DEF Copies, TypeOK
<1>2. TaskOK(rows, Allowed, Asked, c, t) /\ ~ t.plugin
  BY <1>1, FreshOK
<1>3. \/ Become(c, CreateEntry(t, v, "ask"))
      \/ AskFor(c, t, cache)
  BY DEF Subscribe
<1> HIDE DEF t
<1> QED  BY <1>1, <1>2, <1>3, CreateKept, AskForKept

LEMMA UnsubscribedKept ==
    ASSUME Copies, NEW c \in Conns, NEW v \in Users, Unsubscribed(c, v)
    PROVE  \E t : Decision(rows, Allowed, Asked, c, t)
<1> DEFINE t == Fresh(c, v)
           found == Find(cache, UserOf[c], v, BOOLEAN)
<1>1. rows \in Seq(Row) /\ View(rows, Allowed, Asked, cache)
  BY DEF Copies, TypeOK
<1>2. TaskOK(rows, Allowed, Asked, c, t) /\ ~ t.plugin
  BY <1>1, FreshOK
<1>3. CASE Done(c)
  BY <1>1, <1>3, Ended
<1>4. CASE ~ Done(c)
  <2>1. PICK r \in found :
           \/ r.item.sub = "to"
              /\ Become(c, UpdateItem(t, r, [r.item EXCEPT !.sub = "none"], "done"))
           \/ r.item.sub = "both"
              /\ Become(c, UpdateItem(t, r, [r.item EXCEPT !.sub = "from"], "done"))
           \/ Become(c, UpdateItem(t, r, [r.item EXCEPT !.ask = "absent"], "done"))
    BY <1>4 DEF Unsubscribed
  <2>2. r \in Ref /\ r.item \in Item /\ Fits(rows, Allowed, Asked, r.id, r.item)
    BY <1>1, FindOK DEF RefOK, Ref
  <2>3. ASSUME NEW item \in Item, Become(c, UpdateItem(t, r, item, "done")),
               item.contact = r.item.contact, item.full = r.item.full,
               item.ask \in {"absent", r.item.ask},
               \/ item.sub = r.item.sub
               \/ item.sub = "none"
               \/ item.sub = "from" /\ r.item.sub = "both"
        PROVE  \E t2 : Decision(rows, Allowed, Asked, c, t2)
    <3>1. Fits(rows, Allowed, Asked, r.id, item)
      BY <2>2, <2>3 DEF Fits, SameKey, Fine
    <3> HIDE DEF t
    <3> QED  BY <1>1, <1>2, <2>2, <2>3, <3>1, UpdateKept
  <2> DEFINE none == [r.item EXCEPT !.sub = "none"]
             from == [r.item EXCEPT !.sub = "from"]
             calm == [r.item EXCEPT !.ask = "absent"]
  <2>4. /\ none \in Item /\ none.contact = r.item.contact /\ none.full = r.item.full
        /\ none.ask = r.item.ask /\ none.sub = "none"
        /\ from \in Item /\ from.contact = r.item.contact /\ from.full = r.item.full
        /\ from.ask = r.item.ask /\ from.sub = "from"
        /\ calm \in Item /\ calm.contact = r.item.contact /\ calm.full = r.item.full
        /\ calm.ask = "absent" /\ calm.sub = r.item.sub
    BY <2>2 DEF Item, Subs
  <2>5. \/ r.item.sub = "to" /\ Become(c, UpdateItem(t, r, none, "done"))
        \/ r.item.sub = "both" /\ Become(c, UpdateItem(t, r, from, "done"))
        \/ Become(c, UpdateItem(t, r, calm, "done"))
    BY <2>1
  <2> HIDE DEF none, from, calm, t
  <2>6. CASE r.item.sub = "to" /\ Become(c, UpdateItem(t, r, none, "done"))
    BY <2>3, <2>4, <2>6
  <2>7. CASE r.item.sub = "both" /\ Become(c, UpdateItem(t, r, from, "done"))
    BY <2>3, <2>4, <2>7
  <2>8. CASE Become(c, UpdateItem(t, r, calm, "done"))
    BY <2>3, <2>4, <2>8
  <2> QED  BY <2>5, <2>6, <2>7, <2>8
<1> QED  BY <1>3, <1>4

LEMMA SubscribedKept ==
    ASSUME Copies, NEW c \in Conns, NEW v \in Users, Subscribed(c, v)
    PROVE  \E t : Decision(rows, Allowed', Asked, c, t)
<1> DEFINE t == Fresh(c, v)
           found == Find(cache, v, UserOf[c], {FALSE})
           u == [t EXCEPT !.sender = found]
<1>1. rows \in Seq(Row) /\ Grows(rows, rows)
  BY DEF Copies, TypeOK, Grows, SameKey
<1>2. Allowed \subseteq Allowed' /\ Granted(Allowed', UserOf[c], v)
  <2> DEFINE p == <<UserOf[c], v>>
  <2>1. granted \subseteq granted' /\ p \in granted' /\ claimed' = claimed
    BY DEF Subscribed
  <2>2. Allowed \subseteq Allowed'
    BY <2>1 DEF Allowed
  <2>3. <<p[1], p[2], "from">> \in Allowed' /\ <<p[2], p[1], "to">> \in Allowed'
    <3> HIDE DEF p
    <3> QED  BY <2>1 DEF Allowed
  <2> QED  BY <2>2, <2>3 DEF Granted
<1>3. View(rows, Allowed', Asked, cache)
  BY <1>1, <1>2, ViewGrows DEF Copies
<1>4. TaskOK(rows, Allowed', Asked, c, t) /\ ~ t.plugin /\ t.peer = v
  BY <1>1, FreshOK
<1>5. \A r \in found : r \in Ref /\ RefOK(rows, Allowed', Asked, r, v, UserOf[c])
  BY <1>1, <1>3, FindOK
<1>6. \/ Done(c)
      \/ Become(c, CreateEntry(u, v, "approve"))
      \/ Approve(c, u, cache)
  BY DEF Subscribed
<1> HIDE DEF t, found
<1>7. t \in Task
  BY <1>4 DEF TaskOK
<1>8. /\ u \in Task
      /\ u.sender = found /\ u.receiver = t.receiver /\ u.write = t.write
      /\ u.pc = t.pc /\ u.next = t.next /\ u.after = t.after /\ u.peer = t.peer
      /\ u.began = t.began /\ u.plugin = t.plugin /\ u.entry = t.entry
      /\ u.snap = t.snap
  BY <1>5, <1>7 DEF Task
<1> HIDE DEF u
<1>9. TaskOK(rows, Allowed', Asked, c, u) /\ ~ u.plugin
      /\ Granted(Allowed', UserOf[c], u.peer)
  BY <1>2, <1>4, <1>5, <1>8 DEF TaskOK
<1>10. CASE Done(c)
  BY <1>1, <1>10, Ended
<1>11. CASE Become(c, CreateEntry(u, v, "approve"))
  BY <1>1, <1>9, <1>11, CreateKept
<1>12. CASE Approve(c, u, cache)
  BY <1>1, <1>3, <1>9, <1>12, ApproveKept
<1> QED  BY <1>6, <1>10, <1>11, <1>12

LEMMA RosterSetKept ==
    ASSUME Copies, NEW c \in Conns, NEW s \in ClientSets, RosterSet(c, s.item, s.drop)
    PROVE  \E t : Decision(rows, Allowed', Asked, c, t)
<1>1. s.item \in Item /\ s.item.contact \in Users /\ s.drop \in BOOLEAN
  BY ClientSetsAssumption DEF Item
<1> DEFINE t == Fresh(c, s.item.contact)
           t2 == [Refreshing(t, "create") EXCEPT
                     !.plugin = TRUE, !.drop = s.drop, !.entry = {s.item}]
<1>2. rows \in Seq(Row)
  BY DEF Copies, TypeOK
<1>3. /\ TaskOK(rows, Allowed', Asked, c, t)
      /\ t.sender = {} /\ t.peer = s.item.contact
  BY <1>1, <1>2, FreshOK
<1>4. /\ t \in Task /\ t.after = "done" /\ t.receiver = {}
  BY <1>3 DEF TaskOK, Fresh, NoTask
<1>5. task' = [task EXCEPT ![c] = t2]
  BY DEF RosterSet, Become
<1> HIDE DEF t
<1>6. /\ t2 \in Task
      /\ t2.pc = "select" /\ t2.next = "create" /\ t2.entry = {s.item} /\ t2.after = "done"
      /\ t2.receiver = t.receiver /\ t2.sender = t.sender /\ t2.write = t.write
      /\ t2.peer = t.peer /\ t2.began = t.began /\ t2.plugin = TRUE
      /\ t2.snap = t.snap
  BY <1>1, <1>4 DEF Task, Refreshing
<1> HIDE DEF t2
<1>9. Fine(Allowed', Asked, UserOf[c], s.item)
  <2>1. /\ s.item.sub \in {"from", "both"} => <<UserOf[c], s.item.contact, "from">> \in claimed'
        /\ s.item.sub \in {"to", "both"} => <<UserOf[c], s.item.contact, "to">> \in claimed'
        /\ s.item.ask = "subscribe" => <<UserOf[c], s.item.contact, "ask">> \in claimed'
    BY DEF RosterSet, Claims
  <2> QED  BY <2>1 DEF Fine, Allowed
<1>7. TaskOK(rows, Allowed', Asked, c, t2) /\ Asks(c, t2) = {}
  BY <1>3, <1>4, <1>6, <1>9 DEF TaskOK, Asks
<1>8. TaskOK(rows, Allowed', Asked \cup Asks(c, t2), c, t2)
  BY <1>2, <1>7, StaysOK
<1> QED  BY <1>5, <1>6, <1>8 DEF Decision

LEMMA StanzaKept ==
    ASSUME Copies, NEW c \in Conns, Stanza(c)
    PROVE  /\ task[c].pc = "idle"
           /\ \E t : Decision(rows, Allowed', Asked, c, t)
           /\ Allowed \subseteq Allowed' /\ HistoryOK'
           /\ stanzas' = stanzas + 1
           /\ UNCHANGED <<rows, cache, pending, lost, seen>>
<1>1. HistoryOK /\ UserOf[c] \in Users
  BY UserOfAssumption DEF Copies, TypeOK, HistoryOK
<1>2. ASSUME NEW v \in Users, Subscribe(c, v) \/ Subscribed(c, v) \/ Unsubscribed(c, v)
      PROVE  /\ task[c].pc = "idle"
             /\ \E t : Decision(rows, Allowed', Asked, c, t)
             /\ Allowed \subseteq Allowed' /\ HistoryOK'
             /\ stanzas' = stanzas + 1
             /\ UNCHANGED <<rows, cache, pending, lost, seen>>
  <2>1. CASE Subscribe(c, v)
    <3>1. UNCHANGED <<granted, claimed>>
      BY <2>1 DEF Subscribe
    <3>2. Allowed' = Allowed /\ HistoryOK'
      BY <1>1, <3>1 DEF Allowed, HistoryOK
    <3>3. \E t : Decision(rows, Allowed', Asked, c, t)
      BY <2>1, <3>2, SubscribeKept
    <3> QED  BY <2>1, <3>2, <3>3 DEF Subscribe, Takes
  <2>2. CASE Subscribed(c, v)
    <3>1. \E t : Decision(rows, Allowed', Asked, c, t)
      BY <2>2, SubscribedKept
    <3>2. /\ task[c].pc = "idle"
          /\ granted' = granted \cup {<<UserOf[c], v>>} /\ claimed' = claimed
          /\ stanzas' = stanzas + 1
          /\ UNCHANGED <<rows, cache, pending, lost, seen>>
      BY <2>2 DEF Subscribed, Takes
    <3>3. Allowed \subseteq Allowed' /\ HistoryOK'
      BY <1>1, <3>2 DEF Allowed, HistoryOK
    <3> QED  BY <3>1, <3>2, <3>3
  <2>3. CASE Unsubscribed(c, v)
    <3>1. UNCHANGED <<granted, claimed>>
      BY <2>3 DEF Unsubscribed
    <3>2. Allowed' = Allowed /\ HistoryOK'
      BY <1>1, <3>1 DEF Allowed, HistoryOK
    <3>3. \E t : Decision(rows, Allowed', Asked, c, t)
      BY <2>3, <3>2, UnsubscribedKept
    <3> QED  BY <2>3, <3>2, <3>3 DEF Unsubscribed, Takes
  <2> QED  BY <1>2, <2>1, <2>2, <2>3
<1>3. CASE \E p \in Peers :
              /\ p[1] = UserOf[c]
              /\ Subscribe(c, p[2]) \/ Subscribed(c, p[2]) \/ Unsubscribed(c, p[2])
  BY <1>2, <1>3, PeersAssumption
<1>4. ASSUME NEW s \in ClientSets, RosterSet(c, s.item, s.drop)
      PROVE  /\ task[c].pc = "idle"
             /\ \E t : Decision(rows, Allowed', Asked, c, t)
             /\ Allowed \subseteq Allowed' /\ HistoryOK'
             /\ stanzas' = stanzas + 1
             /\ UNCHANGED <<rows, cache, pending, lost, seen>>
  <2>1. granted' = granted /\ claimed' = claimed \cup Claims(UserOf[c], s.item)
    BY <1>4 DEF RosterSet
  <2>2. Claims(UserOf[c], s.item) \subseteq Users \X Users \X {"from", "to", "ask"}
    BY <1>1, ClientSetsAssumption DEF Claims, Item
  <2>3. Allowed \subseteq Allowed' /\ HistoryOK'
    BY <1>1, <2>1, <2>2 DEF Allowed, HistoryOK
  <2>4. \E t : Decision(rows, Allowed', Asked, c, t)
    BY <1>4, RosterSetKept
  <2> QED  BY <1>4, <2>3, <2>4 DEF RosterSet, Takes
<1> QED  BY <1>3, <1>4 DEF Stanza

(***************************************************************************)
(* The copies, step by step.                                               *)
(***************************************************************************)
LEMMA AskedGrows ==
    ASSUME TypeOK, NEW c \in Conns, NEW t \in Task, task' = [task EXCEPT ![c] = t],
           pending \subseteq pending', lost \subseteq lost',
           Asks(c, task[c]) \subseteq Asked'
    PROVE  Asked \subseteq Asked' /\ Asks(c, t) \subseteq Asked'
<1>1. task'[c] = t /\ \A d \in Conns \ {c} : task'[d] = task[d]
  BY DEF TypeOK
<1>2. ASSUME NEW p \in Asked
      PROVE  p \in Asked'
  <2>1. CASE \E d \in Conns \ {c} : p \in Asks(d, task[d])
    <3>1. \E d \in Conns \ {c} : p \in Asks(d, task'[d])
      BY <1>1, <2>1
    <3> QED  BY <3>1 DEF Asked
  <2>2. CASE p \in Asks(c, task[c])
    BY <2>2
  <2>3. CASE [from |-> p[1], to |-> p[2]] \in pending \/ p \in lost
    BY <2>3 DEF Asked
  <2> QED  BY <2>1, <2>2, <2>3 DEF Asked
<1>3. Asks(c, t) \subseteq Users \X Users
  BY UserOfAssumption DEF Asks, Task
<1>4. Asks(c, t) = Asks(c, task'[c])
  BY <1>1
<1>5. Asks(c, t) \subseteq Asked'
  BY <1>3, <1>4 DEF Asked
<1> QED  BY <1>2, <1>5

LEMMA CopiesStep ==
    ASSUME Copies, NEW c \in Conns, NEW t, task' = [task EXCEPT ![c] = t],
           TaskOK(rows', Allowed', Asked', c, t),
           t.pc = "install" /\ t.next = "create" => t.began <= Len(t.snap),
           Grows(rows, rows'), Allowed \subseteq Allowed', Asked \subseteq Asked',
           View(rows', Allowed', Asked', rows'),
           View(rows', Allowed', Asked', cache'),
           pending' \subseteq [from : Users, to : Users],
           HistoryOK', lost' \subseteq Users \X Users,
           stanzas' \in Nat, seen' \in Seen
    PROVE  Copies'
<1>1. task \in [Conns -> Task] /\ t \in Task
  BY DEF Copies, TypeOK, TaskOK
<1>2. task' \in [Conns -> Task]
      /\ task'[c] = t /\ \A d \in Conns \ {c} : task'[d] = task[d]
  BY <1>1
<1>3. TypeOK'
  BY <1>2 DEF TypeOK, View, HistoryOK
<1>4. ASSUME NEW d \in Conns
      PROVE  TaskOK(rows', Allowed', Asked', d, task'[d])
  <2>1. CASE d = c
    BY <1>2, <2>1
  <2>2. CASE d # c
    <3>1. TaskOK(rows, Allowed, Asked, d, task[d])
      BY DEF Copies
    <3>2. TaskOK(rows', Allowed', Asked', d, task[d])
      BY <3>1, TaskGrows
    <3> QED  BY <1>2, <2>2, <3>2
  <2> QED  BY <2>1, <2>2
<1>5. ReadSince'
  BY <1>2 DEF ReadSince, Copies
<1> QED  BY <1>3, <1>4, <1>5 DEF Copies

LEMMA DecisionStep ==
    ASSUME Copies, NEW c \in Conns, NEW t, Decision(rows, Allowed', Asked, c, t),
           Asks(c, task[c]) \subseteq Asks(c, t),
           cache' = cache \/ cache' = task[c].snap,
           UNCHANGED <<rows, pending, lost>>,
           Allowed \subseteq Allowed', HistoryOK',
           stanzas' \in Nat, seen' \in Seen
    PROVE  Copies'
<1>1. /\ t \in Task /\ task' = [task EXCEPT ![c] = t] /\ t.pc # "install"
      /\ TaskOK(rows, Allowed', Asked \cup Asks(c, t), c, t)
  BY DEF Decision, TaskOK
<1>2. TypeOK /\ rows \in Seq(Row) /\ Grows(rows, rows)
  BY DEF Copies, TypeOK, Grows, SameKey
<1>3. Asks(c, task[c]) \subseteq Asked'
  <2>1. Asks(c, t) = Asks(c, task'[c])
    BY <1>1, <1>2 DEF TypeOK
  <2>2. Asks(c, t) \subseteq Users \X Users
    BY <1>1, UserOfAssumption DEF Asks, Task
  <2> QED  BY <2>1, <2>2 DEF Asked
<1>4. Asked \subseteq Asked' /\ Asks(c, t) \subseteq Asked'
  BY <1>1, <1>2, <1>3, AskedGrows
<1>5. TaskOK(rows, Allowed', Asked', c, t)
  BY <1>1, <1>2, <1>4, StaysOK
<1>6. View(rows, Allowed', Asked', rows) /\ View(rows, Allowed', Asked', cache)
      /\ View(rows, Allowed', Asked', task[c].snap)
  BY <1>2, <1>4, ViewGrows DEF Copies, TaskOK
<1>7. View(rows', Allowed', Asked', rows') /\ View(rows', Allowed', Asked', cache')
  BY <1>6
<1>8. Grows(rows, rows') /\ TaskOK(rows', Allowed', Asked', c, t)
  BY <1>2, <1>5
<1>9. pending' \subseteq [from : Users, to : Users] /\ lost' \subseteq Users \X Users
  BY <1>2 DEF TypeOK
<1> QED  BY <1>1, <1>4, <1>7, <1>8, <1>9, CopiesStep

LEMMA StanzaStep ==
    ASSUME Copies, NEW c \in Conns, Stanza(c)
    PROVE  Copies'
<1>1. PICK t : Decision(rows, Allowed', Asked, c, t)
  BY StanzaKept
<1>2. stanzas' \in Nat /\ seen' \in Seen
  BY StanzaKept DEF Copies, TypeOK
<1>3. Asks(c, task[c]) = {}
  <2>1. task[c].pc = "idle" /\ TaskOK(rows, Allowed, Asked, c, task[c])
    BY StanzaKept DEF Copies
  <2>2. task[c].next = "done"
    BY <2>1 DEF TaskOK
  <2> QED  BY <2>2 DEF Asks
<1> QED  BY <1>1, <1>2, <1>3, StanzaKept, DecisionStep

LEMMA SelectStep ==
    ASSUME Copies, NEW c \in Conns, Select(c)
    PROVE  Copies'
<1> DEFINE t == [task[c] EXCEPT !.pc = "install", !.snap = rows, !.snapOf = seen.table]
<1>1. TypeOK /\ rows \in Seq(Row) /\ Grows(rows, rows) /\ task[c] \in Task
      /\ seen.table \in Nat
  BY DEF Copies, TypeOK, Grows, SameKey, Seen
<1>2. TaskOK(rows, Allowed, Asked, c, task[c]) /\ View(rows, Allowed, Asked, rows)
      /\ View(rows, Allowed, Asked, cache)
  BY DEF Copies
<1>3. task' = [task EXCEPT ![c] = t]
  BY <1>1 DEF Select, TypeOK
<1>4. /\ t \in Task
      /\ t.pc = "install" /\ t.snap = rows
      /\ t.next = task[c].next /\ t.entry = task[c].entry /\ t.after = task[c].after
      /\ t.receiver = task[c].receiver /\ t.sender = task[c].sender
      /\ t.write = task[c].write /\ t.peer = task[c].peer
      /\ t.began = task[c].began /\ t.plugin = task[c].plugin
  BY <1>1 DEF Task
<1> HIDE DEF t
<1>5. TaskOK(rows, Allowed, Asked, c, t)
  BY <1>2, <1>4 DEF TaskOK
<1>6. t.pc = "install" /\ t.next = "create" => t.began <= Len(t.snap)
  BY <1>4, <1>5 DEF TaskOK
<1>7. UNCHANGED <<rows, cache, pending, stanzas, granted, claimed, lost, seen>>
      /\ Allowed' = Allowed
  BY DEF Select, Allowed
<1>8. Asked \subseteq Asked'
  <2>1. Asks(c, task[c]) = Asks(c, task'[c])
    BY <1>1, <1>3, <1>4 DEF TypeOK, Asks
  <2>2. Asks(c, task[c]) \subseteq Users \X Users
    BY <1>1, UserOfAssumption DEF Asks, Task
  <2>3. Asks(c, task[c]) \subseteq Asked'
    BY <2>1, <2>2 DEF Asked
  <2> QED  BY <1>1, <1>3, <1>4, <1>7, <2>3, AskedGrows
<1>9. TaskOK(rows, Allowed, Asked', c, t)
  BY <1>1, <1>5, <1>8, StaysOK
<1>10. View(rows, Allowed, Asked', rows) /\ View(rows, Allowed, Asked', cache)
  BY <1>1, <1>2, <1>8, ViewGrows
<1>11. /\ pending' \subseteq [from : Users, to : Users]
       /\ HistoryOK' /\ lost' \subseteq Users \X Users
       /\ stanzas' \in Nat /\ seen' \in Seen
  BY <1>1, <1>7 DEF TypeOK, HistoryOK
<1> QED  BY <1>1, <1>3, <1>6, <1>7, <1>8, <1>9, <1>10, <1>11, CopiesStep

LEMMA InstallSeen ==
    ASSUME TypeOK, NEW c \in Conns, Install(c)
    PROVE  /\ seen' \in Seen
           /\ seen'.table = seen.table /\ seen'.own = seen.own /\ seen'.cut = seen.cut
           /\ task[c].plugin => seen' = seen /\ cache' = cache
           /\ ~ task[c].plugin =>
                 /\ cache' = task[c].snap
                 /\ seen'.cache = task[c].snapOf
                 /\ seen'.last = IF task[c].snapOf > seen.last
                                 THEN task[c].snapOf ELSE seen.last
BY DEF TypeOK, Install, Seen, Task

LEMMA InstallDecides ==
    ASSUME Copies, NEW c \in Conns, Install(c)
    PROVE  \E t : /\ Decision(rows, Allowed, Asked, c, t)
                  /\ Asks(c, task[c]) \subseteq Asks(c, t)
<1> DEFINE u == task[c]
<1>1. rows \in Seq(Row) /\ TaskOK(rows, Allowed, Asked, c, u)
  BY DEF Copies, TypeOK
<1>2. u.pc = "install" /\ GoOn(c, Cleared(u), u.snap)
  BY DEF Install, Cleared
<1>3. u.next = "create" => u.began <= Len(u.snap)
  BY <1>2 DEF Copies, ReadSince
<1> HIDE DEF u
<1>4. \E t : Decision(rows, Allowed, Asked, c, t) /\ Asks(c, u) \subseteq Asks(c, t)
  BY <1>1, <1>2, <1>3, GoOnKept
<1> QED  BY <1>4 DEF u

LEMMA InstallStep ==
    ASSUME Copies, NEW c \in Conns, Install(c)
    PROVE  Copies'
<1>1. TypeOK
  BY DEF Copies
<1>2. UNCHANGED <<rows, pending, stanzas, granted, claimed, lost>> /\ Allowed' = Allowed
  BY DEF Install, Allowed
<1>3. PICK t : /\ Decision(rows, Allowed, Asked, c, t)
               /\ Asks(c, task[c]) \subseteq Asks(c, t)
  BY InstallDecides
<1>4. Decision(rows, Allowed', Asked, c, t)
  BY <1>2, <1>3 DEF Decision
<1>5. cache' = cache \/ cache' = task[c].snap
  BY <1>1, InstallSeen
<1>6. Allowed \subseteq Allowed' /\ HistoryOK'
      /\ stanzas' \in Nat /\ seen' \in Seen
  BY <1>1, <1>2, InstallSeen DEF TypeOK, HistoryOK
<1> QED  BY <1>2, <1>3, <1>4, <1>5, <1>6, DecisionStep

(***************************************************************************)
(* A write keeps the rows apart.                                           *)
(***************************************************************************)
Overlaps(R) ==
    \A i, j \in DOMAIN R :
        i < j /\ R[i].owner = R[j].owner /\ SameKey(R[i].item, R[j].item)
        => R[j].began < i

LEMMA AppendKeeps ==
    ASSUME NEW R \in Seq(Row), NEW G, NEW S, NEW row \in Row, NEW R2,
           View(R, G, S, R), Overlaps(R),
           Fine(G, S, row.owner, row.item), NewSince(R, row.owner, row.item, row.began),
           R2 = Append(R, row)
    PROVE  Grows(R, R2) /\ View(R2, G, S, R2) /\ Overlaps(R2)
<1>1. /\ R2 \in Seq(Row) /\ Len(R2) = Len(R) + 1 /\ R2[Len(R) + 1] = row
      /\ \A i \in DOMAIN R : R2[i] = R[i]
  OBVIOUS
<1>2. Grows(R, R2)
  BY <1>1 DEF Grows, SameKey
<1>3. \A i \in DOMAIN R2 : i \in DOMAIN R \/ i = Len(R) + 1
  BY <1>1
<1>4. \A i \in DOMAIN R2 : Fine(G, S, R2[i].owner, R2[i].item)
  BY <1>1, <1>3 DEF View
<1>5. View(R2, G, S, R2)
  BY <1>1, <1>4 DEF View, SameKey
<1>6. ASSUME NEW i \in DOMAIN R2, NEW j \in DOMAIN R2, i < j,
             R2[i].owner = R2[j].owner, SameKey(R2[i].item, R2[j].item)
      PROVE  R2[j].began < i
  <2>1. i \in DOMAIN R
    BY <1>1, <1>3, <1>6
  <2>2. CASE j \in DOMAIN R
    BY <1>1, <1>6, <2>1, <2>2 DEF Overlaps
  <2>3. CASE j = Len(R) + 1
    BY <1>1, <1>6, <2>1, <2>3 DEF NewSince
  <2> QED  BY <1>3, <2>2, <2>3
<1> QED  BY <1>2, <1>5, <1>6 DEF Overlaps

LEMMA PatchKeeps ==
    ASSUME NEW R \in Seq(Row), NEW G, NEW S, NEW item \in Item,
           NEW T \in SUBSET DOMAIN R, NEW R2,
           View(R, G, S, R), Overlaps(R),
           \A i \in T : SameKey(R[i].item, item) /\ Fine(G, S, R[i].owner, item),
           R2 = [i \in DOMAIN R |-> IF i \in T THEN [R[i] EXCEPT !.item = item] ELSE R[i]]
    PROVE  Grows(R, R2) /\ View(R2, G, S, R2) /\ Overlaps(R2)
<1>1. ASSUME NEW i \in DOMAIN R
      PROVE  /\ R2[i] \in Row
             /\ R2[i].owner = R[i].owner /\ R2[i].began = R[i].began
             /\ R2[i].item = IF i \in T THEN item ELSE R[i].item
  <2>1. R[i] \in Row
    OBVIOUS
  <2>2. CASE i \in T
    <3>1. R2[i] = [R[i] EXCEPT !.item = item]
      BY <2>2
    <3> QED  BY <2>1, <2>2, <3>1 DEF Row
  <2>3. CASE i \notin T
    BY <2>1, <2>3
  <2> QED  BY <2>2, <2>3
<1>2. DOMAIN R2 = DOMAIN R /\ DOMAIN R = 1 .. Len(R)
  OBVIOUS
<1>3. R2 \in [1 .. Len(R) -> Row]
  BY <1>1, <1>2
<1>4. R2 \in Seq(Row) /\ Len(R2) = Len(R)
  BY <1>3
<1>5. \A i \in DOMAIN R :
         /\ SameKey(R2[i].item, R[i].item)
         /\ Fine(G, S, R2[i].owner, R2[i].item)
  BY <1>1 DEF SameKey, View
<1>6. Grows(R, R2)
  BY <1>1, <1>4, <1>5 DEF Grows
<1>7. View(R2, G, S, R2)
  BY <1>2, <1>4, <1>5 DEF View, SameKey
<1>8. Overlaps(R2)
  BY <1>1, <1>2, <1>5 DEF Overlaps, SameKey
<1> QED  BY <1>6, <1>7, <1>8

LEMMA WriteKeeps ==
    ASSUME Copies, DuplicatesOverlapped, NEW c \in Conns, NEW w \in task[c].write
    PROVE  /\ Grows(rows, Written(c, w))
           /\ View(Written(c, w), Allowed, Asked, Written(c, w))
           /\ Overlaps(Written(c, w))
<1> DEFINE u == UserOf[c]
           began == task[c].began
<1>1. /\ rows \in Seq(Row) /\ u \in Users
      /\ View(rows, Allowed, Asked, rows)
  BY UserOfAssumption DEF Copies, TypeOK
<1>2. /\ w \in Write /\ w.item \in Item /\ began \in Nat
      /\ WriteOK(rows, Allowed, Asked, u, began, w)
  BY DEF Copies, TypeOK, TaskOK, Task, Write
<1>3. Overlaps(rows)
  BY DEF DuplicatesOverlapped, SameKey, Overlaps
<1>4. CASE w.kind = "insert"
  <2> DEFINE row == [owner |-> u, item |-> w.item, began |-> began]
  <2>1. Written(c, w) = Append(rows, row)
    BY <1>4 DEF Written
  <2>2. row \in Row /\ row.owner = u /\ row.item = w.item /\ row.began = began
    BY <1>1, <1>2 DEF Row
  <2>3. Fine(Allowed, Asked, u, w.item) /\ NewSince(rows, u, w.item, began)
    BY <1>2, <1>4 DEF WriteOK
  <2> HIDE DEF row, u, began
  <2>4. /\ Fine(Allowed, Asked, row.owner, row.item)
        /\ NewSince(rows, row.owner, row.item, row.began)
    BY <2>2, <2>3
  <2> QED  BY <1>1, <1>3, <2>1, <2>2, <2>4, AppendKeeps
<1>5. CASE w.kind = "match"
  <2> DEFINE T == {i \in DOMAIN rows : rows[i].owner = u /\ rows[i].item = w.old}
  <2>1. Written(c, w) = [i \in DOMAIN rows |->
           IF i \in T THEN [rows[i] EXCEPT !.item = w.item] ELSE rows[i]]
    BY <1>5 DEF Written
  <2>2. Fine(Allowed, Asked, u, w.item) /\ SameKey(w.old, w.item)
    BY <1>2, <1>5 DEF WriteOK
  <2>3. /\ T \in SUBSET DOMAIN rows
        /\ \A i \in T : SameKey(rows[i].item, w.item)
                        /\ Fine(Allowed, Asked, rows[i].owner, w.item)
    BY <2>2
  <2> HIDE DEF T
  <2> QED  BY <1>1, <1>2, <1>3, <2>1, <2>3, PatchKeeps
<1>6. CASE w.kind = "update"
  <2> DEFINE T == {i \in DOMAIN rows : i = w.id}
  <2>1. Written(c, w) = [i \in DOMAIN rows |->
           IF i \in T THEN [rows[i] EXCEPT !.item = w.item] ELSE rows[i]]
    BY <1>6 DEF Written
  <2>2. Fits(rows, Allowed, Asked, w.id, w.item)
    BY <1>2, <1>6 DEF WriteOK
  <2>3. /\ T \in SUBSET DOMAIN rows
        /\ \A i \in T : SameKey(rows[i].item, w.item)
                        /\ Fine(Allowed, Asked, rows[i].owner, w.item)
    BY <2>2 DEF Fits
  <2> HIDE DEF T
  <2> QED  BY <1>1, <1>2, <1>3, <2>1, <2>3, PatchKeeps
<1> QED  BY <1>2, <1>4, <1>5, <1>6 DEF Write

Ends(c) == {NoTask(c), [NoTask(c) EXCEPT !.pc = "dead"]}

LEMMA IdleOK ==
    ASSUME NEW R \in Seq(Row), NEW G, NEW S, NEW c \in Conns,
           NEW t \in Ends(c)
    PROVE  t \in Task /\ TaskOK(R, G, S, c, t) /\ t.pc \in {"idle", "dead"}
<1> DEFINE n == NoTask(c)
<1>1. /\ n \in Task
      /\ n.began = 0 /\ n.pc = "idle" /\ n.plugin = FALSE
      /\ n.next = "done" /\ n.after = "done" /\ n.snap = <<>>
      /\ n.entry = {} /\ n.write = {} /\ n.sender = {} /\ n.receiver = {}
  BY UserOfAssumption, EmptySeq DEF NoTask, Task
<1>2. t \in {n, [n EXCEPT !.pc = "dead"]}
  BY DEF Ends
<1> HIDE DEF n
<1>3. /\ t \in Task
      /\ t.began = 0 /\ t.pc \in {"idle", "dead"} /\ t.plugin = FALSE
      /\ t.next = "done" /\ t.after = "done" /\ t.snap = <<>>
      /\ t.entry = {} /\ t.write = {} /\ t.sender = {} /\ t.receiver = {}
  BY <1>1, <1>2 DEF Task
<1>4. View(R, G, S, t.snap) /\ Len(R) >= 0
  BY <1>3, EmptyView
<1>5. TaskOK(R, G, S, c, t)
  BY <1>3, <1>4 DEF TaskOK
<1> QED  BY <1>3, <1>5

(* A handler that ends where its requests are accounted for. *)
LEMMA EndStep ==
    ASSUME Copies, NEW c \in Conns, Done(c) \/ Dies(c),
           UNCHANGED <<rows, cache, stanzas, granted, claimed>>,
           pending \subseteq pending', pending' \subseteq [from : Users, to : Users],
           lost \subseteq lost', lost' \subseteq Users \X Users,
           seen' \in Seen, Asks(c, task[c]) \subseteq Asked'
    PROVE  Copies'
<1>1. PICK t \in Ends(c) : task' = [task EXCEPT ![c] = t]
  BY DEF Done, Dies, Become, Ends
<1>2. TypeOK /\ rows \in Seq(Row) /\ Grows(rows, rows)
  BY DEF Copies, TypeOK, Grows, SameKey
<1>3. /\ t \in Task /\ TaskOK(rows, Allowed, Asked', c, t)
      /\ t.pc # "install"
  BY <1>2, IdleOK
<1>4. Asked \subseteq Asked'
  BY <1>1, <1>2, <1>3, AskedGrows
<1>5. View(rows, Allowed, Asked', rows) /\ View(rows, Allowed, Asked', cache)
  BY <1>2, <1>4, ViewGrows DEF Copies
<1>6. HistoryOK' /\ stanzas' \in Nat /\ Allowed' = Allowed
  BY <1>2 DEF TypeOK, HistoryOK, Allowed
<1> QED  BY <1>1, <1>2, <1>3, <1>4, <1>5, <1>6, CopiesStep

LEMMA StoreStep ==
    ASSUME Copies, NEW c \in Conns, StorePendingSub(c)
    PROVE  Copies'
<1> DEFINE p == [from |-> UserOf[c], to |-> task[c].peer]
<1>1. TypeOK /\ task[c] \in Task
  BY DEF Copies, TypeOK
<1>2. p \in [from : Users, to : Users] /\ p.from = UserOf[c] /\ p.to = task[c].peer
      /\ <<UserOf[c], task[c].peer>> \in Users \X Users
  BY <1>1, UserOfAssumption DEF Task
<1>3. /\ UNCHANGED <<rows, cache, stanzas, granted, claimed, lost, seen>>
      /\ Done(c) \/ Dies(c)
      /\ p \in pending' /\ (pending' = pending \/ pending' = pending \cup {p})
  BY DEF StorePendingSub
<1>4. /\ pending \subseteq pending' /\ pending' \subseteq [from : Users, to : Users]
      /\ lost \subseteq lost' /\ lost' \subseteq Users \X Users /\ seen' \in Seen
  BY <1>1, <1>2, <1>3 DEF TypeOK
<1>5. Asks(c, task[c]) \subseteq Asked'
  BY <1>2, <1>3 DEF Asks, Asked
<1> QED  BY <1>3, <1>4, <1>5, EndStep

LEMMA AsksInterrupted ==
    ASSUME Copies, NEW c \in Conns
    PROVE  /\ Interrupted(c) \subseteq Users \X Users
           /\ Asks(c, task[c]) \subseteq Interrupted(c)
<1>1. task[c] \in Task /\ UserOf[c] \in Users
  BY UserOfAssumption DEF Copies, TypeOK
<1>2. task[c].pc \in {"idle", "dead"} => task[c].next = "done"
  BY DEF Copies, TaskOK
<1> QED  BY <1>1, <1>2 DEF Interrupted, Asks, Task

LEMMA InterruptStep ==
    ASSUME Copies, NEW c \in Conns, Interrupt(c)
    PROVE  Copies'
<1>1. TypeOK
  BY DEF Copies
<1>2. /\ UNCHANGED <<rows, cache, pending, stanzas, granted, claimed>>
      /\ Done(c) /\ lost' = lost \cup Interrupted(c)
  BY DEF Interrupt
<1>3. seen' \in Seen
  BY <1>1 DEF Interrupt, TypeOK, Seen
<1>4. lost \subseteq lost' /\ lost' \subseteq Users \X Users
  BY <1>1, <1>2, AsksInterrupted DEF TypeOK
<1>5. Asks(c, task[c]) \subseteq Asked'
  BY <1>2, AsksInterrupted DEF Asked
<1>6. pending \subseteq pending' /\ pending' \subseteq [from : Users, to : Users]
  BY <1>1, <1>2 DEF TypeOK
<1> QED  BY <1>2, <1>3, <1>4, <1>5, <1>6, EndStep

LEMMA RestartStep ==
    ASSUME Copies, Restart
    PROVE  Copies'
<1>1. TypeOK /\ rows \in Seq(Row) /\ Grows(rows, rows) /\ View(rows, Allowed, Asked, rows)
  BY DEF Copies, TypeOK, Grows, SameKey
<1>2. /\ UNCHANGED <<rows, pending, stanzas, granted, claimed>> /\ cache' = <<>>
      /\ Allowed' = Allowed
      /\ task' = [c \in Conns |-> NoTask(c)]
      /\ lost' = lost \cup UNION {Interrupted(c) : c \in Conns}
  BY DEF Restart, Allowed
<1>10. \A c \in Conns : task'[c] \in Ends(c)
  BY <1>2 DEF Ends
<1>3. \A c \in Conns :
         /\ task'[c] \in Task /\ TaskOK(rows, Allowed, Asked', c, task'[c])
         /\ task'[c].pc # "install"
  BY <1>1, <1>10, IdleOK
<1>4. lost \subseteq lost' /\ lost' \subseteq Users \X Users
  BY <1>1, <1>2, AsksInterrupted DEF TypeOK
<1>5. Asked \subseteq Asked'
  <2> SUFFICES ASSUME NEW p \in Asked
               PROVE  p \in Asked'
    OBVIOUS
  <2>1. CASE [from |-> p[1], to |-> p[2]] \in pending \/ p \in lost
    BY <1>2, <1>4, <2>1 DEF Asked
  <2>2. CASE \E c \in Conns : p \in Asks(c, task[c])
    <3>1. p \in lost'
      BY <1>2, <2>2, AsksInterrupted
    <3> QED  BY <1>4, <3>1 DEF Asked
  <2> QED  BY <2>1, <2>2 DEF Asked
<1>6. View(rows, Allowed, Asked', rows) /\ View(rows, Allowed, Asked', <<>>)
  BY <1>1, <1>5, ViewGrows, EmptyView
<1>7. seen' \in Seen
  BY <1>1 DEF Restart, TypeOK, Seen
<1>8. TypeOK'
  <2>1. task' \in [Conns -> Task]
    BY <1>2, <1>3
  <2>2. cache' \in Seq(Row)
    BY <1>2, EmptySeq
  <2> QED  BY <1>1, <1>2, <1>4, <1>7, <2>1, <2>2 DEF TypeOK
<1>9. ReadSince'
  BY <1>3 DEF ReadSince
<1> QED  BY <1>2, <1>3, <1>6, <1>8, <1>9 DEF Copies

LEMMA CommitStep ==
    ASSUME Copies, DuplicatesOverlapped, NEW c \in Conns, Commit(c)
    PROVE  Copies' /\ DuplicatesOverlapped'
<1>1. PICK w \in task[c].write : rows' = Written(c, w)
  BY DEF Commit
<1>2. /\ Grows(rows, rows') /\ View(rows', Allowed, Asked, rows')
      /\ Overlaps(rows')
  BY <1>1, WriteKeeps
<1>3. TypeOK /\ task[c] \in Task /\ TaskOK(rows, Allowed, Asked, c, task[c])
  BY DEF Copies, TypeOK
<1>4. UNCHANGED <<cache, pending, stanzas, granted, claimed, lost>> /\ Allowed' = Allowed
  BY DEF Commit, Allowed
<1> DEFINE t == IF task[c].plugin THEN NoTask(c)
                ELSE [task[c] EXCEPT !.pc = "select", !.write = {}]
<1>5. task' = [task EXCEPT ![c] = t]
  BY <1>3 DEF Commit, TypeOK
<1>6. TaskOK(rows, Allowed, Asked, c, t) /\ t.pc # "install"
      /\ Asks(c, task[c]) = Asks(c, t)
  <2>1. CASE task[c].plugin
    <3>1. t = NoTask(c) /\ t \in Ends(c)
      BY <2>1 DEF Ends
    <3>2. task[c].next # "store" /\ NoTask(c).next # "store"
      BY <1>3, <2>1 DEF TaskOK, NoTask
    <3>3. Asks(c, task[c]) = {} /\ Asks(c, t) = {}
      BY <3>1, <3>2 DEF Asks
    <3>4. rows \in Seq(Row)
      BY <1>3 DEF TypeOK
    <3> QED  BY <3>1, <3>3, <3>4, IdleOK
  <2>2. CASE ~ task[c].plugin
    <3> DEFINE u == [task[c] EXCEPT !.pc = "select", !.write = {}]
    <3>1. t = u
      BY <2>2
    <3>2. /\ u \in Task
          /\ u.pc = "select" /\ u.write = {}
          /\ u.next = task[c].next /\ u.entry = task[c].entry /\ u.after = task[c].after
          /\ u.receiver = task[c].receiver /\ u.sender = task[c].sender
          /\ u.snap = task[c].snap /\ u.peer = task[c].peer
          /\ u.began = task[c].began /\ u.plugin = task[c].plugin
      BY <1>3 DEF Task
    <3> HIDE DEF t, u
    <3>3. TaskOK(rows, Allowed, Asked, c, u) /\ Asks(c, task[c]) = Asks(c, u)
      BY <1>3, <3>2 DEF TaskOK, Asks
    <3> QED  BY <3>1, <3>2, <3>3
  <2> QED  BY <2>1, <2>2
<1> HIDE DEF t
<1>7. t \in Task
  BY <1>6 DEF TaskOK
<1>8. Asked \subseteq Asked'
  <2>1. Asks(c, task[c]) = Asks(c, task'[c])
    BY <1>3, <1>5, <1>6 DEF TypeOK
  <2>2. Asks(c, task[c]) \subseteq Users \X Users
    BY <1>3, UserOfAssumption DEF Asks, Task
  <2>3. Asks(c, task[c]) \subseteq Asked'
    BY <2>1, <2>2 DEF Asked
  <2> QED  BY <1>3, <1>4, <1>5, <1>7, <2>3, AskedGrows
<1>9. TaskOK(rows', Allowed, Asked', c, t)
  BY <1>2, <1>6, <1>8, TaskGrows
<1>10. Grows(rows', rows')
  BY <1>2 DEF Grows, SameKey
<1>11. View(rows', Allowed, Asked', rows')
  BY <1>2, <1>8, <1>10, ViewGrows
<1>12. View(rows', Allowed, Asked', cache)
  BY <1>2, <1>8, ViewGrows DEF Copies
<1>13. seen' \in Seen
  <2>1. PICK n \in {seen.own, seen.table + 1} :
           seen' = [seen EXCEPT !.table = seen.table + 1, !.own = n]
    BY DEF Commit
  <2>2. seen \in Seen /\ seen.table + 1 \in Nat /\ n \in Nat
    BY <1>3 DEF TypeOK, Seen
  <2> QED  BY <2>1, <2>2 DEF Seen
<1>14. /\ pending' \subseteq [from : Users, to : Users]
       /\ HistoryOK' /\ lost' \subseteq Users \X Users
       /\ stanzas' \in Nat
  BY <1>3, <1>4 DEF TypeOK, HistoryOK
<1>15. Copies'
  BY <1>2, <1>4, <1>5, <1>6, <1>8, <1>9, <1>11, <1>12, <1>13, <1>14, CopiesStep
<1>16. DuplicatesOverlapped'
  BY <1>2 DEF Overlaps, DuplicatesOverlapped, SameKey
<1> QED  BY <1>15, <1>16

(***************************************************************************)
(* What the caches have seen.                                              *)
(***************************************************************************)
(* A handler that may still show the writes of Presence to its cache. *)
WillSee(c) ==
    /\ ~ task[c].plugin
    /\ \/ task[c].pc = "select"
       \/ task[c].pc = "install" /\ seen.own <= task[c].snapOf

(* A step of c that neither reads nor writes the table for Presence. *)
LEMMA SeenFrame ==
    ASSUME TypeOK, SeenInv, NEW c \in Conns, NEW t, task' = [task EXCEPT ![c] = t],
           t.pc # "install",
           seen' = seen \/ seen' = [seen EXCEPT !.table = seen.table + 1],
           ~ WillSee(c)
    PROVE  SeenInv'
<1>1. task'[c] = t /\ \A d \in Conns \ {c} : task'[d] = task[d]
  BY DEF TypeOK
<1>2. seen \in Seen /\ seen' \in Seen
      /\ seen'.own = seen.own /\ seen'.cache = seen.cache /\ seen'.last = seen.last
      /\ seen'.cut = seen.cut /\ seen.table <= seen'.table
  BY DEF TypeOK, Seen
<1>3. \A d \in Conns : task[d].snapOf \in Nat
  BY DEF TypeOK, Task
<1>4. \A d \in Conns : task'[d].pc = "install" => task'[d].snapOf <= seen'.table
  BY <1>1, <1>2, <1>3 DEF SeenInv, Seen
<1>5. \/ seen'.cut
      \/ seen'.own <= seen'.last
      \/ \E d \in Conns \ {c} :
            /\ ~ task'[d].plugin
            /\ \/ task'[d].pc = "select"
               \/ task'[d].pc = "install" /\ seen'.own <= task'[d].snapOf
  BY <1>1, <1>2 DEF SeenInv, WillSee
<1> QED  BY <1>2, <1>4, <1>5 DEF SeenInv, Seen

LEMMA SeenSelect ==
    ASSUME TypeOK, SeenInv, NEW c \in Conns, Select(c)
    PROVE  SeenInv'
<1>1. /\ task[c].pc = "select" /\ seen' = seen
      /\ task'[c].pc = "install" /\ task'[c].snapOf = seen.table
      /\ task'[c].plugin = task[c].plugin
      /\ \A d \in Conns \ {c} : task'[d] = task[d]
  BY DEF Select, TypeOK, Task
<1>2. seen.own <= seen.table /\ seen.table <= seen.table
  BY DEF SeenInv, TypeOK, Seen
<1>3. \A d \in Conns : task'[d].pc = "install" => task'[d].snapOf <= seen.table
  BY <1>1, <1>2 DEF SeenInv
<1>4. \/ seen.cut
      \/ seen.own <= seen.last
      \/ \E d \in Conns :
            /\ ~ task'[d].plugin
            /\ \/ task'[d].pc = "select"
               \/ task'[d].pc = "install" /\ seen.own <= task'[d].snapOf
  <2>1. CASE WillSee(c)
    BY <1>1, <1>2, <2>1 DEF WillSee
  <2>2. CASE ~ WillSee(c)
    BY <1>1, <2>2 DEF SeenInv, WillSee
  <2> QED  BY <2>1, <2>2
<1> QED  BY <1>1, <1>3, <1>4 DEF SeenInv

LEMMA SeenInstall ==
    ASSUME Copies, SeenInv, NEW c \in Conns, Install(c)
    PROVE  SeenInv'
<1>1. TypeOK
  BY DEF Copies
<1>2. PICK t : task' = [task EXCEPT ![c] = t] /\ t.pc # "install"
  BY InstallDecides DEF Decision
<1>3. task[c].pc = "install"
  BY DEF Install
<1>4. CASE task[c].plugin
  BY <1>1, <1>2, <1>4, InstallSeen, SeenFrame DEF WillSee
<1>5. CASE ~ task[c].plugin
  <2>1. task'[c] = t /\ \A d \in Conns \ {c} : task'[d] = task[d]
    BY <1>1, <1>2 DEF TypeOK
  <2>2. /\ seen \in Seen /\ seen' \in Seen /\ task[c].snapOf \in Nat
        /\ task[c].snapOf <= seen.table
        /\ seen'.table = seen.table /\ seen'.own = seen.own /\ seen'.cut = seen.cut
        /\ seen'.cache = task[c].snapOf
        /\ seen'.last = IF task[c].snapOf > seen.last THEN task[c].snapOf ELSE seen.last
    BY <1>1, <1>3, <1>5, InstallSeen DEF TypeOK, Task, SeenInv
  <2>3. /\ seen'.last >= seen.last /\ seen'.last >= task[c].snapOf
        /\ seen'.last <= seen'.table /\ seen'.cache <= seen'.last
        /\ seen'.own <= seen'.table
    BY <2>2 DEF SeenInv, Seen
  <2>4. \A d \in Conns : task'[d].pc = "install" => task'[d].snapOf <= seen'.table
    BY <1>2, <2>1, <2>2 DEF SeenInv
  <2>5. \/ seen'.cut
        \/ seen'.own <= seen'.last
        \/ \E d \in Conns \ {c} :
              /\ ~ task'[d].plugin
              /\ \/ task'[d].pc = "select"
                 \/ task'[d].pc = "install" /\ seen'.own <= task'[d].snapOf
    <3>1. CASE seen.cut
      BY <2>2, <3>1
    <3>2. CASE seen.own <= seen.last \/ seen.own <= task[c].snapOf
      BY <2>2, <2>3, <3>2 DEF Seen
    <3>3. CASE \E d \in Conns \ {c} :
                  /\ ~ task[d].plugin
                  /\ \/ task[d].pc = "select"
                     \/ task[d].pc = "install" /\ seen.own <= task[d].snapOf
      BY <2>1, <2>2, <3>3
    <3> QED  BY <1>3, <3>1, <3>2, <3>3 DEF SeenInv
  <2> QED  BY <2>3, <2>4, <2>5 DEF SeenInv
<1> QED  BY <1>4, <1>5

LEMMA SeenCommit ==
    ASSUME Copies, SeenInv, NEW c \in Conns, Commit(c)
    PROVE  SeenInv'
<1>1. TypeOK /\ seen \in Seen /\ task[c] \in Task
  BY DEF Copies, TypeOK
<1>2. CASE task[c].plugin
  <2>1. task' = [task EXCEPT ![c] = NoTask(c)] /\ NoTask(c).pc # "install"
    BY <1>1, <1>2 DEF Commit, TypeOK, NoTask
  <2>2. seen' = [seen EXCEPT !.table = seen.table + 1]
    BY <1>1, <1>2 DEF Commit, Seen
  <2> QED  BY <1>1, <1>2, <2>1, <2>2, SeenFrame DEF WillSee
<1>3. CASE ~ task[c].plugin
  <2>1. seen' = [seen EXCEPT !.table = seen.table + 1, !.own = seen.table + 1]
    BY <1>3 DEF Commit
  <2>2. /\ seen'.own = seen.table + 1 /\ seen'.table = seen.table + 1
        /\ seen'.last = seen.last /\ seen'.cache = seen.cache
    BY <1>1, <2>1 DEF Seen
  <2>3. task' = [task EXCEPT ![c] = [task[c] EXCEPT !.pc = "select", !.write = {}]]
    BY <1>1, <1>3 DEF Commit, TypeOK
  <2>4. /\ task'[c].pc = "select" /\ task'[c].plugin = task[c].plugin
        /\ \A d \in Conns \ {c} : task'[d] = task[d]
    BY <1>1, <2>3 DEF TypeOK, Task
  <2>5. \A d \in Conns : task[d].snapOf \in Nat
    BY <1>1 DEF TypeOK, Task
  <2> QED  BY <1>1, <1>3, <2>2, <2>4, <2>5 DEF SeenInv, Seen
<1> QED  BY <1>2, <1>3

LEMMA SeenEnd ==
    ASSUME TypeOK, SeenInv, NEW c \in Conns, Done(c) \/ Dies(c), seen' = seen,
           ~ WillSee(c)
    PROVE  SeenInv'
<1>1. PICK t \in Ends(c) : task' = [task EXCEPT ![c] = t]
  BY DEF Done, Dies, Become, Ends
<1>2. t.pc # "install"
  <2>1. NoTask(c) \in Task
    BY UserOfAssumption, EmptySeq DEF NoTask, Task
  <2>2. NoTask(c).pc = "idle"
    BY DEF NoTask
  <2>3. [NoTask(c) EXCEPT !.pc = "dead"].pc = "dead"
    BY <2>1 DEF Task
  <2> QED  BY <2>2, <2>3 DEF Ends
<1> QED  BY <1>1, <1>2, SeenFrame

LEMMA SeenInterrupt ==
    ASSUME TypeOK, SeenInv, NEW c \in Conns, Interrupt(c)
    PROVE  SeenInv'
<1>1. CASE WillSee(c)
  <2>1. seen'.cut = TRUE /\ seen'.own = seen.own /\ seen'.table = seen.table
        /\ seen'.last = seen.last /\ seen'.cache = seen.cache
    BY <1>1 DEF Interrupt, TypeOK, Seen, WillSee
  <2>2. /\ task'[c].pc = "idle"
        /\ \A d \in Conns \ {c} : task'[d] = task[d]
    BY DEF Interrupt, Done, Become, NoTask, TypeOK
  <2> QED  BY <2>1, <2>2 DEF SeenInv
<1>2. CASE ~ WillSee(c)
  <2>1. /\ seen'.own = seen.own /\ seen'.table = seen.table
        /\ seen'.last = seen.last /\ seen'.cache = seen.cache
        /\ seen.cut => seen'.cut
    BY DEF Interrupt, TypeOK, Seen
  <2>2. /\ task'[c].pc = "idle"
        /\ \A d \in Conns \ {c} : task'[d] = task[d]
    BY DEF Interrupt, Done, Become, NoTask, TypeOK
  <2>3. \/ seen.cut
        \/ seen.own <= seen.last
        \/ \E d \in Conns \ {c} :
              /\ ~ task'[d].plugin
              /\ \/ task'[d].pc = "select"
                 \/ task'[d].pc = "install" /\ seen.own <= task'[d].snapOf
    BY <1>2, <2>2 DEF SeenInv, WillSee
  <2>4. \A d \in Conns : task'[d].pc = "install" => task'[d].snapOf <= seen'.table
    BY <2>1, <2>2 DEF SeenInv
  <2> QED  BY <2>1, <2>3, <2>4 DEF SeenInv
<1> QED  BY <1>1, <1>2

LEMMA SeenRestart ==
    ASSUME TypeOK, Restart
    PROVE  SeenInv'
<1>1. seen'.own = 0 /\ seen'.cache = 0 /\ seen'.last = 0 /\ seen'.table \in Nat
  BY DEF Restart, TypeOK, Seen
<1>2. \A c \in Conns : task'[c].pc = "idle"
  BY DEF Restart, NoTask
<1> QED  BY <1>1, <1>2 DEF SeenInv

LEMMA InitInv == Init => Inv
<1> SUFFICES ASSUME Init
             PROVE  Inv
  OBVIOUS
<1>1. /\ rows = <<>> /\ cache = <<>> /\ pending = {} /\ stanzas = 0
      /\ granted = {} /\ claimed = {} /\ lost = {}
      /\ task = [c \in Conns |-> NoTask(c)]
      /\ seen = [table |-> 0, own |-> 0, cache |-> 0, last |-> 0, cut |-> FALSE]
  BY DEF Init
<1>2. <<>> \in Seq(Row)
  BY EmptySeq
<1>3. \A c \in Conns : task[c] \in Ends(c)
  BY <1>1 DEF Ends
<1>4. \A c \in Conns : task[c] \in Task /\ TaskOK(rows, Allowed, Asked, c, task[c])
                       /\ task[c].pc # "install"
  BY <1>1, <1>2, <1>3, IdleOK
<1>5. task \in [Conns -> Task]
  BY <1>1, <1>4
<1>6. seen \in Seen
  BY <1>1 DEF Seen
<1>7. TypeOK
  BY <1>1, <1>2, <1>5, <1>6 DEF TypeOK
<1>8. View(rows, Allowed, Asked, rows) /\ View(rows, Allowed, Asked, cache)
  BY <1>1, <1>2, EmptyView
<1>9. ReadSince
  BY <1>4 DEF ReadSince
<1>10. DuplicatesOverlapped
  BY <1>1 DEF DuplicatesOverlapped
<1>11. SeenInv
  BY <1>1, <1>4 DEF SeenInv
<1> QED  BY <1>4, <1>7, <1>8, <1>9, <1>10, <1>11 DEF Inv, Copies

LEMMA NextInv == Inv /\ [Next]_vars => Inv'
<1> SUFFICES ASSUME Inv, [Next]_vars
             PROVE  Inv'
  OBVIOUS
<1>1. Copies /\ TypeOK /\ DuplicatesOverlapped /\ SeenInv
  BY DEF Inv, Copies
<1>2. ASSUME UNCHANGED rows
      PROVE  DuplicatesOverlapped'
  BY <1>1, <1>2 DEF DuplicatesOverlapped
<1>3. ASSUME NEW c \in Conns, Stanza(c)
      PROVE  Inv'
  <2>1. Copies' /\ UNCHANGED <<rows, seen>>
    BY <1>1, <1>3, StanzaStep, StanzaKept
  <2>2. PICK t : Decision(rows, Allowed', Asked, c, t)
    BY <1>1, <1>3, StanzaKept
  <2>3. task[c].pc = "idle"
    BY <1>1, <1>3, StanzaKept
  <2>4. task' = [task EXCEPT ![c] = t] /\ t.pc # "install"
    BY <2>2 DEF Decision
  <2>5. SeenInv'
    BY <1>1, <2>1, <2>3, <2>4, SeenFrame DEF WillSee
  <2> QED  BY <1>2, <2>1, <2>5 DEF Inv
<1>4. ASSUME NEW c \in Conns, Select(c)
      PROVE  Inv'
  <2>1. UNCHANGED rows
    BY <1>4 DEF Select
  <2> QED  BY <1>1, <1>2, <1>4, <2>1, SelectStep, SeenSelect DEF Inv
<1>5. ASSUME NEW c \in Conns, Install(c)
      PROVE  Inv'
  <2>1. UNCHANGED rows
    BY <1>5 DEF Install
  <2> QED  BY <1>1, <1>2, <1>5, <2>1, InstallStep, SeenInstall DEF Inv
<1>6. ASSUME NEW c \in Conns, Commit(c)
      PROVE  Inv'
  BY <1>1, <1>6, CommitStep, SeenCommit DEF Inv
<1>7. ASSUME NEW c \in Conns, StorePendingSub(c)
      PROVE  Inv'
  <2>1. UNCHANGED <<rows, seen>> /\ (Done(c) \/ Dies(c)) /\ task[c].pc = "store"
    BY <1>7 DEF StorePendingSub
  <2>2. SeenInv'
    BY <1>1, <2>1, SeenEnd DEF WillSee
  <2> QED  BY <1>1, <1>2, <1>7, <2>1, <2>2, StoreStep DEF Inv
<1>8. ASSUME NEW c \in Conns, Interrupt(c)
      PROVE  Inv'
  <2>1. UNCHANGED rows
    BY <1>8 DEF Interrupt
  <2> QED  BY <1>1, <1>2, <1>8, <2>1, InterruptStep, SeenInterrupt DEF Inv
<1>9. CASE Restart
  <2>1. UNCHANGED rows
    BY <1>9 DEF Restart
  <2> QED  BY <1>1, <1>2, <1>9, <2>1, RestartStep, SeenRestart DEF Inv
<1>10. CASE UNCHANGED vars
  BY <1>10 DEF vars, Inv, Copies, TypeOK, Asked, Allowed, ReadSince, DuplicatesOverlapped, SeenInv
<1> QED
  BY <1>3, <1>4, <1>5, <1>6, <1>7, <1>8, <1>9, <1>10 DEF Next, Handler

(***************************************************************************)
(* Theorems.                                                               *)
(***************************************************************************)
(* The copies that handlers and caches hold agree with the table in all that
   never changes, and show a subscription or a request only if it was granted or
   stored, or shown by a roster query of the owner (handle_set stores it). *)
THEOREM CopiesCorrect == Spec => []Inv
<1>1. Init => Inv
  BY InitInv
<1>2. Inv /\ [Next]_vars => Inv'
  BY NextInv
<1> QED  BY <1>1, <1>2, PTL DEF Spec

(* Tables, caches and handlers keep their types, an interruption at any point
   and a restart included. *)
THEOREM SubscriptionTypeCorrect == Spec => []TypeOK
<1>1. Inv => TypeOK
  BY DEF Inv, Copies
<1> QED  BY <1>1, CopiesCorrect, PTL

(* Two entries of a user with one text of the attribute jid come from overlapping
   handlers (handle_set reads the table before it inserts). *)
THEOREM EntriesOverlapped == Spec => []DuplicatesOverlapped
<1>1. Inv => DuplicatesOverlapped
  BY DEF Inv
<1> QED  BY <1>1, CopiesCorrect, PTL

LEMMA AllowedShows ==
    ASSUME NEW u, NEW v, Inv
    PROVE  /\ <<u, v, "from">> \in Allowed => <<u, v>> \in granted \/ <<u, v, "from">> \in claimed
           /\ <<u, v, "to">> \in Allowed => <<v, u>> \in granted \/ <<u, v, "to">> \in claimed
           /\ <<u, v, "ask">> \in Allowed => <<u, v, "ask">> \in claimed
<1>1. \A p \in granted : p = <<p[1], p[2]>>
  BY DEF Inv, Copies, TypeOK
<1> QED  BY <1>1 DEF Allowed

(* A roster shows no subscription that was neither granted (_handle_subscribed)
   nor put there by its owner's own query (handle_set). *)
THEOREM GrantedOnly == Spec => []OnlyGranted
<1>1. Inv => OnlyGranted
  <2> SUFFICES ASSUME Inv, NEW i \in DOMAIN rows
               PROVE  LET u == rows[i].owner
                          v == rows[i].item.contact
                      IN  /\ rows[i].item.sub \in {"from", "both"} =>
                                <<u, v>> \in granted \/ <<u, v, "from">> \in claimed
                          /\ rows[i].item.sub \in {"to", "both"} =>
                                <<v, u>> \in granted \/ <<u, v, "to">> \in claimed
    BY DEF OnlyGranted
  <2>1. Fine(Allowed, Asked, rows[i].owner, rows[i].item)
    BY DEF Inv, Copies, View
  <2> QED  BY <2>1, AllowedShows DEF Fine
<1> QED  BY <1>1, CopiesCorrect, PTL

LEMMA InvAsked == Inv => AskedIsStored
<1> SUFFICES ASSUME Inv, NEW i \in DOMAIN rows, rows[i].item.ask = "subscribe"
             PROVE  \/ [from |-> rows[i].owner, to |-> rows[i].item.contact] \in pending
                    \/ <<rows[i].owner, rows[i].item.contact>> \in lost
                    \/ <<rows[i].owner, rows[i].item.contact, "ask">> \in claimed
                    \/ \E c \in Conns :
                          /\ UserOf[c] = rows[i].owner
                          /\ task[c].peer = rows[i].item.contact
                          /\ task[c].next = "store"
  BY DEF AskedIsStored
<1>1. \/ <<rows[i].owner, rows[i].item.contact>> \in Asked
      \/ <<rows[i].owner, rows[i].item.contact, "ask">> \in Allowed
  BY DEF Inv, Copies, View, Fine
<1>2. CASE <<rows[i].owner, rows[i].item.contact>> \in Asked
  BY <1>2 DEF Asked, Asks
<1>3. CASE <<rows[i].owner, rows[i].item.contact, "ask">> \in Allowed
  BY <1>3, AllowedShows
<1> QED  BY <1>1, <1>2, <1>3

(* A request shown as asked is stored, about to be, or was interrupted
   (_handle_subscribe), unless the owner's own query showed it (handle_set). *)
THEOREM RequestsStored == Spec => []AskedIsStored
BY InvAsked, CopiesCorrect, PTL

(* With no handler of Presence at work its cache shows what Presence wrote,
   unless reads overtook each other or a handler was interrupted. *)
THEOREM PresenceSeesItsWrites == Spec => []OwnWritesSeen
<1>1. Inv => OwnWritesSeen
  BY DEF Inv, Copies, TypeOK, Seen, SeenInv, OwnWritesSeen
<1> QED  BY <1>1, CopiesCorrect, PTL
=============================================================================
