------------------------------ MODULE Accounts ------------------------------
(***************************************************************************)
(* The tables credentials and roster, and everything that changes them     *)
(* from outside a session: in-band registration (SASL.handle_iq), which    *)
(* suspends between the look-up of the name and the insertion, and the     *)
(* handlers of the administration API (webpage/api/api.py), which reach    *)
(* the database without suspending.                                        *)
(*                                                                         *)
(* A handler may also fail (error 500) and then changes nothing; a failure *)
(* is an answer, so it is modelled where answers are (AdminPage).          *)
(***************************************************************************)
EXTENDS Naturals, FiniteSets

CONSTANTS
    Names,        \* account names (the user part of a JID)
    Empty,        \* the empty name, which the API registers like any other
    Items,        \* roster items
    Clients,      \* unauthenticated connections that register in band
    Matches,      \* <<n, m>>: the owner m is LIKE n% (n is a prefix of m)
    MaxInserted   \* bound: rows ever inserted in credentials

ASSUME MatchesAssumption ==
    /\ Matches \subseteq Names \X Names
    /\ Empty \in Names
    /\ \A n \in Names : <<n, n>> \in Matches /\ <<Empty, n>> \in Matches
ASSUME InsertedAssumption == MaxInserted \in Nat

VARIABLES
    credentials,  \* rows of the table credentials
    roster,       \* rows of the table roster: [owner, item]
    registering,  \* the handle_iq tasks suspended in the hashing
    inserted,     \* rows ever inserted; a row is told apart by its number
    registered    \* history: the names that ever had an account

accountVars == <<credentials, roster, registering, inserted, registered>>

(***************************************************************************)
(* A row of credentials.  born numbers the rows in the order of their      *)
(* insertion and checked is the last row inserted when the name was looked *)
(* up: both are history, the program has neither.                          *)
(***************************************************************************)
Row == [id : Nat \ {0}, jid : Names, checked : Nat, born : Nat \ {0}]
Entry == [owner : Names, item : Items]
Registration == [client : Clients, jid : Names, checked : Nat]

AccountsTypeOK ==
    /\ credentials \in SUBSET Row
    /\ roster \in SUBSET Entry
    /\ registering \in SUBSET Registration
    /\ inserted \in Nat
    /\ registered \in SUBSET Names

AccountsInit ==
    /\ credentials = {}
    /\ roster = {}
    /\ registering = {}
    /\ inserted = 0
    /\ registered = {}

InUse(n) == \E r \in credentials : r.jid = n

(* SQLite numbers a row without AUTOINCREMENT by the largest id stored plus
   one: the id of a deleted last row is given again. *)
NextId(i) ==
    /\ \A r \in credentials : r.id < i
    /\ i = 1 \/ \E r \in credentials : i = r.id + 1

Insert(n, check) ==
    /\ inserted < MaxInserted
    /\ inserted' = inserted + 1
    /\ registered' = registered \cup {n}
    /\ \E i \in 1..(inserted + 1) :
          /\ NextId(i)
          /\ credentials' = credentials \cup
                {[id |-> i, jid |-> n, checked |-> check, born |-> inserted + 1]}

(* Mutant: the name is not looked up. *)
HandleRegisterBlind(n) ==
    /\ Insert(n, inserted)
    /\ UNCHANGED <<roster, registering>>

(* handleRegister looks the name up and inserts without suspending. *)
HandleRegister(n) ==
    /\ ~ InUse(n)
    /\ Insert(n, inserted)
    /\ UNCHANGED <<roster, registering>>

(* The entries a LIKE n% selects: those of n, and of every longer name. *)
EntriesLike(n) == {e \in roster : <<n, e.owner>> \in Matches}

(* handleDelete of the row r that carries the id of the request. *)
HandleDelete(r) ==
    /\ credentials' = {s \in credentials : s.id # r.id}
    /\ roster' = roster \ EntriesLike(r.jid)
    /\ UNCHANGED <<registering, inserted, registered>>

(***************************************************************************)
(* In-band registration.                                                   *)
(***************************************************************************)
(* The name is free: the hash of the password goes to the process pool.  A
   name in use is answered with conflict and changes nothing; an empty one
   is no text at all, which the table refuses. *)
RegisterCheck(c, n) ==
    /\ n # Empty
    /\ \A t \in registering : t.client # c
    /\ ~ InUse(n)
    /\ registering' = registering \cup
          {[client |-> c, jid |-> n, checked |-> inserted]}
    /\ UNCHANGED <<credentials, roster, inserted, registered>>

RegisterStore(t) ==
    /\ Insert(t.jid, t.checked)
    /\ registering' = registering \ {t}
    /\ UNCHANGED roster

(* No password in the query, or the process stops in between. *)
RegisterDies(t) ==
    /\ registering' = registering \ {t}
    /\ UNCHANGED <<credentials, roster, inserted, registered>>

(* Roster.handle_set of a session creates an entry.  A session may outlive its
   account; nobody is authenticated under the empty name. *)
AddEntry(n, i) ==
    /\ n \in registered /\ n # Empty
    /\ [owner |-> n, item |-> i] \notin roster
    /\ roster' = roster \cup {[owner |-> n, item |-> i]}
    /\ UNCHANGED <<credentials, registering, inserted, registered>>

AccountsNext ==
    \/ \E c \in Clients, n \in Names : RegisterCheck(c, n)
    \/ \E t \in registering : RegisterStore(t) \/ RegisterDies(t)
    \/ \E n \in Names : HandleRegister(n)
    \/ \E r \in credentials : HandleDelete(r)
    \/ \E n \in Names, i \in Items : AddEntry(n, i)

AccountsSpec == AccountsInit /\ [][AccountsNext]_accountVars

(***************************************************************************)
(* Properties.                                                             *)
(***************************************************************************)
(* Two accounts of one name come from registrations that overlapped: the
   later one looked the name up before the earlier one was stored.  So the
   administration API, which does not suspend, never adds a second one. *)
DuplicatesOverlapped ==
    \A r, s \in credentials :
        r.jid = s.jid /\ r.born < s.born => s.checked < r.born
=============================================================================
