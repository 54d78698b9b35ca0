----------------------------- MODULE AdminPage ------------------------------
(***************************************************************************)
(* The administration page (webpage/src, a React program) over the tables  *)
(* of Accounts.  The page keeps what it was last told; every request to    *)
(* the API is in flight between an event handler that sends it and the     *)
(* promise callback that handles its answer, and answers come back in any  *)
(* order.  An event handler and the effects it causes are one step, as is  *)
(* a callback: the browser runs them without interleaving.                 *)
(*                                                                         *)
(* The effects of Contact are those of the bundle the server hands out     *)
(* (webpage/build): retrieveUserList when the component is mounted and     *)
(* whenever formVisible changes.                                           *)
(***************************************************************************)
EXTENDS Accounts

CONSTANTS
    MaxRequests,   \* bound: requests ever sent
    MaxInFlight,   \* bound: requests in flight
    MaxVisits      \* bound: times the route users/ is entered

ASSUME PageBoundsAssumption ==
    MaxRequests \in Nat /\ MaxInFlight \in Nat /\ MaxVisits \in Nat

VARIABLES
    page,       \* the state of Contact, FormModal and RosterModal
    requests,   \* requests in flight
    sent,       \* requests ever sent; a request is told apart by its number
    visit       \* times Contact was mounted

vars == <<credentials, roster, registering, inserted, registered,
          page, requests, sent, visit>>

None == 0

(***************************************************************************)
(* State of the page.  The fields of the source are mounted (the route),   *)
(* users, rosterSelected (None for -1), rosterVisible, formVisible, jid    *)
(* (typed in the form) and roster.  The others are history: the numbers of *)
(* the requests that users and roster answer, the largest answered so far, *)
(* whether a request failed since one was last sent, the request the       *)
(* dialog was opened with, and the rows whose deletion was confirmed with  *)
(* the request sent for them.                                              *)
(***************************************************************************)
(* Mutant: the form starts without a name. *)
NewPageNoJid ==
    [mounted |-> FALSE, users |-> {}, rosterSelected |-> None,
     rosterVisible |-> FALSE, formVisible |-> FALSE, jid |-> {}, roster |-> {},
     usersOf |-> 0, usersLast |-> 0, usersFailed |-> FALSE,
     rosterOf |-> 0, rosterLast |-> 0, rosterFailed |-> FALSE,
     rosterId |-> None, opened |-> 0, confirmed |-> {}]

NewPage ==
    [mounted |-> FALSE, users |-> {}, rosterSelected |-> None,
     rosterVisible |-> FALSE, formVisible |-> FALSE, jid |-> Empty, roster |-> {},
     usersOf |-> 0, usersLast |-> 0, usersFailed |-> FALSE,
     rosterOf |-> 0, rosterLast |-> 0, rosterFailed |-> FALSE,
     rosterId |-> None, opened |-> 0, confirmed |-> {}]

Kinds == {"users", "roster", "delete", "create"}
(* id is the argument of roster and delete, jid that of create; rows and
   entries hold the answer.  row is history: the row of the table on the page
   whose button was pressed. *)
Request == [n : Nat \ {0}, visit : Nat, kind : Kinds, id : Nat, jid : Names,
            row : SUBSET Row, status : {"sent", "ok"},
            rows : SUBSET Row, entries : SUBSET Entry]

NewRequest(n, v, kind) ==
    [n |-> n, visit |-> v, kind |-> kind, id |-> None, jid |-> Empty,
     row |-> {}, status |-> "sent", rows |-> {}, entries |-> {}]

Init ==
    /\ AccountsInit
    /\ page = NewPage
    /\ requests = {}
    /\ sent = 0
    /\ visit = 0

(***************************************************************************)
(* Requests of the components.                                             *)
(***************************************************************************)
ListRequest(n, v) == NewRequest(n, v, "users")

CanSend(k) == sent + k <= MaxRequests /\ Cardinality(requests) + k <= MaxInFlight

RetrieveUserList ==
    /\ CanSend(1)
    /\ sent' = sent + 1
    /\ requests' = requests \cup {ListRequest(sent + 1, visit)}

RowRequest(kind, r) ==
    [NewRequest(sent + 1, visit, kind) EXCEPT !.id = r.id, !.row = {r}]

SendRow(kind, r) ==
    /\ CanSend(1)
    /\ sent' = sent + 1
    /\ requests' = requests \cup {RowRequest(kind, r)}

(* What handleRegister of the form posts: the state, typed on this or an
   earlier opening of the form. *)
FormRequest == [NewRequest(sent + 1, visit, "create") EXCEPT !.jid = page.jid]

(***************************************************************************)
(* Events.  A modal covers the table: only one is open, and the buttons of *)
(* the table are reached when none is.                                     *)
(***************************************************************************)
Uncovered == page.mounted /\ ~ page.formVisible /\ ~ page.rosterVisible

(* Entering the route users/: both effects of Contact run. *)
Mount ==
    /\ ~ page.mounted /\ visit < MaxVisits
    /\ CanSend(2)
    /\ visit' = visit + 1
    /\ page' = [NewPage EXCEPT !.mounted = TRUE]
    /\ requests' = requests \cup
          {ListRequest(sent + 1, visit + 1), ListRequest(sent + 2, visit + 1)}
    /\ sent' = sent + 2
    /\ UNCHANGED accountVars

(* Leaving it: the state goes, requests stay in flight. *)
Unmount ==
    /\ page.mounted
    /\ page' = NewPage
    /\ UNCHANGED <<accountVars, requests, sent, visit>>

OpenForm ==
    /\ Uncovered
    /\ page' = [page EXCEPT !.formVisible = TRUE, !.usersFailed = FALSE]
    /\ RetrieveUserList
    /\ UNCHANGED <<accountVars, visit>>

TypeJid(n) ==
    /\ page.formVisible
    /\ page' = [page EXCEPT !.jid = n]
    /\ UNCHANGED <<accountVars, requests, sent, visit>>

(* Ok: the form is posted, then the effect of its closing asks for the list,
   before anything is known of the registration. *)
SubmitForm ==
    /\ page.formVisible
    /\ CanSend(2)
    /\ page' = [page EXCEPT !.formVisible = FALSE, !.usersFailed = FALSE]
    /\ requests' = requests \cup {FormRequest, ListRequest(sent + 2, visit)}
    /\ sent' = sent + 2
    /\ UNCHANGED <<accountVars, visit>>

CancelForm ==
    /\ page.formVisible
    /\ page' = [page EXCEPT !.formVisible = FALSE, !.usersFailed = FALSE]
    /\ RetrieveUserList
    /\ UNCHANGED <<accountVars, visit>>

(* onClose of the modal is setFormVisible itself: the event it is called
   with becomes the new, true value.  The form stays, the effect runs. *)
DismissForm ==
    /\ page.formVisible
    /\ page' = [page EXCEPT !.usersFailed = FALSE]
    /\ RetrieveUserList
    /\ UNCHANGED <<accountVars, visit>>

(* The effect of RosterModal asks for the roster when rosterSelected changes. *)
ShowRoster(r) ==
    /\ Uncovered
    /\ page' = [page EXCEPT !.rosterSelected = r.id, !.rosterVisible = TRUE,
                            !.opened = sent + 1, !.rosterFailed = FALSE]
    /\ IF page.rosterSelected # r.id
       THEN SendRow("roster", r)
       ELSE UNCHANGED <<requests, sent>>
    /\ UNCHANGED <<accountVars, visit>>

(* Mutant: Close hides the dialog only. *)
CloseRosterHides ==
    /\ page.rosterVisible
    /\ page' = [page EXCEPT !.rosterVisible = FALSE]
    /\ UNCHANGED <<accountVars, requests, sent, visit>>

(* Close.  As with the form, the other ways to close a modal do not. *)
CloseRoster ==
    /\ page.rosterVisible
    /\ page' = [page EXCEPT !.rosterSelected = None, !.rosterVisible = FALSE]
    /\ UNCHANGED <<accountVars, requests, sent, visit>>

(* The bin of a row, and Ok to "Are you sure to delete". *)
DeleteUser(r) ==
    /\ Uncovered
    /\ SendRow("delete", r)
    /\ UNCHANGED <<accountVars, page, visit>>

(* What each component offers. *)
FormModal ==
    SubmitForm \/ CancelForm \/ DismissForm \/ \E n \in Names : TypeJid(n)
RosterModal == CloseRoster
UserTable == \E r \in page.users : ShowRoster(r) \/ DeleteUser(r)
Contact == FormModal \/ RosterModal \/ OpenForm \/ UserTable
SideBar == Mount \/ Unmount
App == SideBar \/ Contact

(***************************************************************************)
(* The API.                                                                *)
(***************************************************************************)
Answer(q, rows, entries) ==
    /\ q.status = "sent"
    /\ requests' = (requests \ {q}) \cup
          {[q EXCEPT !.status = "ok", !.rows = rows, !.entries = entries]}
    /\ UNCHANGED <<page, sent, visit>>

HandleUser(q) ==
    /\ q.kind = "users"
    /\ Answer(q, credentials, {})
    /\ UNCHANGED accountVars

HandleRoster(q) ==
    /\ q.kind = "roster"
    /\ \E r \in credentials :
          /\ r.id = q.id /\ r.jid # Empty
          /\ Answer(q, {r}, EntriesLike(r.jid))
    /\ UNCHANGED accountVars

(* Mutant: the account is looked up by its name. *)
ServeDeleteByName(q) ==
    /\ q.kind = "delete"
    /\ \E r \in credentials :
          /\ \E s \in q.row : r.jid = s.jid
          /\ HandleDelete(r)
          /\ Answer(q, {r}, {})

ServeDelete(q) ==
    /\ q.kind = "delete"
    /\ \E r \in credentials :
          /\ r.id = q.id
          /\ HandleDelete(r)
          /\ Answer(q, {r}, {})

ServeCreate(q) ==
    /\ q.kind = "create"
    /\ HandleRegister(q.jid)
    /\ Answer(q, {}, {})

(***************************************************************************)
(* The promise callbacks.  Those of a Contact that is gone set no state,   *)
(* but handleDelete still asks for the list.                               *)
(***************************************************************************)
Here(q) == page.mounted /\ q.visit = visit

ReceiveUsers(q) ==
    /\ q.kind = "users" /\ q.status = "ok"
    /\ page' = IF Here(q)
               THEN [page EXCEPT !.users = q.rows, !.usersOf = q.n,
                        !.usersLast = IF q.n > @ THEN q.n ELSE @]
               ELSE page
    /\ requests' = requests \ {q}
    /\ UNCHANGED <<accountVars, sent, visit>>

ReceiveRoster(q) ==
    /\ q.kind = "roster" /\ q.status = "ok"
    /\ page' = IF Here(q)
               THEN [page EXCEPT !.roster = q.entries, !.rosterOf = q.n,
                        !.rosterId = q.id,
                        !.rosterLast = IF q.n > @ THEN q.n ELSE @]
               ELSE page
    /\ requests' = requests \ {q}
    /\ UNCHANGED <<accountVars, sent, visit>>

(* Mutant: the list is not asked for again. *)
ReceiveDeletedSilently(q) ==
    /\ q.kind = "delete" /\ q.status = "ok"
    /\ page' = IF Here(q)
               THEN [page EXCEPT !.confirmed =
                        @ \cup {[row |-> r, n |-> sent + 1] : r \in q.rows}]
               ELSE page
    /\ requests' = requests \ {q}
    /\ UNCHANGED <<accountVars, sent, visit>>

ReceiveDeleted(q) ==
    /\ q.kind = "delete" /\ q.status = "ok"
    /\ page' = IF Here(q)
               THEN [page EXCEPT !.usersFailed = FALSE,
                        !.confirmed = @ \cup {[row |-> r, n |-> sent + 1] : r \in q.rows}]
               ELSE page
    /\ sent < MaxRequests
    /\ sent' = sent + 1
    /\ requests' = (requests \ {q}) \cup {ListRequest(sent + 1, q.visit)}
    /\ UNCHANGED <<accountVars, visit>>

ReceiveCreated(q) ==
    /\ q.kind = "create" /\ q.status = "ok"
    /\ requests' = requests \ {q}
    /\ UNCHANGED <<accountVars, page, sent, visit>>

(* An error: the row is not there, the name is in use, the database fails, or
   the network does, before or after the handler ran.  It is logged, or an
   unhandled rejection: what the page shows stays. *)
Fail(q) ==
    /\ page' = IF ~ Here(q) THEN page
               ELSE CASE q.kind = "users"  -> [page EXCEPT !.usersFailed = TRUE]
                      [] q.kind = "roster" -> [page EXCEPT !.rosterFailed = TRUE]
                      [] OTHER -> page
    /\ requests' = requests \ {q}
    /\ UNCHANGED <<accountVars, sent, visit>>

Api(q) == HandleUser(q) \/ HandleRoster(q) \/ ServeDelete(q) \/ ServeCreate(q)

Receive(q) ==
    ReceiveUsers(q) \/ ReceiveRoster(q) \/ ReceiveDeleted(q)
        \/ ReceiveCreated(q) \/ Fail(q)

Next ==
    \/ App
    \/ \E q \in requests : Api(q) \/ Receive(q)
    \/ AccountsNext /\ UNCHANGED <<page, requests, sent, visit>>

Spec == Init /\ [][Next]_vars
(***************************************************************************)
(* Properties.                                                             *)
(***************************************************************************)
Page == [mounted : BOOLEAN, users : SUBSET Row, rosterSelected : Nat,
         rosterVisible : BOOLEAN, formVisible : BOOLEAN, jid : Names,
         roster : SUBSET Entry, usersOf : Nat, usersLast : Nat,
         usersFailed : BOOLEAN, rosterOf : Nat, rosterLast : Nat,
         rosterFailed : BOOLEAN, rosterId : Nat, opened : Nat,
         confirmed : SUBSET [row : Row, n : Nat]]

TypeOK ==
    /\ AccountsTypeOK
    /\ page \in Page
    /\ requests \in SUBSET Request
    /\ sent \in Nat
    /\ visit \in Nat

Awaiting(kind) == \E q \in requests : q.kind = kind /\ Here(q)

(* Once nothing about the list is on its way, no account is shown whose
   deletion was confirmed to the page - whatever else was deleted, registered
   and listed meanwhile - unless the last request for the list failed or an
   older answer came in after a newer one (retrieveUserList in the callback
   of handleDelete). *)
DeletedNotShown ==
    page.mounted /\ ~ Awaiting("users") /\ ~ page.usersFailed
            /\ page.usersOf = page.usersLast
        => \A d \in page.confirmed : d.row \notin page.users

(* Once no roster is on its way, an open dialog shows the roster that was
   asked for when it was opened, for the account it was opened for and not
   one it showed before, with the same two exceptions (setRosterSelected(-1)
   in Close, the effect of RosterModal). *)
DialogShowsSelected ==
    page.rosterVisible /\ ~ Awaiting("roster") /\ ~ page.rosterFailed
            /\ page.rosterOf = page.rosterLast
        => page.rosterId = page.rosterSelected /\ page.rosterOf >= page.opened

(* The account that a deletion removes, or a dialog shows, is the one in the
   row that was clicked or, its id having been given again, one registered
   later: a stale list never reaches an older account (handleDelete and
   handleRoster look up the id alone). *)
ShownOrLater ==
    \A q \in requests : \A r \in q.rows, s \in q.row :
        r = s \/ r.born > s.born
=============================================================================
