--------------------------- MODULE AdminPageProofs ---------------------------
(***************************************************************************)
(* Proofs about AdminPage: it changes the tables as Accounts allows, a     *)
(* deletion reaches no older account, a deleted account goes from the      *)
(* list, and an open dialog ends with the roster it was opened for.        *)
(***************************************************************************)
EXTENDS AdminPage, AccountsProofs

(* What is known of a request that is sent. *)
LEMMA NewRequestType ==
  ASSUME NEW n \in Nat \ {0}, NEW v \in Nat, NEW kind \in Kinds
  PROVE  /\ NewRequest(n, v, kind) \in Request
         /\ NewRequest(n, v, kind).n = n
         /\ NewRequest(n, v, kind).visit = v
         /\ NewRequest(n, v, kind).kind = kind
         /\ NewRequest(n, v, kind).status = "sent"
         /\ NewRequest(n, v, kind).row = {}
         /\ NewRequest(n, v, kind).rows = {}
BY MatchesAssumption DEF NewRequest, Request, None

LEMMA ListRequestType ==
  ASSUME NEW n \in Nat \ {0}, NEW v \in Nat
  PROVE  /\ ListRequest(n, v) \in Request
         /\ ListRequest(n, v).n = n
         /\ ListRequest(n, v).visit = v
         /\ ListRequest(n, v).kind = "users"
         /\ ListRequest(n, v).row = {}
         /\ ListRequest(n, v).rows = {}
<1>1. "users" \in Kinds
  BY DEF Kinds
<1> QED BY <1>1, NewRequestType DEF ListRequest

LEMMA RowRequestType ==
  ASSUME TypeOK, NEW kind \in Kinds, NEW r \in Row
  PROVE  /\ RowRequest(kind, r) \in Request
         /\ RowRequest(kind, r).n = sent + 1
         /\ RowRequest(kind, r).visit = visit
         /\ RowRequest(kind, r).kind = kind
         /\ RowRequest(kind, r).id = r.id
         /\ RowRequest(kind, r).row = {r}
         /\ RowRequest(kind, r).rows = {}
<1>1. sent + 1 \in Nat \ {0} /\ visit \in Nat /\ r.id \in Nat
  BY DEF TypeOK, Row
<1>2. NewRequest(sent + 1, visit, kind) \in Request
  BY <1>1, NewRequestType
<1> QED BY <1>1, <1>2 DEF RowRequest, NewRequest, Request

LEMMA FormRequestType ==
  ASSUME TypeOK
  PROVE  /\ FormRequest \in Request
         /\ FormRequest.n = sent + 1
         /\ FormRequest.visit = visit
         /\ FormRequest.kind = "create"
         /\ FormRequest.row = {}
         /\ FormRequest.rows = {}
<1>1. sent + 1 \in Nat \ {0} /\ visit \in Nat /\ page.jid \in Names
  BY DEF TypeOK, Page
<1>2. NewRequest(sent + 1, visit, "create") \in Request
  BY <1>1, NewRequestType DEF Kinds
<1> QED BY <1>1, <1>2 DEF FormRequest, NewRequest, Request

(* An answer changes the status and the contents of its request only. *)
LEMMA AnswerType ==
  ASSUME NEW q \in Request, NEW rows \in SUBSET Row, NEW entries \in SUBSET Entry,
         NEW a, a = [q EXCEPT !.status = "ok", !.rows = rows, !.entries = entries]
  PROVE  /\ a \in Request
         /\ a.n = q.n /\ a.visit = q.visit /\ a.kind = q.kind
         /\ a.id = q.id /\ a.row = q.row
         /\ a.status = "ok" /\ a.rows = rows
BY DEF Request

LEMMA NewPageType == NewPage \in Page
BY MatchesAssumption DEF NewPage, Page, None

LEMMA InitType == Init => TypeOK
BY NewPageType DEF Init, TypeOK, AccountsInit, AccountsTypeOK

LEMMA EntriesType ==
  ASSUME AccountsTypeOK, NEW n
  PROVE  EntriesLike(n) \in SUBSET Entry
BY DEF EntriesLike, AccountsTypeOK

(***************************************************************************)
(* The tables.                                                             *)
(***************************************************************************)
LEMMA AppKeepsTables == App => UNCHANGED accountVars
BY DEF App, SideBar, Contact, FormModal, RosterModal, UserTable, Mount, Unmount,
   OpenForm, SubmitForm, CancelForm, DismissForm, TypeJid, ShowRoster,
   DeleteUser, CloseRoster, accountVars

LEMMA AccountsRefined ==
  ASSUME TypeOK, [Next]_vars
  PROVE  [AccountsNext]_accountVars
<1>1. ASSUME NEW q \in requests, Api(q) PROVE [AccountsNext]_accountVars
  <2>1. CASE HandleUser(q) \/ HandleRoster(q)
    BY <2>1 DEF HandleUser, HandleRoster
  <2>2. CASE ServeDelete(q)
    BY <2>2 DEF ServeDelete, AccountsNext
  <2>3. CASE ServeCreate(q)
    <3>1. q.jid \in Names
      BY DEF TypeOK, Request
    <3> QED BY <2>3, <3>1 DEF ServeCreate, AccountsNext
  <2> QED BY <1>1, <2>1, <2>2, <2>3 DEF Api
<1>2. ASSUME NEW q \in requests, Receive(q) PROVE UNCHANGED accountVars
  BY <1>2 DEF Receive, ReceiveUsers, ReceiveRoster, ReceiveDeleted,
     ReceiveCreated, Fail
<1>3. CASE UNCHANGED vars
  BY <1>3 DEF vars, accountVars
<1> QED BY <1>1, <1>2, <1>3, AppKeepsTables DEF Next

(* A row that appears is newer than all that ever were. *)
LEMMA RowsAppear ==
  ASSUME AccountsTypeOK, [AccountsNext]_accountVars
  PROVE  /\ inserted' \in Nat /\ inserted' >= inserted
         /\ \A r \in credentials' : r \in credentials \/ r.born > inserted
<1>1. ASSUME NEW n, NEW check, Insert(n, check)
      PROVE  /\ inserted' \in Nat /\ inserted' >= inserted
             /\ \A r \in credentials' : r \in credentials \/ r.born > inserted
  BY <1>1 DEF Insert, AccountsTypeOK
<1>2. inserted \in Nat
  BY DEF AccountsTypeOK
<1>3. ASSUME NEW t \in registering, RegisterStore(t)
      PROVE  Insert(t.jid, t.checked)
  BY <1>3 DEF RegisterStore
<1>4. ASSUME NEW n \in Names, HandleRegister(n)
      PROVE  Insert(n, inserted)
  BY <1>4 DEF HandleRegister
<1>5. ASSUME NEW r \in credentials, HandleDelete(r)
      PROVE  credentials' \subseteq credentials /\ inserted' = inserted
  BY <1>5 DEF HandleDelete
<1>6. ASSUME \/ \E c \in Clients, n \in Names : RegisterCheck(c, n)
             \/ \E t \in registering : RegisterDies(t)
             \/ \E n \in Names, i \in Items : AddEntry(n, i)
             \/ UNCHANGED accountVars
      PROVE  credentials' = credentials /\ inserted' = inserted
  BY <1>6 DEF RegisterCheck, RegisterDies, AddEntry, accountVars
<1> QED BY <1>1, <1>2, <1>3, <1>4, <1>5, <1>6 DEF AccountsNext

(***************************************************************************)
(* Types.                                                                  *)
(***************************************************************************)
LEMMA AppType ==
  ASSUME TypeOK, App
  PROVE  TypeOK'
<1> USE DEF TypeOK
<1>0. /\ AccountsTypeOK'
      /\ sent + 1 \in Nat \ {0} /\ sent + 2 \in Nat \ {0} /\ visit + 1 \in Nat
  BY AppKeepsTables DEF accountVars, AccountsTypeOK
<1>1. CASE Mount
  <2>1. page' \in Page
    BY <1>1, NewPageType DEF Mount, Page
  <2>2. ListRequest(sent + 1, visit + 1) \in Request /\ ListRequest(sent + 2, visit + 1) \in Request
    BY <1>0, ListRequestType
  <2> QED BY <1>0, <1>1, <2>1, <2>2 DEF Mount
<1>2. CASE Unmount
  BY <1>0, <1>2, NewPageType DEF Unmount
<1>3. CASE OpenForm \/ CancelForm \/ DismissForm
  <2>1. page' \in Page
    BY <1>3 DEF OpenForm, CancelForm, DismissForm, Page
  <2>2. ListRequest(sent + 1, visit) \in Request
    BY <1>0, ListRequestType
  <2> QED BY <1>0, <1>3, <2>1, <2>2 DEF OpenForm, CancelForm, DismissForm, RetrieveUserList
<1>4. CASE SubmitForm
  <2>1. page' \in Page
    BY <1>4 DEF SubmitForm, Page
  <2>2. FormRequest \in Request /\ ListRequest(sent + 2, visit) \in Request
    BY <1>0, ListRequestType, FormRequestType
  <2> QED BY <1>0, <1>4, <2>1, <2>2 DEF SubmitForm
<1>5. ASSUME NEW n \in Names, TypeJid(n) PROVE TypeOK'
  <2>1. page' \in Page
    BY <1>5 DEF TypeJid, Page
  <2> QED BY <1>0, <1>5, <2>1 DEF TypeJid
<1>6. ASSUME NEW r \in page.users, ShowRoster(r) PROVE TypeOK'
  <2>1. r \in Row /\ r.id \in Nat
    BY DEF Page, Row
  <2>2. page' \in Page
    BY <1>0, <1>6, <2>1 DEF ShowRoster, Page
  <2>3. RowRequest("roster", r) \in Request
    BY <2>1, RowRequestType DEF Kinds
  <2> QED BY <1>0, <1>6, <2>2, <2>3 DEF ShowRoster, SendRow
<1>7. ASSUME NEW r \in page.users, DeleteUser(r) PROVE TypeOK'
  <2>1. r \in Row
    BY DEF Page
  <2>2. RowRequest("delete", r) \in Request
    BY <2>1, RowRequestType DEF Kinds
  <2> QED BY <1>0, <1>7, <2>2 DEF DeleteUser, SendRow
<1>8. CASE CloseRoster
  <2>1. page' \in Page
    BY <1>8 DEF CloseRoster, Page, None
  <2> QED BY <1>0, <1>8, <2>1 DEF CloseRoster
<1> QED BY <1>1, <1>2, <1>3, <1>4, <1>5, <1>6, <1>7, <1>8
        DEF App, SideBar, Contact, FormModal, RosterModal, UserTable

LEMMA AnswerKeepsType ==
  ASSUME TypeOK, AccountsTypeOK', NEW q \in requests, NEW rows \in SUBSET Row,
         NEW entries \in SUBSET Entry, Answer(q, rows, entries)
  PROVE  TypeOK'
<1>1. [q EXCEPT !.status = "ok", !.rows = rows, !.entries = entries] \in Request
  BY AnswerType DEF TypeOK
<1> QED BY <1>1 DEF TypeOK, Answer

LEMMA ApiType ==
  ASSUME TypeOK, AccountsTypeOK', NEW q \in requests, Api(q)
  PROVE  TypeOK'
<1>1. credentials \in SUBSET Row
  BY DEF TypeOK, AccountsTypeOK
<1>2. CASE HandleUser(q)
  BY <1>1, <1>2, AnswerKeepsType DEF HandleUser
<1>3. CASE HandleRoster(q)
  <2>1. PICK r \in credentials : Answer(q, {r}, EntriesLike(r.jid))
    BY <1>3 DEF HandleRoster
  <2>2. EntriesLike(r.jid) \in SUBSET Entry
    BY EntriesType DEF TypeOK
  <2> QED BY <1>1, <2>1, <2>2, AnswerKeepsType
<1>4. CASE ServeDelete(q)
  BY <1>1, <1>4, AnswerKeepsType DEF ServeDelete
<1>5. CASE ServeCreate(q)
  BY <1>5, AnswerKeepsType DEF ServeCreate
<1> QED BY <1>2, <1>3, <1>4, <1>5 DEF Api

LEMMA ReceiveType ==
  ASSUME TypeOK, NEW q \in requests, Receive(q)
  PROVE  TypeOK'
<1> USE DEF TypeOK
<1>0. /\ AccountsTypeOK'
      /\ q \in Request /\ requests \ {q} \subseteq Request
      /\ q.n \in Nat /\ q.id \in Nat /\ q.visit \in Nat
      /\ q.rows \in SUBSET Row /\ q.entries \in SUBSET Entry
      /\ sent + 1 \in Nat \ {0}
  BY DEF Receive, ReceiveUsers, ReceiveRoster, ReceiveDeleted, ReceiveCreated,
     Fail, accountVars, AccountsTypeOK, Request
<1>1. CASE ReceiveUsers(q)
  <2>1. page' \in Page
    BY <1>0, <1>1 DEF ReceiveUsers, Page
  <2> QED BY <1>0, <1>1, <2>1 DEF ReceiveUsers
<1>2. CASE ReceiveRoster(q)
  <2>1. page' \in Page
    BY <1>0, <1>2 DEF ReceiveRoster, Page
  <2> QED BY <1>0, <1>2, <2>1 DEF ReceiveRoster
<1>3. CASE ReceiveDeleted(q)
  <2>1. {[row |-> r, n |-> sent + 1] : r \in q.rows} \subseteq [row : Row, n : Nat]
    BY <1>0
  <2>2. page' \in Page
    BY <1>3, <2>1 DEF ReceiveDeleted, Page
  <2>3. ListRequest(sent + 1, q.visit) \in Request
    BY <1>0, ListRequestType
  <2> QED BY <1>0, <1>3, <2>2, <2>3 DEF ReceiveDeleted
<1>4. CASE ReceiveCreated(q)
  BY <1>0, <1>4 DEF ReceiveCreated
<1>5. CASE Fail(q)
  <2>1. page' \in Page
    BY <1>5 DEF Fail, Page
  <2> QED BY <1>0, <1>5, <2>1 DEF Fail
<1> QED BY <1>1, <1>2, <1>3, <1>4, <1>5 DEF Receive

LEMMA TypeStep ==
  ASSUME TypeOK, AccountsTypeOK', [Next]_vars
  PROVE  TypeOK'
<1>1. CASE AccountsNext /\ UNCHANGED <<page, requests, sent, visit>>
  BY <1>1 DEF TypeOK
<1>2. CASE UNCHANGED vars
  BY <1>2 DEF TypeOK, vars
<1> QED BY <1>1, <1>2, AppType, ApiType, ReceiveType DEF Next

(***************************************************************************)
(* The invariant.                                                          *)
(***************************************************************************)
(* Numbers are given in order, and a page that is not mounted is blank. *)
Numbered ==
  /\ \A q \in requests : q.n <= sent /\ q.visit <= visit
  /\ page.usersOf <= page.usersLast /\ page.usersLast <= sent
  /\ page.rosterOf <= page.rosterLast /\ page.rosterLast <= sent
  /\ page.opened <= sent
  /\ ~ page.mounted => page = NewPage

(* A row the page has come across is in the table, or its id is that of no
   older row of the table. *)
Known(s) ==
  /\ s.born <= inserted
  /\ \A r \in credentials : r.id = s.id => r = s \/ r.born > s.born

RowsKnown ==
  /\ \A s \in page.users : Known(s)
  /\ \A q \in requests : \A s \in q.row \cup q.rows : Known(s)

(* A request carries the id of its row; a list request is for no row. *)
RowsAsked ==
  \A q \in requests :
    /\ q.kind \in {"users", "create"} => q.row = {}
    /\ \A s \in q.row : s.id = q.id

Gone(r) == r \notin credentials /\ r.born <= inserted

DeletedGone ==
  /\ \A q \in requests : q.kind = "delete" => \A r \in q.rows : Gone(r)
  /\ \A d \in page.confirmed : Gone(d.row)

ListSettles ==
  \A d \in page.confirmed :
    /\ d.n <= sent
    /\ \A q \in requests :
         q.kind = "users" /\ q.visit = visit /\ q.n >= d.n => d.row \notin q.rows
    /\ page.usersOf >= d.n => d.row \notin page.users
    /\ \/ \E q \in requests : q.kind = "users" /\ q.visit = visit /\ q.n >= d.n
       \/ page.usersFailed
       \/ page.usersLast >= d.n

DialogSettles ==
  /\ ~ page.rosterVisible => page.rosterSelected = None
  /\ page.rosterVisible =>
       /\ \A q \in requests :
            q.kind = "roster" /\ q.visit = visit /\ q.n >= page.opened
              => q.id = page.rosterSelected
       /\ page.rosterOf >= page.opened => page.rosterId = page.rosterSelected
       /\ \/ \E q \in requests :
               q.kind = "roster" /\ q.visit = visit /\ q.n = page.opened
          \/ page.rosterFailed
          \/ page.rosterLast >= page.opened

PageInv ==
  /\ TypeOK /\ AccountsInv
  /\ Numbered /\ RowsKnown /\ RowsAsked /\ ShownOrLater
  /\ DeletedGone /\ ListSettles /\ DialogSettles

LEMMA PageInitInv == Init => PageInv
<1> SUFFICES ASSUME Init PROVE PageInv
  OBVIOUS
<1>1. TypeOK /\ AccountsInv
  BY InitType, AccountsInitInv DEF Init
<1>2. Numbered
  BY DEF Init, Numbered, NewPage
<1>3. RowsKnown /\ RowsAsked /\ ShownOrLater /\ DeletedGone /\ ListSettles
  BY DEF Init, RowsKnown, RowsAsked, ShownOrLater, DeletedGone, ListSettles, NewPage
<1>4. DialogSettles
  BY DEF Init, DialogSettles, NewPage
<1> QED BY <1>1, <1>2, <1>3, <1>4 DEF PageInv

(***************************************************************************)
(* What the tables do to what is known of their rows.                      *)
(***************************************************************************)
LEMMA KnownKeeps ==
  ASSUME AccountsTypeOK, AccountsTypeOK', [AccountsNext]_accountVars,
         NEW s \in Row, Known(s)
  PROVE  Known(s)'
<1>1. s.born \in Nat /\ inserted \in Nat
  BY DEF Row, AccountsTypeOK
<1>2. \A r \in credentials' : r.born \in Nat
  BY DEF Row, AccountsTypeOK
<1> QED BY <1>1, <1>2, RowsAppear DEF Known

LEMMA GoneKeeps ==
  ASSUME AccountsTypeOK, [AccountsNext]_accountVars, NEW r \in Row, Gone(r)
  PROVE  Gone(r)'
<1>1. r.born \in Nat /\ inserted \in Nat
  BY DEF Row, AccountsTypeOK
<1> QED BY <1>1, RowsAppear DEF Gone

LEMMA StoredKnown ==
  ASSUME AccountsInv, NEW r \in credentials
  PROVE  Known(r)
BY DEF AccountsInv, RowsNumbered, OneRowPerId, Known

(***************************************************************************)
(* Steps by what they leave alone.                                         *)
(***************************************************************************)
(* The numbers of what a step sends and shows. *)
LEMMA NumberedApp ==
  ASSUME PageInv, App
  PROVE  Numbered'
<1> USE DEF PageInv
<1>0. /\ sent \in Nat /\ visit \in Nat
      /\ sent + 1 \in Nat \ {0} /\ sent + 2 \in Nat \ {0} /\ visit + 1 \in Nat
      /\ \A q \in requests : q.n \in Nat /\ q.visit \in Nat
  BY DEF TypeOK, Request
<1>a. page \in Page
  BY DEF TypeOK
<1>b. ListRequest(sent + 1, visit).n = sent + 1 /\ ListRequest(sent + 1, visit).visit = visit
  BY <1>0, ListRequestType
<1>1. CASE Mount
  <2>1. /\ ListRequest(sent + 1, visit + 1).n = sent + 1
        /\ ListRequest(sent + 1, visit + 1).visit = visit + 1
        /\ ListRequest(sent + 2, visit + 1).n = sent + 2
        /\ ListRequest(sent + 2, visit + 1).visit = visit + 1
    BY <1>0, ListRequestType
  <2>2. /\ page'.mounted = TRUE
        /\ page'.usersOf = 0 /\ page'.usersLast = 0 /\ page'.rosterOf = 0
        /\ page'.rosterLast = 0 /\ page'.opened = 0
    BY <1>1 DEF Mount, NewPage
  <2> QED BY <1>0, <1>1, <2>1, <2>2 DEF Mount, Numbered
<1>2. CASE Unmount
  BY <1>0, <1>2 DEF Unmount, Numbered, NewPage
<1>3. CASE OpenForm \/ CancelForm \/ DismissForm
  <2>1. page.mounted
    BY <1>3 DEF OpenForm, CancelForm, DismissForm, Uncovered, Numbered, NewPage
  <2>2. /\ page'.mounted = page.mounted
        /\ page'.usersOf = page.usersOf /\ page'.usersLast = page.usersLast
        /\ page'.rosterOf = page.rosterOf /\ page'.rosterLast = page.rosterLast
        /\ page'.opened = page.opened
    BY <1>3, <1>a DEF OpenForm, CancelForm, DismissForm, Page
  <2> QED BY <1>0, <1>a, <1>b, <1>3, <2>1, <2>2
          DEF OpenForm, CancelForm, DismissForm, RetrieveUserList, Numbered, Page
<1>4. CASE SubmitForm
  <2>1. page.mounted
    BY <1>4 DEF SubmitForm, Numbered, NewPage
  <2>2. /\ page'.mounted = page.mounted
        /\ page'.usersOf = page.usersOf /\ page'.usersLast = page.usersLast
        /\ page'.rosterOf = page.rosterOf /\ page'.rosterLast = page.rosterLast
        /\ page'.opened = page.opened
    BY <1>4, <1>a DEF SubmitForm, Page
  <2>3. /\ ListRequest(sent + 2, visit).n = sent + 2
        /\ ListRequest(sent + 2, visit).visit = visit
        /\ FormRequest.n = sent + 1 /\ FormRequest.visit = visit
    BY <1>0, ListRequestType, FormRequestType
  <2> QED BY <1>0, <1>a, <1>4, <2>1, <2>2, <2>3 DEF SubmitForm, Numbered, Page
<1>5. ASSUME NEW n \in Names, TypeJid(n) PROVE Numbered'
  <2>1. page.mounted
    BY <1>5 DEF TypeJid, Numbered, NewPage
  <2>2. /\ page'.mounted = page.mounted
        /\ page'.usersOf = page.usersOf /\ page'.usersLast = page.usersLast
        /\ page'.rosterOf = page.rosterOf /\ page'.rosterLast = page.rosterLast
        /\ page'.opened = page.opened
    BY <1>5, <1>a DEF TypeJid, Page
  <2> QED BY <1>5, <2>1, <2>2 DEF TypeJid, Numbered
<1>6. ASSUME NEW r \in page.users, ShowRoster(r) PROVE Numbered'
  <2>1. page.mounted /\ page.rosterSelected = None
    BY <1>6 DEF ShowRoster, Uncovered, DialogSettles
  <2>2. r \in Row /\ r.id # None
    BY <1>a DEF Page, Row, None
  <2>3. /\ page'.mounted = page.mounted
        /\ page'.usersOf = page.usersOf /\ page'.usersLast = page.usersLast
        /\ page'.rosterOf = page.rosterOf /\ page'.rosterLast = page.rosterLast
        /\ page'.opened = sent + 1
    BY <1>6, <1>a DEF ShowRoster, Page
  <2>4. RowRequest("roster", r).n = sent + 1 /\ RowRequest("roster", r).visit = visit
    BY <2>2, RowRequestType DEF Kinds
  <2> QED BY <1>0, <1>a, <1>6, <2>1, <2>2, <2>3, <2>4
          DEF ShowRoster, SendRow, Numbered, Page
<1>7. ASSUME NEW r \in page.users, DeleteUser(r) PROVE Numbered'
  <2>1. r \in Row
    BY <1>a DEF Page
  <2>2. RowRequest("delete", r).n = sent + 1 /\ RowRequest("delete", r).visit = visit
    BY <2>1, RowRequestType DEF Kinds
  <2> QED BY <1>0, <1>a, <1>7, <2>2 DEF DeleteUser, SendRow, Numbered, Page
<1>8. CASE CloseRoster
  <2>1. page.mounted
    BY <1>8 DEF CloseRoster, Numbered, NewPage
  <2>2. /\ page'.mounted = page.mounted
        /\ page'.usersOf = page.usersOf /\ page'.usersLast = page.usersLast
        /\ page'.rosterOf = page.rosterOf /\ page'.rosterLast = page.rosterLast
        /\ page'.opened = page.opened
    BY <1>8, <1>a DEF CloseRoster, Page
  <2> QED BY <1>8, <2>1, <2>2 DEF CloseRoster, Numbered
<1> QED BY <1>1, <1>2, <1>3, <1>4, <1>5, <1>6, <1>7, <1>8
        DEF App, SideBar, Contact, FormModal, RosterModal, UserTable

(* What an event sends: requests that are new and carry no answer, for rows
   the page shows. *)
LEMMA AppSends ==
  ASSUME PageInv, App
  PROVE  /\ sent' \in Nat /\ sent' >= sent /\ requests \subseteq requests'
         /\ \A q \in requests' \ requests :
              /\ q.n > sent /\ q.rows = {}
              /\ q.kind \in {"users", "create"} => q.row = {}
              /\ \A s \in q.row : s \in page.users /\ s.id = q.id
<1> USE DEF PageInv
<1>0. /\ sent \in Nat /\ visit \in Nat /\ page \in Page
      /\ sent + 1 \in Nat \ {0} /\ sent + 2 \in Nat \ {0} /\ visit + 1 \in Nat
  BY DEF TypeOK
<1>1. CASE Mount
  <2>1. /\ ListRequest(sent + 1, visit + 1).n = sent + 1
        /\ ListRequest(sent + 1, visit + 1).rows = {}
        /\ ListRequest(sent + 1, visit + 1).row = {}
        /\ ListRequest(sent + 2, visit + 1).n = sent + 2
        /\ ListRequest(sent + 2, visit + 1).rows = {}
        /\ ListRequest(sent + 2, visit + 1).row = {}
    BY <1>0, ListRequestType
  <2> QED BY <1>0, <1>1, <2>1 DEF Mount
<1>2. CASE Unmount
  BY <1>0, <1>2 DEF Unmount
<1>3. CASE OpenForm \/ CancelForm \/ DismissForm
  <2>1. /\ ListRequest(sent + 1, visit).n = sent + 1
        /\ ListRequest(sent + 1, visit).rows = {}
        /\ ListRequest(sent + 1, visit).row = {}
    BY <1>0, ListRequestType
  <2> QED BY <1>0, <1>3, <2>1 DEF OpenForm, CancelForm, DismissForm, RetrieveUserList
<1>4. CASE SubmitForm
  <2>1. /\ FormRequest.n = sent + 1 /\ FormRequest.rows = {} /\ FormRequest.row = {}
        /\ ListRequest(sent + 2, visit).n = sent + 2
        /\ ListRequest(sent + 2, visit).rows = {}
        /\ ListRequest(sent + 2, visit).row = {}
    BY <1>0, ListRequestType, FormRequestType
  <2> QED BY <1>0, <1>4, <2>1 DEF SubmitForm
<1>5. CASE (\E n \in Names : TypeJid(n)) \/ CloseRoster
  BY <1>0, <1>5 DEF TypeJid, CloseRoster
<1>6. ASSUME NEW r \in page.users, NEW kind \in {"roster", "delete"}, SendRow(kind, r)
      PROVE  /\ sent' \in Nat /\ sent' >= sent /\ requests \subseteq requests'
             /\ \A q \in requests' \ requests :
                  /\ q.n > sent /\ q.rows = {}
                  /\ q.kind \in {"users", "create"} => q.row = {}
                  /\ \A s \in q.row : s \in page.users /\ s.id = q.id
  <2>1. r \in Row /\ kind \in Kinds
    BY <1>0 DEF Page, Kinds
  <2>2. /\ RowRequest(kind, r).n = sent + 1 /\ RowRequest(kind, r).rows = {}
        /\ RowRequest(kind, r).kind = kind /\ RowRequest(kind, r).id = r.id
        /\ RowRequest(kind, r).row = {r}
    BY <2>1, RowRequestType
  <2> QED BY <1>0, <1>6, <2>2 DEF SendRow
<1>7. CASE \E r \in page.users : ShowRoster(r) \/ DeleteUser(r)
  BY <1>0, <1>6, <1>7 DEF ShowRoster, DeleteUser
<1> QED BY <1>1, <1>2, <1>3, <1>4, <1>5, <1>7
        DEF App, SideBar, Contact, FormModal, RosterModal, UserTable

(* What an event does to the list: it goes with the component, or stays, and
   a failure is forgotten when the list is asked for. *)
LEMMA AppShows ==
  ASSUME PageInv, App
  PROVE  \/ page'.confirmed = {} /\ page'.users = {}
         \/ /\ visit' = visit /\ page'.confirmed = page.confirmed
            /\ page'.users = page.users /\ page'.usersOf = page.usersOf
            /\ page'.usersLast = page.usersLast
            /\ \/ page'.usersFailed = page.usersFailed
               \/ \E q \in requests' :
                    q.kind = "users" /\ q.visit = visit /\ q.n > sent
<1> USE DEF PageInv
<1>0. /\ sent \in Nat /\ visit \in Nat /\ page \in Page
      /\ sent + 1 \in Nat \ {0} /\ sent + 2 \in Nat \ {0}
  BY DEF TypeOK
<1>1. CASE Mount \/ Unmount
  BY <1>1 DEF Mount, Unmount, NewPage
<1>2. CASE OpenForm \/ CancelForm \/ DismissForm
  <2>1. /\ ListRequest(sent + 1, visit).n = sent + 1
        /\ ListRequest(sent + 1, visit).kind = "users"
        /\ ListRequest(sent + 1, visit).visit = visit
        /\ ListRequest(sent + 1, visit) \in requests'
    BY <1>0, <1>2, ListRequestType
       DEF OpenForm, CancelForm, DismissForm, RetrieveUserList
  <2>2. /\ visit' = visit /\ page'.confirmed = page.confirmed
        /\ page'.users = page.users /\ page'.usersOf = page.usersOf
        /\ page'.usersLast = page.usersLast
    BY <1>0, <1>2 DEF OpenForm, CancelForm, DismissForm, Page
  <2> QED BY <1>0, <2>1, <2>2
<1>3. CASE SubmitForm
  <2>1. /\ ListRequest(sent + 2, visit).n = sent + 2
        /\ ListRequest(sent + 2, visit).kind = "users"
        /\ ListRequest(sent + 2, visit).visit = visit
        /\ ListRequest(sent + 2, visit) \in requests'
    BY <1>0, <1>3, ListRequestType DEF SubmitForm
  <2>2. /\ visit' = visit /\ page'.confirmed = page.confirmed
        /\ page'.users = page.users /\ page'.usersOf = page.usersOf
        /\ page'.usersLast = page.usersLast
    BY <1>0, <1>3 DEF SubmitForm, Page
  <2> QED BY <1>0, <2>1, <2>2
<1>4. CASE \/ \E n \in Names : TypeJid(n)
           \/ CloseRoster
           \/ \E r \in page.users : ShowRoster(r) \/ DeleteUser(r)
  BY <1>0, <1>4 DEF TypeJid, CloseRoster, ShowRoster, DeleteUser, Page
<1> QED BY <1>1, <1>2, <1>3, <1>4
        DEF App, SideBar, Contact, FormModal, RosterModal, UserTable

(* What the API answers: rows of the table, for roster and delete the row the
   id of the request names; a row deleted is not in the table any more. *)
LEMMA ApiAnswers ==
  ASSUME PageInv, NEW q \in requests, Api(q)
  PROVE  /\ UNCHANGED <<page, sent, visit>>
         /\ \E a :
              /\ requests' = (requests \ {q}) \cup {a}
              /\ a.n = q.n /\ a.visit = q.visit /\ a.kind = q.kind
              /\ a.id = q.id /\ a.row = q.row
              /\ a.rows \subseteq credentials
              /\ q.kind \in {"roster", "delete"} => \A r \in a.rows : r.id = q.id
              /\ q.kind = "delete" => \A r \in a.rows : r \notin credentials'
<1> USE DEF PageInv
<1>0. q \in Request /\ credentials \in SUBSET Row /\ AccountsTypeOK
  BY DEF TypeOK, AccountsTypeOK
<1>1. ASSUME NEW rows \in SUBSET credentials, NEW entries \in SUBSET Entry,
             Answer(q, rows, entries)
      PROVE  /\ UNCHANGED <<page, sent, visit>>
             /\ \E a :
                  /\ requests' = (requests \ {q}) \cup {a}
                  /\ a.n = q.n /\ a.visit = q.visit /\ a.kind = q.kind
                  /\ a.id = q.id /\ a.row = q.row /\ a.rows = rows
  <2> DEFINE a == [q EXCEPT !.status = "ok", !.rows = rows, !.entries = entries]
  <2>1. requests' = (requests \ {q}) \cup {a} /\ UNCHANGED <<page, sent, visit>>
    BY <1>1 DEF Answer
  <2>2. /\ a.n = q.n /\ a.visit = q.visit /\ a.kind = q.kind
        /\ a.id = q.id /\ a.row = q.row /\ a.rows = rows
    BY <1>0 DEF Request
  <2> QED BY <2>1, <2>2
<1>2. CASE HandleUser(q)
  BY <1>1, <1>2 DEF HandleUser
<1>3. CASE HandleRoster(q)
  <2>1. PICK r \in credentials : r.id = q.id /\ Answer(q, {r}, EntriesLike(r.jid))
    BY <1>3 DEF HandleRoster
  <2>2. q.kind = "roster" /\ {r} \in SUBSET credentials
        /\ EntriesLike(r.jid) \in SUBSET Entry
    BY <1>0, <1>3, EntriesType DEF HandleRoster
  <2> QED BY <1>1, <2>1, <2>2
<1>4. CASE ServeDelete(q)
  <2>1. PICK r \in credentials : r.id = q.id /\ HandleDelete(r) /\ Answer(q, {r}, {})
    BY <1>4 DEF ServeDelete
  <2>2. q.kind = "delete" /\ {r} \in SUBSET credentials /\ r \notin credentials'
    BY <1>4, <2>1 DEF ServeDelete, HandleDelete
  <2> QED BY <1>1, <2>1, <2>2
<1>5. CASE ServeCreate(q)
  BY <1>1, <1>5 DEF ServeCreate
<1> QED BY <1>2, <1>3, <1>4, <1>5 DEF Api

(* What a callback leaves: the other requests, and after a deletion a request
   for the list. *)
LEMMA ReceiveTakes ==
  ASSUME PageInv, NEW q \in requests, Receive(q)
  PROVE  /\ UNCHANGED accountVars /\ visit' = visit
         /\ sent' \in Nat /\ sent' >= sent
         /\ requests \ {q} \subseteq requests'
         /\ \A a \in requests' :
              \/ a \in requests \ {q}
              \/ /\ a.n > sent /\ a.n <= sent' /\ a.kind = "users"
                 /\ a.visit = q.visit /\ a.row = {} /\ a.rows = {}
<1> USE DEF PageInv
<1>0. sent \in Nat /\ sent + 1 \in Nat \ {0} /\ q.visit \in Nat
  BY DEF TypeOK, Request
<1>1. CASE ReceiveUsers(q) \/ ReceiveRoster(q) \/ ReceiveCreated(q) \/ Fail(q)
  BY <1>0, <1>1 DEF ReceiveUsers, ReceiveRoster, ReceiveCreated, Fail
<1>2. CASE ReceiveDeleted(q)
  <2>1. /\ ListRequest(sent + 1, q.visit).n = sent + 1
        /\ ListRequest(sent + 1, q.visit).visit = q.visit
        /\ ListRequest(sent + 1, q.visit).kind = "users"
        /\ ListRequest(sent + 1, q.visit).row = {}
        /\ ListRequest(sent + 1, q.visit).rows = {}
    BY <1>0, ListRequestType
  <2> QED BY <1>0, <1>2, <2>1 DEF ReceiveDeleted
<1> QED BY <1>1, <1>2 DEF Receive

(* The list and the dialog after a callback. *)
LEMMA ReceiveShows ==
  ASSUME PageInv, NEW q \in requests, Receive(q)
  PROVE  /\ \A a \in {"mounted", "rosterSelected", "rosterVisible", "opened"} :
              page'[a] = page[a]
         /\ page' # page => page.mounted
         /\ \/ /\ page'.users = page.users /\ page'.usersOf = page.usersOf
               /\ page'.usersLast = page.usersLast
            \/ /\ q.kind = "users" /\ q.visit = visit /\ page'.users = q.rows
               /\ page'.usersOf = q.n /\ page'.usersLast >= q.n
               /\ page'.usersLast >= page.usersLast
               /\ page'.usersLast \in {q.n, page.usersLast}
         /\ \/ /\ page'.rosterOf = page.rosterOf /\ page'.rosterId = page.rosterId
               /\ page'.rosterLast = page.rosterLast
            \/ /\ q.kind = "roster" /\ q.visit = visit /\ page'.rosterId = q.id
               /\ page'.rosterOf = q.n /\ page'.rosterLast >= q.n
               /\ page'.rosterLast >= page.rosterLast
               /\ page'.rosterLast \in {q.n, page.rosterLast}
<1> USE DEF PageInv
<1>0. /\ page \in Page /\ q.n \in Nat
      /\ page.usersLast \in Nat /\ page.rosterLast \in Nat
  BY DEF TypeOK, Request, Page
<1>1. CASE ReceiveUsers(q)
  BY <1>0, <1>1 DEF ReceiveUsers, Here, Page
<1>2. CASE ReceiveRoster(q)
  BY <1>0, <1>2 DEF ReceiveRoster, Here, Page
<1>3. CASE ReceiveDeleted(q)
  BY <1>0, <1>3 DEF ReceiveDeleted, Here, Page
<1>4. CASE ReceiveCreated(q)
  BY <1>4 DEF ReceiveCreated
<1>5. CASE Fail(q)
  BY <1>0, <1>5 DEF Fail, Here, Page
<1> QED BY <1>1, <1>2, <1>3, <1>4, <1>5 DEF Receive

LEMMA NextCases ==
  ASSUME [Next]_vars
  PROVE  \/ App
         \/ \E q \in requests : Api(q)
         \/ \E q \in requests : Receive(q)
         \/ UNCHANGED <<page, requests, sent, visit>>
BY DEF Next, vars

(***************************************************************************)
(* Each part of the invariant.                                             *)
(***************************************************************************)
LEMMA NumberedStep ==
  ASSUME PageInv, [Next]_vars
  PROVE  Numbered'
<1> USE DEF PageInv
<1>0. /\ sent \in Nat /\ visit \in Nat /\ page \in Page
      /\ \A q \in requests : q.n \in Nat /\ q.visit \in Nat
      /\ page.usersOf \in Nat /\ page.usersLast \in Nat
      /\ page.rosterOf \in Nat /\ page.rosterLast \in Nat /\ page.opened \in Nat
  BY DEF TypeOK, Request, Page
<1>1. ASSUME NEW q \in requests, Api(q) PROVE Numbered'
  BY <1>1, ApiAnswers DEF Numbered
<1>2. ASSUME NEW q \in requests, Receive(q) PROVE Numbered'
  <2>1. \A a \in requests' : a.n <= sent' /\ a.visit <= visit'
    BY <1>0, <1>2, ReceiveTakes DEF Numbered
  <2>2. /\ page'.usersOf <= page'.usersLast /\ page'.usersLast <= sent'
        /\ page'.rosterOf <= page'.rosterLast /\ page'.rosterLast <= sent'
    <3>1. sent' \in Nat /\ sent' >= sent /\ q.n <= sent
      BY <1>2, ReceiveTakes DEF Numbered
    <3> QED BY <1>0, <1>2, <3>1, ReceiveShows DEF Numbered
  <2>3. page'.opened <= sent' /\ (~ page'.mounted => page' = NewPage)
    <3>1. sent' \in Nat /\ sent' >= sent
      BY <1>2, ReceiveTakes
    <3>2. page'["opened"] = page["opened"] /\ page'["mounted"] = page["mounted"]
      BY <1>2, ReceiveShows
    <3>3. page' # page => page.mounted
      BY <1>2, ReceiveShows
    <3> QED BY <1>0, <3>1, <3>2, <3>3 DEF Numbered
  <2> QED BY <2>1, <2>2, <2>3 DEF Numbered
<1>3. CASE UNCHANGED <<page, requests, sent, visit>>
  BY <1>3 DEF Numbered
<1> QED BY <1>1, <1>2, <1>3, NextCases, NumberedApp

LEMMA RowsKnownStep ==
  ASSUME PageInv, AccountsInv', [Next]_vars
  PROVE  RowsKnown'
<1> USE DEF PageInv
<1>0. /\ AccountsTypeOK /\ AccountsTypeOK' /\ [AccountsNext]_accountVars
      /\ page.users \in SUBSET Row /\ credentials \in SUBSET Row
      /\ \A q \in requests : q.row \in SUBSET Row /\ q.rows \in SUBSET Row
  BY AccountsRefined DEF TypeOK, AccountsInv, Request, Page, AccountsTypeOK
<1>1. \A s \in page.users : Known(s)'
  BY <1>0, KnownKeeps DEF RowsKnown
<1>2. \A q \in requests : \A s \in q.row \cup q.rows : Known(s)'
  BY <1>0, KnownKeeps DEF RowsKnown
<1>3. \A s \in credentials : Known(s)'
  BY <1>0, KnownKeeps, StoredKnown
<1>4. ASSUME App PROVE RowsKnown'
  BY <1>1, <1>2, <1>4, AppSends, AppShows DEF RowsKnown
<1>5. ASSUME NEW q \in requests, Api(q) PROVE RowsKnown'
  BY <1>1, <1>2, <1>3, <1>5, ApiAnswers DEF RowsKnown
<1>6. ASSUME NEW q \in requests, Receive(q) PROVE RowsKnown'
  <2>1. \A s \in page'.users : Known(s)'
    BY <1>1, <1>2, <1>6, ReceiveShows
  <2>2. \A a \in requests' : \A s \in a.row \cup a.rows : Known(s)'
    BY <1>2, <1>6, ReceiveTakes
  <2> QED BY <2>1, <2>2 DEF RowsKnown
<1>7. ASSUME UNCHANGED <<page, requests, sent, visit>> PROVE RowsKnown'
  BY <1>1, <1>2, <1>7 DEF RowsKnown
<1> QED BY <1>4, <1>5, <1>6, <1>7, NextCases

LEMMA RowsAskedStep ==
  ASSUME PageInv, [Next]_vars
  PROVE  RowsAsked'
<1> USE DEF PageInv
<1>1. ASSUME App PROVE RowsAsked'
  BY <1>1, AppSends DEF RowsAsked
<1>2. ASSUME NEW q \in requests, Api(q) PROVE RowsAsked'
  BY <1>2, ApiAnswers DEF RowsAsked
<1>3. ASSUME NEW q \in requests, Receive(q) PROVE RowsAsked'
  BY <1>3, ReceiveTakes DEF RowsAsked
<1>4. ASSUME UNCHANGED <<page, requests, sent, visit>> PROVE RowsAsked'
  BY <1>4 DEF RowsAsked
<1> QED BY <1>1, <1>2, <1>3, <1>4, NextCases

LEMMA ShownOrLaterStep ==
  ASSUME PageInv, [Next]_vars
  PROVE  ShownOrLater'
<1> USE DEF PageInv
<1>1. ASSUME App PROVE ShownOrLater'
  BY <1>1, AppSends DEF ShownOrLater
<1>2. ASSUME NEW q \in requests, Api(q) PROVE ShownOrLater'
  <2>0. q.kind \in Kinds
    BY DEF TypeOK, Request
  <2>1. PICK a :
          /\ requests' = (requests \ {q}) \cup {a}
          /\ a.row = q.row /\ a.rows \subseteq credentials
          /\ q.kind \in {"roster", "delete"} => \A r \in a.rows : r.id = q.id
    BY <1>2, ApiAnswers
  <2>2. \A r \in a.rows, s \in a.row : r = s \/ r.born > s.born
    <3> SUFFICES ASSUME NEW r \in a.rows, NEW s \in a.row
                 PROVE  r = s \/ r.born > s.born
      OBVIOUS
    <3>1. q.kind \in {"roster", "delete"} /\ s.id = q.id
      BY <2>0, <2>1 DEF RowsAsked, Kinds
    <3>2. r \in credentials /\ r.id = s.id /\ Known(s)
      BY <2>1, <3>1 DEF RowsKnown
    <3> QED BY <3>2 DEF Known
  <2> QED BY <2>1, <2>2 DEF ShownOrLater
<1>3. ASSUME NEW q \in requests, Receive(q) PROVE ShownOrLater'
  BY <1>3, ReceiveTakes DEF ShownOrLater
<1>4. ASSUME UNCHANGED <<page, requests, sent, visit>> PROVE ShownOrLater'
  BY <1>4 DEF ShownOrLater
<1> QED BY <1>1, <1>2, <1>3, <1>4, NextCases

(* What a callback confirms, and what becomes of a request for the list. *)
LEMMA ReceiveConfirms ==
  ASSUME PageInv, NEW q \in requests, Receive(q)
  PROVE  /\ \/ /\ page'.confirmed = page.confirmed
               /\ \/ page'.usersFailed = page.usersFailed
                  \/ page'.usersFailed = TRUE
            \/ /\ q.kind = "delete"
               /\ \A d \in page'.confirmed :
                    \/ d \in page.confirmed
                    \/ d.row \in q.rows /\ d.n = sent + 1
               /\ page.confirmed \subseteq page'.confirmed
               /\ page'.users = page.users /\ page'.usersOf = page.usersOf
               /\ page'.usersLast = page.usersLast
               /\ sent' = sent + 1
               /\ \E a \in requests' :
                    a.kind = "users" /\ a.visit = visit /\ a.n = sent + 1
         /\ q.kind = "users" /\ Here(q)
              => page'.usersFailed = TRUE \/ page'.usersLast >= q.n
<1> USE DEF PageInv
<1>0. /\ page \in Page /\ sent \in Nat /\ sent + 1 \in Nat \ {0}
      /\ q.visit \in Nat /\ q.n \in Nat /\ page.usersLast \in Nat
  BY DEF TypeOK, Request, Page
<1>1. CASE ReceiveUsers(q)
  BY <1>0, <1>1 DEF ReceiveUsers, Here, Page
<1>2. CASE ReceiveRoster(q)
  BY <1>0, <1>2 DEF ReceiveRoster, Here, Page
<1>3. CASE ReceiveDeleted(q)
  <2>1. q.kind = "delete" /\ sent' = sent + 1
    BY <1>3 DEF ReceiveDeleted
  <2>2. CASE ~ Here(q)
    BY <1>3, <2>1, <2>2 DEF ReceiveDeleted
  <2>3. CASE Here(q)
    <3>1. /\ page'.confirmed = page.confirmed
                \cup {[row |-> r, n |-> sent + 1] : r \in q.rows}
          /\ page'.users = page.users /\ page'.usersOf = page.usersOf
          /\ page'.usersLast = page.usersLast
      BY <1>0, <1>3, <2>3 DEF ReceiveDeleted, Page
    <3>2. \A d \in {[row |-> r, n |-> sent + 1] : r \in q.rows} :
             d.row \in q.rows /\ d.n = sent + 1
      OBVIOUS
    <3>3. /\ ListRequest(sent + 1, visit) \in requests'
          /\ ListRequest(sent + 1, visit).kind = "users"
          /\ ListRequest(sent + 1, visit).visit = visit
          /\ ListRequest(sent + 1, visit).n = sent + 1
      BY <1>0, <1>3, <2>3, ListRequestType DEF ReceiveDeleted, Here
    <3> QED BY <2>1, <3>1, <3>2, <3>3
  <2> QED BY <2>2, <2>3
<1>4. CASE ReceiveCreated(q)
  BY <1>4 DEF ReceiveCreated
<1>5. CASE Fail(q)
  BY <1>0, <1>5 DEF Fail, Here, Page
<1> QED BY <1>1, <1>2, <1>3, <1>4, <1>5 DEF Receive

LEMMA DeletedGoneStep ==
  ASSUME PageInv, AccountsInv', [Next]_vars
  PROVE  DeletedGone'
<1> USE DEF PageInv
<1>0. /\ AccountsTypeOK /\ AccountsTypeOK' /\ [AccountsNext]_accountVars
      /\ credentials \in SUBSET Row /\ inserted \in Nat /\ inserted' \in Nat
      /\ inserted' >= inserted
      /\ \A q \in requests : q.rows \in SUBSET Row
      /\ \A d \in page.confirmed : d.row \in Row
  BY AccountsRefined, RowsAppear
     DEF TypeOK, AccountsInv, Request, Page, AccountsTypeOK
<1>1. \A q \in requests : q.kind = "delete" => \A r \in q.rows : Gone(r)'
  BY <1>0, GoneKeeps DEF DeletedGone
<1>2. \A d \in page.confirmed : Gone(d.row)'
  BY <1>0, GoneKeeps DEF DeletedGone
<1>3. ASSUME App PROVE DeletedGone'
  BY <1>1, <1>2, <1>3, AppSends, AppShows DEF DeletedGone
<1>4. ASSUME NEW q \in requests, Api(q) PROVE DeletedGone'
  <2>1. PICK a :
          /\ requests' = (requests \ {q}) \cup {a}
          /\ a.kind = q.kind /\ a.rows \subseteq credentials
          /\ q.kind = "delete" => \A r \in a.rows : r \notin credentials'
    BY <1>4, ApiAnswers
  <2>2. a.kind = "delete" => \A r \in a.rows : Gone(r)'
    <3> SUFFICES ASSUME a.kind = "delete", NEW r \in a.rows
                 PROVE  Gone(r)'
      OBVIOUS
    <3>1. r.born \in Nat /\ r.born <= inserted
      BY <1>0, <2>1 DEF AccountsInv, RowsNumbered, Row
    <3> QED BY <1>0, <2>1, <3>1 DEF Gone
  <2>3. page' = page
    BY <1>4, ApiAnswers
  <2> QED BY <1>1, <1>2, <2>1, <2>2, <2>3 DEF DeletedGone
<1>5. ASSUME NEW q \in requests, Receive(q) PROVE DeletedGone'
  <2>1. \A a \in requests' : a.kind = "delete" => \A r \in a.rows : Gone(r)'
    BY <1>1, <1>5, ReceiveTakes
  <2>2. \A d \in page'.confirmed : Gone(d.row)'
    BY <1>1, <1>2, <1>5, ReceiveConfirms
  <2> QED BY <2>1, <2>2 DEF DeletedGone
<1>6. ASSUME UNCHANGED <<page, requests, sent, visit>> PROVE DeletedGone'
  BY <1>1, <1>2, <1>6 DEF DeletedGone
<1> QED BY <1>3, <1>4, <1>5, <1>6, NextCases

(* One confirmed deletion: the list it is not in is shown, or on its way. *)
Settles(d) ==
  /\ d.n <= sent
  /\ \A q \in requests :
       q.kind = "users" /\ q.visit = visit /\ q.n >= d.n => d.row \notin q.rows
  /\ page.usersOf >= d.n => d.row \notin page.users
  /\ \/ \E q \in requests : q.kind = "users" /\ q.visit = visit /\ q.n >= d.n
     \/ page.usersFailed
     \/ page.usersLast >= d.n

LEMMA ListSettlesStep ==
  ASSUME PageInv, [Next]_vars
  PROVE  ListSettles'
<1> USE DEF PageInv
<1>0. /\ page \in Page /\ sent \in Nat
      /\ page.usersOf \in Nat /\ page.usersLast \in Nat
      /\ \A q \in requests : q.n \in Nat /\ q.n <= sent
      /\ \A d \in page.confirmed : d.n \in Nat
  BY DEF TypeOK, Request, Page, Numbered
<1>1. \A d \in page.confirmed : Settles(d)
  BY DEF ListSettles, Settles
<1>2. SUFFICES \A d \in page'.confirmed : Settles(d)'
  BY DEF ListSettles, Settles
<1>3. ASSUME App, NEW d \in page'.confirmed PROVE Settles(d)'
  <2>1. /\ visit' = visit /\ d \in page.confirmed
        /\ page'.users = page.users /\ page'.usersOf = page.usersOf
        /\ page'.usersLast = page.usersLast
        /\ \/ page'.usersFailed = page.usersFailed
           \/ \E q \in requests' :
                q.kind = "users" /\ q.visit = visit /\ q.n > sent
    BY <1>3, AppShows
  <2>2. /\ sent' \in Nat /\ sent' >= sent /\ requests \subseteq requests'
        /\ \A q \in requests' \ requests : q.n > sent /\ q.rows = {}
    BY <1>3, AppSends
  <2>3. Settles(d) /\ d.n \in Nat /\ d.n <= sent
    BY <1>0, <1>1, <2>1 DEF Settles
  <2>3a. ASSUME NEW q \in requests', q.n > sent PROVE q.n >= d.n
    <3>1. q \in Request
      BY <1>3, AppType DEF TypeOK
    <3>2. q.n \in Nat
      BY <3>1 DEF Request
    <3> QED BY <1>0, <2>3, <2>3a, <3>2
  <2>4. d.n <= sent'
    BY <1>0, <2>2, <2>3
  <2>5. \A q \in requests' :
          q.kind = "users" /\ q.visit = visit' /\ q.n >= d.n => d.row \notin q.rows
    BY <2>1, <2>2, <2>3 DEF Settles
  <2>6. page'.usersOf >= d.n => d.row \notin page'.users
    BY <2>1, <2>3 DEF Settles
  <2>7. \/ \E q \in requests' : q.kind = "users" /\ q.visit = visit' /\ q.n >= d.n
        \/ page'.usersFailed
        \/ page'.usersLast >= d.n
    BY <2>1, <2>2, <2>3, <2>3a DEF Settles
  <2> QED BY <2>4, <2>5, <2>6, <2>7 DEF Settles
<1>4. ASSUME NEW q \in requests, Api(q), NEW d \in page'.confirmed PROVE Settles(d)'
  <2>1. UNCHANGED <<page, sent, visit>>
    BY <1>4, ApiAnswers
  <2>2. PICK a :
          /\ requests' = (requests \ {q}) \cup {a}
          /\ a.n = q.n /\ a.visit = q.visit /\ a.kind = q.kind
          /\ a.rows \subseteq credentials
    BY <1>4, ApiAnswers
  <2>3. Settles(d) /\ d.row \notin credentials
    BY <1>1, <2>1 DEF DeletedGone, Gone
  <2>4. d.row \notin a.rows
    BY <2>2, <2>3
  <2> QED BY <2>1, <2>2, <2>3, <2>4 DEF Settles
<1>5. ASSUME NEW q \in requests, Receive(q), NEW d \in page'.confirmed PROVE Settles(d)'
  <2>1. /\ visit' = visit /\ sent' \in Nat /\ sent' >= sent
        /\ requests \ {q} \subseteq requests'
        /\ \A a \in requests' :
             \/ a \in requests \ {q}
             \/ a.n > sent /\ a.rows = {}
    BY <1>5, ReceiveTakes
  <2>2. CASE d \in page.confirmed
    <3>1. Settles(d) /\ d.n \in Nat /\ d.n <= sent /\ page.mounted
      BY <1>0, <1>1, <2>2 DEF Settles, Numbered, NewPage
    <3>2. d.n <= sent'
      BY <1>0, <2>1, <3>1
    <3>3. \A a \in requests' :
            a.kind = "users" /\ a.visit = visit' /\ a.n >= d.n => d.row \notin a.rows
      BY <2>1, <3>1 DEF Settles
    <3>4. page'.usersOf >= d.n => d.row \notin page'.users
      BY <1>5, <3>1, ReceiveShows DEF Settles
    <3>5. page'.usersLast \in Nat /\ page'.usersLast >= page.usersLast
      BY <1>0, <1>5, ReceiveShows
    <3>6. CASE \E a \in requests \ {q} :
                 a.kind = "users" /\ a.visit = visit /\ a.n >= d.n
      BY <2>1, <3>2, <3>3, <3>4, <3>6 DEF Settles
    <3>7. CASE q.kind = "users" /\ q.visit = visit /\ q.n >= d.n
      <4>1. page'.usersFailed = TRUE \/ page'.usersLast >= q.n
        BY <1>5, <3>1, <3>7, ReceiveConfirms DEF Here
      <4>2. page'.usersFailed = TRUE \/ page'.usersLast >= d.n
        BY <1>0, <3>1, <3>5, <3>7, <4>1
      <4> QED BY <3>2, <3>3, <3>4, <4>2 DEF Settles
    <3>8. CASE page.usersLast >= d.n
      <4>1. page'.usersLast >= d.n
        BY <1>0, <3>1, <3>5, <3>8
      <4> QED BY <3>2, <3>3, <3>4, <4>1 DEF Settles
    <3>9. CASE page.usersFailed
      <4>1. \/ page'.usersFailed
            \/ \E a \in requests' :
                 a.kind = "users" /\ a.visit = visit /\ a.n = sent + 1
        BY <1>5, <3>9, ReceiveConfirms
      <4>2. sent + 1 >= d.n
        BY <1>0, <3>1
      <4> QED BY <2>1, <3>2, <3>3, <3>4, <4>1, <4>2 DEF Settles
    <3> QED BY <3>1, <3>6, <3>7, <3>8, <3>9 DEF Settles
  <2>3. CASE d \notin page.confirmed
    <3>1. /\ d.n = sent + 1 /\ sent' = sent + 1
          /\ page'.usersOf = page.usersOf
          /\ \E a \in requests' :
               a.kind = "users" /\ a.visit = visit /\ a.n = sent + 1
      BY <1>5, <2>3, ReceiveConfirms
    <3>2. \A a \in requests' :
            a.kind = "users" /\ a.visit = visit' /\ a.n >= d.n => d.row \notin a.rows
      BY <1>0, <2>1, <3>1
    <3>3. ~ page'.usersOf >= d.n
      BY <1>0, <3>1 DEF Numbered
    <3>4. \E a \in requests' : a.kind = "users" /\ a.visit = visit' /\ a.n >= d.n
      BY <1>0, <2>1, <3>1
    <3>5. d.n <= sent'
      BY <1>0, <3>1
    <3> QED BY <3>2, <3>3, <3>4, <3>5 DEF Settles
  <2> QED BY <2>2, <2>3
<1>6. ASSUME UNCHANGED <<page, requests, sent, visit>>, NEW d \in page'.confirmed
      PROVE  Settles(d)'
  BY <1>1, <1>6 DEF Settles
<1> QED BY <1>3, <1>4, <1>5, <1>6, NextCases

(* What an event does to the dialog: it is closed, left alone, or opened with
   a request for the roster of its row. *)
LEMMA AppDialog ==
  ASSUME PageInv, App
  PROVE  \/ page'.rosterVisible = FALSE /\ page'.rosterSelected = None
         \/ /\ visit' = visit /\ requests \subseteq requests'
            /\ \A q \in requests' \ requests : q.kind # "roster"
            /\ page'.rosterSelected = page.rosterSelected
            /\ page'.rosterVisible = page.rosterVisible
            /\ page'.opened = page.opened
            /\ page'.rosterOf = page.rosterOf /\ page'.rosterId = page.rosterId
            /\ page'.rosterLast = page.rosterLast
            /\ page'.rosterFailed = page.rosterFailed
         \/ /\ visit' = visit /\ page'.rosterVisible = TRUE
            /\ page'.opened = sent + 1 /\ page'.rosterOf = page.rosterOf
            /\ \E q : /\ requests' = requests \cup {q}
                      /\ q.kind = "roster" /\ q.visit = visit
                      /\ q.n = sent + 1 /\ q.id = page'.rosterSelected
<1> USE DEF PageInv
<1>0. /\ sent \in Nat /\ visit \in Nat /\ page \in Page
      /\ sent + 1 \in Nat \ {0} /\ sent + 2 \in Nat \ {0}
  BY DEF TypeOK
<1>a. ListRequest(sent + 1, visit).kind = "users" /\ ListRequest(sent + 2, visit).kind = "users"
      /\ FormRequest.kind = "create"
  BY <1>0, ListRequestType, FormRequestType
<1>1. CASE Mount \/ Unmount \/ CloseRoster
  <2>1. ASSUME Mount \/ Unmount
        PROVE  page'.rosterVisible = FALSE /\ page'.rosterSelected = None
    BY <2>1 DEF Mount, Unmount, NewPage
  <2>2. ASSUME CloseRoster
        PROVE  page'.rosterVisible = FALSE /\ page'.rosterSelected = None
    BY <1>0, <2>2 DEF CloseRoster, Page
  <2> QED BY <1>1, <2>1, <2>2
<1>2. CASE OpenForm \/ CancelForm \/ DismissForm \/ SubmitForm
  BY <1>0, <1>a, <1>2
     DEF OpenForm, CancelForm, DismissForm, SubmitForm, RetrieveUserList, Page
<1>3. CASE \E n \in Names : TypeJid(n)
  BY <1>0, <1>3 DEF TypeJid, Page
<1>4. ASSUME NEW r \in page.users, ShowRoster(r)
      PROVE  /\ visit' = visit /\ page'.rosterVisible = TRUE
             /\ page'.opened = sent + 1 /\ page'.rosterOf = page.rosterOf
             /\ \E q : /\ requests' = requests \cup {q}
                       /\ q.kind = "roster" /\ q.visit = visit
                       /\ q.n = sent + 1 /\ q.id = page'.rosterSelected
  <2>1. r \in Row /\ r.id # page.rosterSelected
    BY <1>0, <1>4 DEF Page, Row, ShowRoster, Uncovered, DialogSettles, None
  <2>2. /\ page'.rosterSelected = r.id /\ page'.rosterVisible = TRUE
        /\ page'.opened = sent + 1 /\ page'.rosterOf = page.rosterOf
    BY <1>0, <1>4 DEF ShowRoster, Page
  <2>3. /\ RowRequest("roster", r).kind = "roster"
        /\ RowRequest("roster", r).visit = visit
        /\ RowRequest("roster", r).n = sent + 1
        /\ RowRequest("roster", r).id = r.id
    BY <2>1, RowRequestType DEF Kinds
  <2> QED BY <1>4, <2>1, <2>2, <2>3 DEF ShowRoster, SendRow
<1>5. ASSUME NEW r \in page.users, DeleteUser(r)
      PROVE  /\ visit' = visit /\ requests \subseteq requests' /\ page' = page
             /\ \A q \in requests' \ requests : q.kind # "roster"
  <2>1. RowRequest("delete", r).kind = "delete"
    BY <1>0, RowRequestType DEF Page, Kinds
  <2> QED BY <1>5, <2>1 DEF DeleteUser, SendRow
<1> QED BY <1>1, <1>2, <1>3, <1>4, <1>5
        DEF App, SideBar, Contact, FormModal, RosterModal, UserTable

(* What becomes of a request for a roster. *)
LEMMA ReceiveDialog ==
  ASSUME PageInv, NEW q \in requests, Receive(q)
  PROVE  /\ page'.rosterFailed = page.rosterFailed \/ page'.rosterFailed = TRUE
         /\ q.kind = "roster" /\ Here(q)
              => page'.rosterFailed = TRUE \/ page'.rosterLast >= q.n
         /\ page'.rosterSelected = page.rosterSelected
         /\ page'.rosterVisible = page.rosterVisible
         /\ page'.opened = page.opened
<1> USE DEF PageInv
<1>0. page \in Page /\ q.n \in Nat /\ page.rosterLast \in Nat
  BY DEF TypeOK, Request, Page
<1>1. CASE ReceiveUsers(q)
  BY <1>0, <1>1 DEF ReceiveUsers, Page
<1>2. CASE ReceiveRoster(q)
  BY <1>0, <1>2 DEF ReceiveRoster, Page
<1>3. CASE ReceiveDeleted(q)
  BY <1>0, <1>3 DEF ReceiveDeleted, Page
<1>4. CASE ReceiveCreated(q)
  BY <1>4 DEF ReceiveCreated
<1>5. CASE Fail(q)
  BY <1>0, <1>5 DEF Fail, Page
<1> QED BY <1>1, <1>2, <1>3, <1>4, <1>5 DEF Receive

LEMMA DialogSettlesStep ==
  ASSUME PageInv, [Next]_vars
  PROVE  DialogSettles'
<1> USE DEF PageInv
<1>0. /\ page \in Page /\ sent \in Nat /\ page.opened \in Nat
      /\ page.rosterOf \in Nat /\ page.rosterLast \in Nat
      /\ page.rosterOf <= sent
      /\ \A q \in requests : q.n \in Nat /\ q.n <= sent
  BY DEF TypeOK, Request, Page, Numbered
<1>1. ASSUME App PROVE DialogSettles'
  <2>1. CASE page'.rosterVisible = FALSE /\ page'.rosterSelected = None
    BY <2>1 DEF DialogSettles
  <2>2. CASE /\ visit' = visit /\ requests \subseteq requests'
             /\ \A q \in requests' \ requests : q.kind # "roster"
             /\ page'.rosterSelected = page.rosterSelected
             /\ page'.rosterVisible = page.rosterVisible
             /\ page'.opened = page.opened
             /\ page'.rosterOf = page.rosterOf /\ page'.rosterId = page.rosterId
             /\ page'.rosterLast = page.rosterLast
             /\ page'.rosterFailed = page.rosterFailed
    BY <2>2 DEF DialogSettles
  <2>3. CASE /\ visit' = visit /\ page'.rosterVisible = TRUE
             /\ page'.opened = sent + 1 /\ page'.rosterOf = page.rosterOf
             /\ \E q : /\ requests' = requests \cup {q}
                       /\ q.kind = "roster" /\ q.visit = visit
                       /\ q.n = sent + 1 /\ q.id = page'.rosterSelected
    <3>1. \A a \in requests' :
             a.kind = "roster" /\ a.visit = visit' /\ a.n >= page'.opened
               => a.id = page'.rosterSelected
      BY <1>0, <2>3
    <3>2. ~ page'.rosterOf >= page'.opened
      BY <1>0, <2>3
    <3>3. \E a \in requests' :
             a.kind = "roster" /\ a.visit = visit' /\ a.n = page'.opened
      BY <2>3
    <3> QED BY <2>3, <3>1, <3>2, <3>3 DEF DialogSettles
  <2> QED BY <1>1, <2>1, <2>2, <2>3, AppDialog
<1>2. ASSUME NEW q \in requests, Api(q) PROVE DialogSettles'
  <2>1. UNCHANGED <<page, sent, visit>>
    BY <1>2, ApiAnswers
  <2>2. PICK a :
          /\ requests' = (requests \ {q}) \cup {a}
          /\ a.n = q.n /\ a.visit = q.visit /\ a.kind = q.kind /\ a.id = q.id
    BY <1>2, ApiAnswers
  <2> QED BY <2>1, <2>2 DEF DialogSettles
<1>3. ASSUME NEW q \in requests, Receive(q) PROVE DialogSettles'
  <2>1. /\ visit' = visit
        /\ requests \ {q} \subseteq requests'
        /\ \A a \in requests' : a \in requests \ {q} \/ a.kind = "users"
    BY <1>3, ReceiveTakes
  <2>2. /\ page'.rosterFailed = page.rosterFailed \/ page'.rosterFailed = TRUE
        /\ q.kind = "roster" /\ Here(q)
             => page'.rosterFailed = TRUE \/ page'.rosterLast >= q.n
        /\ page'.rosterSelected = page.rosterSelected
        /\ page'.rosterVisible = page.rosterVisible
        /\ page'.opened = page.opened
    BY <1>3, ReceiveDialog
  <2>3. CASE ~ page.rosterVisible
    BY <2>2, <2>3 DEF DialogSettles
  <2>4. CASE page.rosterVisible
    <3>1. page.mounted
      BY <2>4 DEF Numbered, NewPage
    <3>2. \A a \in requests' :
             a.kind = "roster" /\ a.visit = visit' /\ a.n >= page'.opened
               => a.id = page'.rosterSelected
      BY <2>1, <2>2, <2>4 DEF DialogSettles
    <3>3. page'.rosterOf >= page'.opened => page'.rosterId = page'.rosterSelected
      BY <1>3, <2>2, <2>4, ReceiveShows DEF DialogSettles
    <3>4. page'.rosterLast \in Nat /\ page'.rosterLast >= page.rosterLast
      BY <1>0, <1>3, ReceiveShows
    <3>5. \/ \E a \in requests' :
               a.kind = "roster" /\ a.visit = visit' /\ a.n = page'.opened
          \/ page'.rosterFailed
          \/ page'.rosterLast >= page'.opened
      <4>1. CASE page.rosterFailed
        BY <2>2, <4>1
      <4>2. CASE page.rosterLast >= page.opened
        BY <1>0, <2>2, <3>4, <4>2
      <4>3. ASSUME NEW a \in requests, a.kind = "roster", a.visit = visit,
                   a.n = page.opened
            PROVE  \/ a \in requests'
                   \/ page'.rosterFailed
                   \/ page'.rosterLast >= page'.opened
        <5>1. CASE a = q
          BY <2>2, <3>1, <4>3, <5>1 DEF Here
        <5>2. CASE a # q
          BY <2>1, <5>2
        <5> QED BY <5>1, <5>2
      <4> QED BY <2>1, <2>2, <2>4, <4>1, <4>2, <4>3 DEF DialogSettles
    <3> QED BY <2>2, <2>4, <3>2, <3>3, <3>5 DEF DialogSettles
  <2> QED BY <2>3, <2>4
<1>4. ASSUME UNCHANGED <<page, requests, sent, visit>> PROVE DialogSettles'
  BY <1>4 DEF DialogSettles
<1> QED BY <1>1, <1>2, <1>3, <1>4, NextCases

LEMMA PageStep ==
  ASSUME PageInv, [Next]_vars
  PROVE  PageInv'
<1>1. TypeOK /\ AccountsInv
  BY DEF PageInv
<1>2. AccountsInv'
  BY <1>1, AccountsRefined, AccountsStep
<1>3. TypeOK'
  BY <1>1, <1>2, TypeStep DEF AccountsInv
<1>4. Numbered' /\ RowsKnown' /\ RowsAsked' /\ ShownOrLater'
  BY <1>2, NumberedStep, RowsKnownStep, RowsAskedStep, ShownOrLaterStep
<1>5. DeletedGone' /\ ListSettles' /\ DialogSettles'
  BY <1>2, DeletedGoneStep, ListSettlesStep, DialogSettlesStep
<1> QED BY <1>2, <1>3, <1>4, <1>5 DEF PageInv

(***************************************************************************)
(* The theorems.                                                           *)
(***************************************************************************)
(* The page, its requests and the tables keep the invariant. *)
THEOREM PageCorrect == Spec => []PageInv
<1>1. PageInv /\ [Next]_vars => PageInv'
  BY PageStep
<1> QED BY PageInitInv, <1>1, PTL DEF Spec

(* Types of the state of the components and of the requests in flight. *)
THEOREM PageTypeCorrect == Spec => []TypeOK
<1>1. PageInv => TypeOK
  BY DEF PageInv
<1> QED BY PageCorrect, <1>1, PTL

(* The page never adds a second account of a name. *)
THEOREM PageDuplicatesOverlapped == Spec => []DuplicatesOverlapped
<1>1. PageInv => DuplicatesOverlapped
  BY DEF PageInv, AccountsInv
<1> QED BY PageCorrect, <1>1, PTL

(* handleDelete and handleRoster reach the account of the row that was
   clicked or one registered later, however stale the list shown. *)
THEOREM PageShownOrLater == Spec => []ShownOrLater
<1>1. PageInv => ShownOrLater
  BY DEF PageInv
<1> QED BY PageCorrect, <1>1, PTL

(* handleDelete of the page asks for the list again: once no list is awaited,
   what was confirmed as deleted is not shown. *)
THEOREM PageDeletedNotShown == Spec => []DeletedNotShown
<1>1. ASSUME PageInv, page.mounted, ~ Awaiting("users"), ~ page.usersFailed,
             page.usersOf = page.usersLast, NEW d \in page.confirmed
      PROVE  d.row \notin page.users
  <2>1. ListSettles
    BY <1>1 DEF PageInv
  <2>2. ~ \E q \in requests : q.kind = "users" /\ q.visit = visit /\ q.n >= d.n
    BY <1>1 DEF Awaiting, Here
  <2>3. page.usersLast >= d.n
    BY <1>1, <2>1, <2>2 DEF ListSettles
  <2> QED BY <1>1, <2>1, <2>3 DEF ListSettles
<1>2. PageInv => DeletedNotShown
  BY <1>1 DEF DeletedNotShown
<1> QED BY PageCorrect, <1>2, PTL

(* The effect of RosterModal asks for the roster whenever the dialog opens:
   once no roster is awaited, it shows the one it was opened for. *)
THEOREM PageDialogShowsSelected == Spec => []DialogShowsSelected
<1>1. ASSUME PageInv, page.rosterVisible, ~ Awaiting("roster"),
             ~ page.rosterFailed, page.rosterOf = page.rosterLast
      PROVE  page.rosterId = page.rosterSelected /\ page.rosterOf >= page.opened
  <2>1. DialogSettles /\ page.mounted
    BY <1>1 DEF PageInv, Numbered, NewPage
  <2>2. ~ \E q \in requests :
            q.kind = "roster" /\ q.visit = visit /\ q.n = page.opened
    BY <1>1, <2>1 DEF Awaiting, Here
  <2> QED BY <1>1, <2>1, <2>2 DEF DialogSettles
<1>2. PageInv => DialogShowsSelected
  BY <1>1 DEF DialogShowsSelected
<1> QED BY PageCorrect, <1>2, PTL
=============================================================================
