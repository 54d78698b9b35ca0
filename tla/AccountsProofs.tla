--------------------------- MODULE AccountsProofs ----------------------------
(***************************************************************************)
(* Proofs about Accounts: accounts of one name come only from              *)
(* registrations that overlapped.                                          *)
(***************************************************************************)
EXTENDS Accounts, TLAPS

(* Rows are numbered by insertion, after their name was looked up. *)
RowsNumbered ==
  \A r \in credentials : r.born <= inserted /\ r.checked < r.born

(* What a suspended registration knows: a row of its name is newer than its
   look-up. *)
TasksChecked ==
  \A t \in registering :
    /\ t.checked <= inserted
    /\ \A r \in credentials : r.jid = t.jid => t.checked < r.born

(* A row has an id and a number of its own. *)
OneRowPerId ==
  \A r, s \in credentials : r.id = s.id \/ r.born = s.born => r = s

AccountsInv ==
  /\ AccountsTypeOK
  /\ RowsNumbered
  /\ TasksChecked
  /\ OneRowPerId
  /\ DuplicatesOverlapped

(* What inserting a row keeps, provided that the rows of its name are newer
   than the look-up it rests on. *)
LEMMA InsertKeeps ==
  ASSUME AccountsInv, NEW n \in Names, NEW check \in Nat, Insert(n, check),
         check <= inserted,
         \A r \in credentials : r.jid = n => check < r.born,
         registering' \in SUBSET registering, roster' = roster
  PROVE  AccountsInv'
<1> USE DEF AccountsInv
<1>1. PICK i \in 1..(inserted + 1) :
         /\ NextId(i)
         /\ credentials' = credentials \cup
               {[id |-> i, jid |-> n, checked |-> check, born |-> inserted + 1]}
  BY DEF Insert
<1> DEFINE new == [id |-> i, jid |-> n, checked |-> check, born |-> inserted + 1]
<1>2. inserted' = inserted + 1 /\ inserted \in Nat
  BY DEF Insert, AccountsTypeOK
<1>3. /\ new \in Row /\ new.id = i /\ new.jid = n
      /\ new.checked = check /\ new.born = inserted + 1
  BY <1>2 DEF Row
<1>4. credentials' = credentials \cup {new} /\ credentials \subseteq Row
  BY <1>1 DEF AccountsTypeOK
<1>5. \A r \in credentials : /\ r.id \in Nat /\ r.born \in Nat /\ r.checked \in Nat
                             /\ r.id < i /\ r.born <= inserted
  BY <1>1, <1>4 DEF NextId, RowsNumbered, Row
<1> HIDE DEF new
<1>6. AccountsTypeOK'
  BY <1>2, <1>3, <1>4 DEF AccountsTypeOK, Insert
<1>7. RowsNumbered'
  BY <1>2, <1>3, <1>4, <1>5 DEF RowsNumbered
<1>8. TasksChecked'
  <2> SUFFICES ASSUME NEW t \in registering
               PROVE  /\ t.checked <= inserted'
                      /\ \A r \in credentials' : r.jid = t.jid => t.checked < r.born
    BY DEF TasksChecked
  <2>1. t.checked \in Nat /\ t.checked <= inserted
    BY DEF TasksChecked, AccountsTypeOK, Registration
  <2> QED BY <1>2, <1>3, <1>4, <2>1 DEF TasksChecked
<1>9. OneRowPerId'
  <2> SUFFICES ASSUME NEW r \in credentials', NEW s \in credentials',
                      r.id = s.id \/ r.born = s.born
               PROVE  r = s
    BY DEF OneRowPerId
  <2>1. CASE r \in credentials /\ s \in credentials
    BY <2>1 DEF OneRowPerId
  <2>2. CASE r = new \/ s = new
    BY <1>1, <1>2, <1>3, <1>4, <1>5, <2>2
  <2> QED BY <1>4, <2>1, <2>2
<1>10. DuplicatesOverlapped'
  <2> SUFFICES ASSUME NEW r \in credentials', NEW s \in credentials',
                      r.jid = s.jid, r.born < s.born
               PROVE  s.checked < r.born
    BY DEF DuplicatesOverlapped
  <2>1. CASE r \in credentials /\ s \in credentials
    BY <2>1 DEF DuplicatesOverlapped
  <2>2. CASE r \in credentials /\ s = new
    BY <1>3, <2>2
  <2>3. CASE r = new
    BY <1>2, <1>3, <1>4, <1>5, <2>3
  <2> QED BY <1>4, <2>1, <2>2, <2>3
<1> QED BY <1>6, <1>7, <1>8, <1>9, <1>10

(* Rows and tasks that go take nothing with them. *)
LEMMA RemoveKeeps ==
  ASSUME AccountsInv, credentials' \in SUBSET credentials,
         registering' \in SUBSET registering, roster' \in SUBSET Entry,
         inserted' = inserted, registered' = registered
  PROVE  AccountsInv'
BY DEF AccountsInv, AccountsTypeOK, RowsNumbered, TasksChecked, OneRowPerId,
       DuplicatesOverlapped

LEMMA AccountsInitInv == AccountsInit => AccountsInv
BY DEF AccountsInit, AccountsInv, AccountsTypeOK, RowsNumbered, TasksChecked,
       OneRowPerId, DuplicatesOverlapped

LEMMA HandleRegisterKeeps ==
  ASSUME AccountsInv, NEW n \in Names, HandleRegister(n)
  PROVE  AccountsInv'
<1>1. inserted \in Nat /\ inserted <= inserted
  BY DEF AccountsInv, AccountsTypeOK
<1> QED BY <1>1, InsertKeeps DEF HandleRegister, InUse

LEMMA HandleDeleteKeeps ==
  ASSUME AccountsInv, NEW r \in credentials, HandleDelete(r)
  PROVE  AccountsInv'
<1>1. roster' \in SUBSET Entry
  BY DEF HandleDelete, AccountsInv, AccountsTypeOK
<1> QED BY <1>1, RemoveKeeps DEF HandleDelete

LEMMA RegisterCheckKeeps ==
  ASSUME AccountsInv, NEW c \in Clients, NEW n \in Names, RegisterCheck(c, n)
  PROVE  AccountsInv'
<1> DEFINE task == [client |-> c, jid |-> n, checked |-> inserted]
<1>1. inserted \in Nat /\ registering' = registering \cup {task}
  BY DEF AccountsInv, AccountsTypeOK, RegisterCheck
<1>2. task \in Registration /\ task.jid = n /\ task.checked = inserted
  BY <1>1 DEF Registration
<1> HIDE DEF task
<1>3. TasksChecked'
  BY <1>1, <1>2 DEF AccountsInv, TasksChecked, RegisterCheck, InUse
<1>4. AccountsTypeOK'
  BY <1>1, <1>2 DEF AccountsInv, AccountsTypeOK, RegisterCheck
<1>5. RowsNumbered' /\ OneRowPerId' /\ DuplicatesOverlapped'
  BY DEF AccountsInv, RegisterCheck, RowsNumbered, OneRowPerId, DuplicatesOverlapped
<1> QED BY <1>3, <1>4, <1>5 DEF AccountsInv

LEMMA RegisterStoreKeeps ==
  ASSUME AccountsInv, NEW t \in registering, RegisterStore(t)
  PROVE  AccountsInv'
<1>1. t.jid \in Names /\ t.checked \in Nat
  BY DEF AccountsInv, AccountsTypeOK, Registration
<1>2. /\ t.checked <= inserted
      /\ \A r \in credentials : r.jid = t.jid => t.checked < r.born
  BY DEF AccountsInv, TasksChecked
<1> QED BY <1>1, <1>2, InsertKeeps DEF RegisterStore

LEMMA AddEntryKeeps ==
  ASSUME AccountsInv, NEW n \in Names, NEW i \in Items, AddEntry(n, i)
  PROVE  AccountsInv'
<1>1. roster' \in SUBSET Entry
  BY DEF AddEntry, AccountsInv, AccountsTypeOK, Entry
<1> QED BY <1>1, RemoveKeeps DEF AddEntry

LEMMA AccountsStep ==
  ASSUME AccountsInv, [AccountsNext]_accountVars
  PROVE  AccountsInv'
<1>1. CASE \E c \in Clients, n \in Names : RegisterCheck(c, n)
  BY <1>1, RegisterCheckKeeps
<1>2. CASE \E t \in registering : RegisterStore(t)
  BY <1>2, RegisterStoreKeeps
<1>3. CASE \E t \in registering : RegisterDies(t)
  <2>1. roster \in SUBSET Entry
    BY DEF AccountsInv, AccountsTypeOK
  <2> QED BY <1>3, <2>1, RemoveKeeps DEF RegisterDies
<1>4. CASE \E n \in Names : HandleRegister(n)
  BY <1>4, HandleRegisterKeeps
<1>5. CASE \E r \in credentials : HandleDelete(r)
  BY <1>5, HandleDeleteKeeps
<1>6. CASE \E n \in Names, i \in Items : AddEntry(n, i)
  BY <1>6, AddEntryKeeps
<1>7. CASE UNCHANGED accountVars
  <2>1. roster \in SUBSET Entry
    BY DEF AccountsInv, AccountsTypeOK
  <2> QED BY <1>7, <2>1, RemoveKeeps DEF accountVars
<1> QED BY <1>1, <1>2, <1>3, <1>4, <1>5, <1>6, <1>7 DEF AccountsNext

(* The tables keep their types, and two accounts of a name were registered   *)
(* by overlapping registrations.                                             *)
THEOREM AccountsCorrect == AccountsSpec => []AccountsInv
<1>1. AccountsInv /\ [AccountsNext]_accountVars => AccountsInv'
  BY AccountsStep
<1> QED BY AccountsInitInv, <1>1, PTL DEF AccountsSpec

(* Accounts of one name: only from look-ups that both came before either     *)
(* insertion.                                                                *)
THEOREM AccountsDuplicatesOverlapped == AccountsSpec => []DuplicatesOverlapped
<1>1. AccountsInv => DuplicatesOverlapped
  BY DEF AccountsInv
<1> QED BY AccountsCorrect, <1>1, PTL
=============================================================================
