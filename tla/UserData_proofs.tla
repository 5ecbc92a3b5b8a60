-------------------------- MODULE UserData_proofs --------------------------
(***************************************************************************)
(* For any number of requests, identities and products: concurrent         *)
(* requests leave one user per identity and one item per user and product, *)
(* and they implement UserStore step by step.                              *)
(***************************************************************************)
EXTENDS UserData, FiniteSetTheorems, TLAPS

\* The statements of a transaction that knows its user.
Working == {"sync", "look_up", "insert", "update", "delete", "commit", "rollback"}
Early   == {"idle", "insert_user", "sync", "look_up"}
Over    == {"closed", "dead"}

TypeOK ==
    /\ users \in [Rows -> UserRow \cup {None}]
    /\ items \in [Rows -> ItemRow \cup {None}]
    /\ pc \in [Requests -> Working \cup {"idle", "insert_user", "closed", "dead"}]
    /\ op \in [Requests -> Operation \cup {None}]
    /\ me \in [Requests -> Rows \cup {None}]
    /\ loaded \in [Requests -> ItemRow \cup {None}]
    /\ pending \in [Requests -> Transaction]
    /\ decided \in [Requests -> Outcomes \cup {None}]
    /\ told \in [Requests -> Outcomes \cup {None}]

\* Users are unique, and so are the users that transactions are about to add:
\* the key of a user is locked from its INSERT on.
UserInv ==
    /\ \A u, v \in Rows :
         users[u] # None /\ users[v] # None /\ users[u].identity = users[v].identity
           => u = v
    /\ \A u \in Rows : users[u] # None => u = Old \/ pc[u] \in Over
    /\ \A r \in Requests : pending[r].user =>
         /\ me[r] = r /\ users[r] = None /\ pc[r] \in Working
         /\ Account(IdentityOf[r]) = {}
    /\ \A r, o \in Requests :
         pending[r].user /\ pending[o].user /\ IdentityOf[r] = IdentityOf[o] => r = o

\* Items are unique, have an owner, and come from requests that are answered.
ItemInv ==
    /\ \A x, y \in Rows :
         /\ items[x] # None /\ items[y] # None
         /\ items[x].owner = items[y].owner /\ items[x].product = items[y].product
         => x = y
    /\ \A row \in Rows : items[row] # None =>
         users[items[row].owner] # None /\ (row = Old \/ pc[row] \in Over)

\* The user of r is the one user of its identity, or r adds it.
Identified(r) ==
    /\ me[r] \in Rows
    /\ users[me[r]] # None => users[me[r]].identity = IdentityOf[r]
    /\ users[me[r]] = None => pending[r].user

\* What is left to do for r at the end of its transaction.
AtCommit(r) ==
    LET w == pending[r] IN
    \/ /\ op[r].kind = "create" /\ op[r].product \in Catalogued /\ decided[r] = None
       /\ w.insert = [owner |-> me[r], product |-> op[r].product,
                      threshold |-> op[r].threshold, enabled |-> op[r].enabled]
       /\ w.update = None /\ w.delete = None
    \/ /\ op[r].kind = "patch" /\ w.insert = None /\ w.delete = None
       /\ \/ w.update = None /\ decided[r] = "updated"
          \/ /\ loaded[r] # None /\ w.update = Changes(op[r], loaded[r])
             /\ decided[r] = None
    \/ /\ op[r].kind = "delete" /\ w.insert = None /\ w.update = None
       /\ \/ w.delete = None /\ decided[r] = "deleted"
          \/ w.delete = op[r].row /\ decided[r] = None

PhaseInv(r) ==
    /\ pc[r] = "idle" <=> op[r] = None
    /\ pc[r] \in Working => Identified(r)
    /\ pc[r] \notin Working => ~pending[r].user /\ ~pending[r].email
    /\ pending[r].email => users[me[r]] # None
    /\ pc[r] \in Early => loaded[r] = None
    /\ loaded[r] # None => users[loaded[r].owner] # None
    /\ pc[r] \in Early \cup {"insert", "update", "delete"} => decided[r] = None
    /\ pc[r] \in {"rollback", "closed"} => decided[r] # None
    /\ told[r] # None => /\ pc[r] \in {"commit", "closed", "dead"}
                         /\ pc[r] = "commit" => told[r] = Outcome(r)
    /\ pc[r] = "sync" => users[me[r]] # None
    /\ pc[r] = "insert" => op[r].kind = "create" /\ op[r].product \in Catalogued
    /\ pc[r] = "update" => op[r].kind = "patch" /\ loaded[r] # None
    /\ pc[r] = "delete" => op[r].kind = "delete"
    /\ pc[r] \in {"update", "delete"} /\ items[op[r].row] # None
         => items[op[r].row].owner = me[r]
    /\ pc[r] # "idle" /\ op[r].kind \in {"patch", "delete"}
         => op[r].row = Old \/ pc[op[r].row] \in Over
    /\ pc[r] = "commit" => AtCommit(r)
    /\ pc[r] # "commit" => /\ pending[r].insert = None /\ pending[r].update = None
                           /\ pending[r].delete = None

\* Who writes a row holds its lock until the end of the transaction.
Writes(r, row) == \/ pending[r].update # None /\ op[r].row = row
                  \/ pending[r].delete = row

LockInv ==
    /\ \A r \in Requests : pending[r].insert # None =>
         ItemsOf(me[r], pending[r].insert.product) = {}
    /\ \A r, o \in Requests :
         /\ pending[r].insert # None /\ pending[o].insert # None /\ me[r] = me[o]
         /\ pending[r].insert.product = pending[o].insert.product
         => r = o
    /\ \A r \in Requests, row \in Rows : Writes(r, row) =>
         items[row] # None /\ items[row].owner = me[r]
    /\ \A r, o \in Requests, row \in Rows : Writes(r, row) /\ Writes(o, row) => r = o

IInv == TypeOK /\ UserInv /\ ItemInv /\ (\A r \in Requests : PhaseInv(r)) /\ LockInv

-----------------------------------------------------------------------------
LEMMA ColumnsAreRows ==
    /\ ItemRow \subseteq [owner : Rows \cup Identities, product : Products,
                          threshold : Thresholds, enabled : BOOLEAN]
    /\ None \notin ItemRow
BY NoneAssumption DEF ItemRow

\* The operations, by their kind.
LEMMA OperationKinds ==
    ASSUME NEW o \in Operation
    PROVE  /\ o.kind \in {"create", "patch", "delete"}
           /\ o.kind = "create" => /\ o.product \in Products
                                   /\ o.threshold \in Thresholds
                                   /\ o.enabled \in BOOLEAN
           /\ o.kind = "patch" => /\ o.row \in Rows
                                  /\ o.threshold \in Thresholds \cup {None}
                                  /\ o.enabled \in BOOLEAN \cup {None}
           /\ o.kind = "delete" => o.row \in Rows
BY DEF Operation

LEMMA AskedAreOperations == \A r \in Requests : Asked(r) \subseteq Operation
BY RequestAssumption DEF Asked

LEMMA ChangesAreChanges ==
    ASSUME NEW o \in Operation, o.kind = "patch", NEW item \in ItemRow
    PROVE  Changes(o, item) \in Change
BY OperationKinds DEF Changes, Change, ItemRow

\* What a step of one request leaves alone: the rest of every other request,
\* and, unless it commits, the tables.
LEMMA OthersStay ==
    ASSUME TypeOK, NEW r \in Requests, Start(r) \/ Statement(r) \/ Die(r),
           NEW q \in Requests, q # r
    PROVE  /\ pc'[q] = pc[q] /\ op'[q] = op[q] /\ me'[q] = me[q]
           /\ loaded'[q] = loaded[q] /\ pending'[q] = pending[q]
           /\ decided'[q] = decided[q] /\ told'[q] = told[q]
BY DEF TypeOK, Start, Statement, Die, InsertUser, SyncProfile, LookUpProduct,
       InsertItem, LoadItem, UpdateItem, DeleteItem, Answer, Commit, Rollback, GoTo, Refuse

LEMMA Written ==
    ASSUME NEW w \in Transaction
    PROVE  /\ Nothing \in Transaction
           /\ [w EXCEPT !.user = TRUE] \in Transaction
           /\ [w EXCEPT !.email = TRUE] \in Transaction
           /\ \A item \in ItemRow : [w EXCEPT !.insert = item] \in Transaction
           /\ \A change \in Change : [w EXCEPT !.update = change] \in Transaction
           /\ \A row \in Rows : [w EXCEPT !.delete = row] \in Transaction
BY DEF Transaction, Nothing

LEMMA Put ==
    ASSUME NEW S, NEW T, NEW f \in [S -> T], NEW x \in S, NEW v \in T
    PROVE  [f EXCEPT ![x] = v] \in [S -> T]
OBVIOUS

\* A refusal states an outcome.
LEMMA RefuseTyped ==
    ASSUME TypeOK, NEW r \in Requests, NEW outcome \in Outcomes, Refuse(r, outcome)
    PROVE  decided' \in [Requests -> Outcomes \cup {None}] /\ GoTo(r, "rollback")
BY DEF TypeOK, Refuse

LEMMA TypeStart ==
    ASSUME TypeOK, NEW r \in Requests, Start(r)
    PROVE  TypeOK'
<1>1. PICK o \in Operation : op' = [op EXCEPT ![r] = o]
  BY AskedAreOperations DEF Start
<1>2. me' \in [Requests -> Rows \cup {None}]
  BY DEF TypeOK, Start, Account
<1>3. pc' \in [Requests -> Working \cup {"idle", "insert_user", "closed", "dead"}]
  BY DEF TypeOK, Start, GoTo, Working
<1> QED  BY <1>1, <1>2, <1>3 DEF TypeOK, Start

LEMMA TypeStatement ==
    ASSUME TypeOK, NEW r \in Requests, NEW label \in Working \cup {"closed", "dead"},
           GoTo(r, label), UNCHANGED <<users, items, op, told>>,
           me' \in [Requests -> Rows \cup {None}],
           loaded' \in [Requests -> ItemRow \cup {None}],
           pending' \in [Requests -> Transaction],
           decided' \in [Requests -> Outcomes \cup {None}]
    PROVE  TypeOK'
BY DEF TypeOK, GoTo

LEMMA OutcomeTyped ==
    ASSUME TypeOK, NEW r \in Requests, PhaseInv(r), pc[r] \in {"commit", "closed"}
    PROVE  Outcome(r) \in Outcomes
<1>1. /\ op[r] \in Operation \cup {None} /\ op[r] # None
      /\ decided[r] \in Outcomes \cup {None}
  BY DEF TypeOK, PhaseInv
<1> QED  BY <1>1, OperationKinds DEF Outcome, Done, Outcomes

LEMMA TypeStep ==
    ASSUME TypeOK, UserInv, LockInv, \A q \in Requests : PhaseInv(q), NEW r \in Requests,
           Statement(r) \/ Die(r)
    PROVE  TypeOK'
<1> USE DEF Working
<1>0. /\ me \in [Requests -> Rows \cup {None}]
      /\ loaded \in [Requests -> ItemRow \cup {None}]
      /\ pending \in [Requests -> Transaction] /\ pending[r] \in Transaction
      /\ decided \in [Requests -> Outcomes \cup {None}]
      /\ op[r] \in Operation \cup {None}
      /\ items \in [Rows -> ItemRow \cup {None}]
  BY DEF TypeOK
<1>1. CASE InsertUser(r)
  <2>1. me' \in [Requests -> Rows \cup {None}] /\ GoTo(r, "look_up")
    BY <1>0, <1>1 DEF InsertUser, Account, Rows
  <2>2. pending' \in [Requests -> Transaction]
    <3>1. pending' = pending \/ pending' = [pending EXCEPT ![r] = [@ EXCEPT !.user = TRUE]]
      BY <1>1 DEF InsertUser
    <3> QED  BY <1>0, <3>1, Written
  <2> QED  BY <1>0, <1>1, <2>1, <2>2, TypeStatement DEF InsertUser
<1>2. CASE SyncProfile(r)
  <2>1. pending' = [pending EXCEPT ![r] = [@ EXCEPT !.email = TRUE]]
    BY <1>2 DEF SyncProfile
  <2>2. pending' \in [Requests -> Transaction]
    BY <1>0, <2>1, Written
  <2> QED  BY <1>0, <1>2, <2>2, TypeStatement DEF SyncProfile
<1>3. CASE LookUpProduct(r)
  <2>1. \/ \E outcome \in Outcomes : Refuse(r, outcome)
        \/ GoTo(r, "insert") /\ decided' = decided
    BY <1>3 DEF LookUpProduct, Outcomes
  <2> QED  BY <1>0, <1>3, <2>1, RefuseTyped, TypeStatement DEF LookUpProduct
<1>4. CASE InsertItem(r)
  <2>0. Identified(r) /\ op[r] \in Operation /\ op[r].kind = "create"
    BY <1>0, <1>4 DEF InsertItem, PhaseInv
  <2> DEFINE item == [owner |-> me[r], product |-> op[r].product,
                      threshold |-> op[r].threshold, enabled |-> op[r].enabled]
  <2>1. item \in ItemRow
    BY <2>0, OperationKinds DEF Identified, ItemRow
  <2>2. \/ Refuse(r, "conflict") /\ pending' = pending
        \/ /\ GoTo(r, "commit") /\ decided' = decided
           /\ pending' = [pending EXCEPT ![r] = [@ EXCEPT !.insert = item]]
    BY <1>4 DEF InsertItem
  <2>3. "conflict" \in Outcomes
    BY DEF Outcomes
  <2> HIDE DEF item
  <2>4. pending' \in [Requests -> Transaction]
    BY ZenonT(30), <1>0, <2>1, <2>2, Written
  <2>5. decided' \in [Requests -> Outcomes \cup {None}]
    BY <1>0, <2>2, <2>3, RefuseTyped
  <2> QED  BY <1>0, <1>4, <2>2, <2>4, <2>5, TypeStatement DEF InsertItem, Refuse
<1>5. CASE LoadItem(r)
  <2>0. op[r] \in Operation /\ op[r].row \in Rows
    BY <1>0, <1>5, OperationKinds DEF LoadItem, PhaseInv, Early
  <2>1. \/ \E outcome \in Outcomes : Refuse(r, outcome)
        \/ decided' = decided \/ decided' = [decided EXCEPT ![r] = "updated"]
    BY <1>5 DEF LoadItem, Outcomes
  <2>2. decided' \in [Requests -> Outcomes \cup {None}]
    BY <1>0, <2>1, RefuseTyped DEF Outcomes
  <2>3. loaded' \in [Requests -> ItemRow \cup {None}]
    BY <1>0, <1>5, <2>0 DEF LoadItem
  <2>4. \E label \in Working : GoTo(r, label)
    BY <1>5 DEF LoadItem, Refuse
  <2> QED  BY <1>0, <1>5, <2>2, <2>3, <2>4, TypeStatement DEF LoadItem
<1>6. CASE UpdateItem(r)
  <2>0. op[r] \in Operation /\ op[r].kind = "patch" /\ loaded[r] \in ItemRow
    BY <1>0, <1>6 DEF UpdateItem, PhaseInv
  <2> DEFINE change == Changes(op[r], loaded[r])
  <2>1. change \in Change
    BY <2>0, ChangesAreChanges
  <2>2. \/ Refuse(r, "failed") /\ pending' = pending
        \/ /\ GoTo(r, "commit") /\ decided' = decided
           /\ pending' = [pending EXCEPT ![r] = [@ EXCEPT !.update = change]]
    BY <1>6 DEF UpdateItem
  <2>3. "failed" \in Outcomes
    BY DEF Outcomes
  <2> HIDE DEF change
  <2>4. pending' \in [Requests -> Transaction]
    BY ZenonT(30), <1>0, <2>1, <2>2, Written
  <2>5. decided' \in [Requests -> Outcomes \cup {None}]
    BY <1>0, <2>2, <2>3, RefuseTyped
  <2> QED  BY <1>0, <1>6, <2>2, <2>4, <2>5, TypeStatement DEF UpdateItem, Refuse
<1>7. CASE DeleteItem(r)
  <2>0. op[r] \in Operation /\ op[r].row \in Rows
    BY <1>0, <1>7, OperationKinds DEF DeleteItem, PhaseInv
  <2>1. \/ decided' = [decided EXCEPT ![r] = "deleted"] /\ pending' = pending
        \/ /\ decided' = decided
           /\ pending' = [pending EXCEPT ![r] = [@ EXCEPT !.delete = op[r].row]]
    BY <1>7 DEF DeleteItem
  <2>2. pending' \in [Requests -> Transaction]
    BY ZenonT(30), <1>0, <2>0, <2>1, Written
  <2>3. decided' \in [Requests -> Outcomes \cup {None}]
    BY <1>0, <2>1 DEF Outcomes
  <2> QED  BY <1>0, <1>7, <2>2, <2>3, TypeStatement DEF DeleteItem
<1>8. CASE Rollback(r) \/ Die(r)
  <2>1. pending' \in [Requests -> Transaction]
    BY <1>0, <1>8, Written DEF Rollback, Die
  <2> QED  BY <1>0, <1>8, <2>1, TypeStatement DEF Rollback, Die
<1>9. CASE Commit(r)
  <2>0. op[r] \in Operation /\ AtCommit(r)
    BY <1>0, <1>9 DEF Commit, PhaseInv
  <2>1. users' \in [Rows -> UserRow \cup {None}]
    <3>1. ASSUME NEW u \in Rows
          PROVE  users'[u] \in UserRow \cup {None}
      <4>1. CASE pending[r].user /\ u = r
        <5>1. users'[u] = [identity |-> IdentityOf[r], email |-> EmailOf[r]]
          <6>1. ~(pending[r].email /\ u = me[r])
            BY <4>1 DEF UserInv, PhaseInv
          <6> QED  BY <1>9, <4>1, <6>1 DEF Commit
        <5> QED  BY <5>1, RequestAssumption DEF UserRow
      <4>2. CASE ~(pending[r].user /\ u = r) /\ pending[r].email /\ u = me[r]
        <5>1. users[u] \in UserRow
          BY <4>2 DEF TypeOK, PhaseInv
        <5>2. users'[u] = [users[u] EXCEPT !.email = EmailOf[r]]
          BY <1>9, <4>2 DEF Commit
        <5> QED  BY <5>1, <5>2 DEF UserRow
      <4>3. CASE ~(pending[r].user /\ u = r) /\ ~(pending[r].email /\ u = me[r])
        BY <1>9, <4>3 DEF Commit, TypeOK
      <4> QED  BY <4>1, <4>2, <4>3
    <3> QED  BY <1>9, <3>1 DEF Commit
  <2>2. ASSUME NEW row \in Rows
        PROVE  ItemAfter(row, r) \in ItemRow \cup {None}
    <3>1. CASE pending[r].insert # None /\ row = r
      <4>1. ItemAfter(row, r) = pending[r].insert
        BY <2>0, <3>1, NoneAssumption DEF ItemAfter, AtCommit
      <4> QED  BY <1>0, <4>1 DEF Transaction
    <3>2. CASE ~(pending[r].insert # None /\ row = r)
               /\ pending[r].update # None /\ row = op[r].row
      <4>1. items[row] \in ItemRow
        BY <1>0, <3>2 DEF LockInv, Writes
      <4>2. pending[r].update \in Change
        BY <1>0, <3>2 DEF Transaction
      <4> QED  BY <3>2, <4>1, <4>2 DEF ItemAfter, ItemRow, Change
    <3> QED  BY <1>0, <3>1, <3>2 DEF ItemAfter
  <2>3. decided' \in [Requests -> Outcomes \cup {None}]
    <3>1. Outcome(r) \in Outcomes
      BY <1>9, OutcomeTyped DEF Commit
    <3> QED  BY <1>0, <1>9, <3>1 DEF Commit
  <2>4. pending' \in [Requests -> Transaction]
    BY <1>0, <1>9, Written DEF Commit
  <2> QED  BY <1>0, <1>9, <2>1, <2>2, <2>3, <2>4 DEF Commit, GoTo, TypeOK
<1>10. CASE Answer(r)
  <2>1. Outcome(r) \in Outcomes
    BY <1>0, <1>10, OutcomeTyped DEF Answer
  <2> QED  BY <1>10, <2>1 DEF Answer, TypeOK
<1> QED  BY <1>1, <1>2, <1>3, <1>4, <1>5, <1>6, <1>7, <1>8, <1>9, <1>10 DEF Statement

-----------------------------------------------------------------------------
(* Users.                                                                  *)

\* Only a commit changes the tables.
LEMMA TablesStay ==
    ASSUME NEW r \in Requests, Start(r) \/ Statement(r) \/ Die(r), ~Commit(r)
    PROVE  users' = users /\ items' = items
BY DEF Start, Statement, Die, InsertUser, SyncProfile, LookUpProduct, InsertItem,
       LoadItem, UpdateItem, DeleteItem, Answer, Rollback

\* Nobody but InsertUser puts a user into a transaction.
LEMMA UsersPending ==
    ASSUME TypeOK, NEW r \in Requests, PhaseInv(r), Start(r) \/ Statement(r) \/ Die(r),
           ~InsertUser(r), pending'[r].user
    PROVE  pending[r].user /\ me'[r] = me[r] /\ pc'[r] \in Working
<1> USE DEF TypeOK, GoTo, Working, Transaction
<1>1. CASE Start(r)
  BY <1>1 DEF Start, PhaseInv
<1>2. CASE SyncProfile(r) \/ LookUpProduct(r) \/ LoadItem(r) \/ Answer(r)
  BY <1>2 DEF SyncProfile, LookUpProduct, LoadItem, Answer, Refuse, PhaseInv
<1>3. CASE InsertItem(r) \/ UpdateItem(r) \/ DeleteItem(r)
  <2>1. pending' = pending \/ \E item : pending' = [pending EXCEPT ![r].insert = item]
        \/ \E change : pending' = [pending EXCEPT ![r].update = change]
        \/ \E row : pending' = [pending EXCEPT ![r].delete = row]
    BY <1>3 DEF InsertItem, UpdateItem, DeleteItem
  <2>2. me' = me /\ \E label \in {"rollback", "commit"} : pc' = [pc EXCEPT ![r] = label]
    BY <1>3 DEF InsertItem, UpdateItem, DeleteItem, Refuse
  <2> QED  BY SMTT(30), <2>1, <2>2
<1>4. CASE Commit(r) \/ Rollback(r) \/ Die(r)
  BY <1>4 DEF Commit, Rollback, Die, Nothing
<1> QED  BY <1>1, <1>2, <1>3, <1>4 DEF Statement

\* Who has ended its transaction does not take it up again.
LEMMA OverStays ==
    ASSUME TypeOK, NEW r \in Requests, Start(r) \/ Statement(r) \/ Die(r),
           NEW q \in Requests, pc[q] \in Over
    PROVE  pc'[q] \in Over /\ (q = r => Answer(r) \/ Die(r))
<1>1. pc[r] \in Over => Answer(r) \/ Die(r)
  BY DEF Over, Start, Statement, InsertUser, SyncProfile, LookUpProduct, InsertItem,
         LoadItem, UpdateItem, DeleteItem, Commit, Rollback
<1>2. CASE q = r
  BY <1>1, <1>2 DEF Answer, Die, GoTo, TypeOK, Over
<1>3. CASE q # r
  BY <1>3, OthersStay
<1> QED  BY <1>1, <1>2, <1>3

\* A commit adds the user of its transaction, and changes emails only.
LEMMA UsersAfterCommit ==
    ASSUME TypeOK, UserInv, NEW r \in Requests, PhaseInv(r), Commit(r), NEW u \in Rows
    PROVE  /\ users[u] # None => users'[u] # None /\ users'[u].identity = users[u].identity
           /\ users[u] = None /\ users'[u] # None =>
                pending[r].user /\ u = r /\ users'[u].identity = IdentityOf[r]
           /\ pending[r].user => users'[r] # None /\ users'[r].identity = IdentityOf[r]
<1>0. ASSUME NEW x \in UserRow PROVE x # None
  BY NoneAssumption
<1>1. CASE pending[r].user /\ u = r
  <2>1. ~(pending[r].email /\ u = me[r]) /\ users[u] = None
    BY <1>1 DEF UserInv, PhaseInv
  <2>2. users'[u] = [identity |-> IdentityOf[r], email |-> EmailOf[r]]
    BY <1>1, <2>1 DEF Commit
  <2>3. users'[u] \in UserRow
    BY <2>2, RequestAssumption DEF UserRow
  <2> QED  BY <1>0, <1>1, <2>1, <2>2, <2>3
<1>2. CASE ~(pending[r].user /\ u = r) /\ pending[r].email /\ u = me[r]
  <2>1. users[u] \in UserRow
    BY <1>2 DEF TypeOK, PhaseInv
  <2>2. users'[u] = [users[u] EXCEPT !.email = EmailOf[r]]
    BY <1>2 DEF Commit
  <2>3. users'[u] \in UserRow /\ users'[u].identity = users[u].identity
    BY <2>1, <2>2 DEF UserRow
  <2>4. ~pending[r].user
    BY <1>2, <2>1, <1>0 DEF UserInv
  <2> QED  BY <1>0, <1>2, <2>1, <2>3, <2>4
<1>3. CASE ~(pending[r].user /\ u = r) /\ ~(pending[r].email /\ u = me[r])
  <2>1. users'[u] = users[u]
    BY <1>3 DEF Commit
  <2>2. pending[r].user => users'[r] = [identity |-> IdentityOf[r], email |-> EmailOf[r]]
    <3>1. pending[r].user => ~(pending[r].email /\ r = me[r]) /\ r \in Rows
      BY DEF UserInv, PhaseInv, Rows
    <3> QED  BY <3>1 DEF Commit
  <2>3. pending[r].user => users'[r] \in UserRow
    BY <2>2, RequestAssumption DEF UserRow
  <2> QED  BY <1>0, <2>1, <2>2, <2>3
<1> QED  BY <1>1, <1>2, <1>3

LEMMA UserStep ==
    ASSUME TypeOK, UserInv, \A q \in Requests : PhaseInv(q),
           NEW r \in Requests, Start(r) \/ Statement(r) \/ Die(r)
    PROVE  UserInv'
<1> USE DEF Account
<1>1. CASE ~InsertUser(r) /\ ~Commit(r)
  <2>1. users' = users
    BY <1>1, TablesStay
  <2>2. \A q \in Requests : pending'[q].user =>
          pending[q].user /\ me'[q] = me[q] /\ pc'[q] \in Working
    BY <1>1, UsersPending, OthersStay DEF UserInv
  <2> QED  BY <2>1, <2>2, OverStays DEF UserInv, Rows
<1>2. CASE InsertUser(r)
  <2>1. users' = users
    BY <1>2 DEF InsertUser
  <2>2. \A q \in Requests \ {r} : pending'[q].user =>
          pending[q].user /\ me'[q] = me[q] /\ pc'[q] = pc[q]
    BY OthersStay
  <2>3. pending'[r].user =>
          /\ me'[r] = r /\ pc'[r] \in Working /\ Account(IdentityOf[r]) = {}
          /\ ~UserKeyHeld(r)
    BY <1>2 DEF InsertUser, TypeOK, PhaseInv, GoTo, Working
  <2>4. pending'[r].user => users[r] = None
    BY <1>2, RequestAssumption DEF InsertUser, UserInv, Rows, Over
  <2> QED  BY <2>1, <2>2, <2>3, <2>4, OverStays DEF UserInv, UserKeyHeld, Others, Rows
<1>3. CASE Commit(r)
  <2>1. /\ ~pending'[r].user
        /\ \A q \in Requests \ {r} : pending'[q] = pending[q] /\ me'[q] = me[q] /\ pc'[q] = pc[q]
    BY <1>3, OthersStay DEF Commit, TypeOK, Nothing, Statement
  <2>2. \A u \in Rows :
          /\ users[u] # None => users'[u] # None /\ users'[u].identity = users[u].identity
          /\ users[u] = None /\ users'[u] # None =>
               pending[r].user /\ u = r /\ users'[u].identity = IdentityOf[r]
    BY <1>3, UsersAfterCommit
  <2>3. \A u \in Rows : users[u] # None /\ pending[r].user => users[u].identity # IdentityOf[r]
    BY DEF UserInv
  <2>4. \A u, v \in Rows :
          users'[u] # None /\ users'[v] # None /\ users'[u].identity = users'[v].identity
           => u = v
    BY <2>2, <2>3 DEF UserInv
  <2>5. ASSUME NEW q \in Requests, pending'[q].user
        PROVE  me'[q] = q /\ users'[q] = None /\ pc'[q] \in Working
               /\ Account(IdentityOf[q])' = {}
    <3>1. q # r /\ pending[q].user
      BY <2>1, <2>5
    <3>2. users'[q] = None
      BY <2>2, <3>1 DEF UserInv, Rows
    <3>3. \A u \in Rows : users'[u] # None => users'[u].identity # IdentityOf[q]
      BY <2>2, <3>1 DEF UserInv
    <3> QED  BY <2>1, <3>1, <3>2, <3>3 DEF UserInv
  <2>6. \A q, o \in Requests :
         pending'[q].user /\ pending'[o].user /\ IdentityOf[q] = IdentityOf[o] => q = o
    BY <2>1 DEF UserInv
  <2>7. \A u \in Rows : users'[u] # None => u = Old \/ pc'[u] \in Over
    <3>1. pc'[r] \in Over
      BY <1>3 DEF Commit, GoTo, TypeOK, Over
    <3> QED  BY <2>2, <3>1, OverStays DEF UserInv, Rows
  <2> QED  BY <2>4, <2>5, <2>6, <2>7 DEF UserInv
<1> QED  BY <1>1, <1>2, <1>3

-----------------------------------------------------------------------------
(* Items.                                                                  *)

\* An item is what a create has inserted, what a patch has left of it, or
\* gone; all other rows stay.
LEMMA ItemsAfterCommit ==
    ASSUME TypeOK, LockInv, NEW r \in Requests, PhaseInv(r), Commit(r), NEW row \in Rows
    PROVE  \/ /\ pending[r].insert # None /\ row = r /\ op[r].kind = "create"
              /\ items'[row] = pending[r].insert
           \/ /\ Writes(r, row) /\ op[r].kind = "patch" /\ op[r].row = row
              /\ items[row] # None /\ items'[row] # None
              /\ items'[row].owner = items[row].owner
              /\ items'[row].product = items[row].product
           \/ /\ Writes(r, row) /\ op[r].kind = "delete" /\ op[r].row = row
              /\ pending[r].delete = row
              /\ items[row] # None /\ items'[row] = None
           \/ /\ ~Writes(r, row) /\ ~(pending[r].insert # None /\ row = r)
              /\ items'[row] = items[row]
<1>0. /\ AtCommit(r) /\ items'[row] = ItemAfter(row, r)
      /\ items[row] \in ItemRow \cup {None} /\ row # None
      /\ op[r] \in Operation
  BY NoneAssumption DEF Commit, PhaseInv, TypeOK
<1>1. CASE pending[r].insert # None /\ row = r
  <2>1. pending[r].update = None /\ pending[r].delete = None /\ op[r].kind = "create"
    BY <1>0, <1>1 DEF AtCommit
  <2> QED  BY <1>0, <1>1, <2>1 DEF ItemAfter
<1>2. CASE pending[r].update # None /\ row = op[r].row
  <2>1. pending[r].insert = None /\ pending[r].delete = None /\ op[r].kind = "patch"
    BY <1>0, <1>2 DEF AtCommit
  <2>2. items[row] # None
    BY <1>2 DEF LockInv, Writes
  <2> DEFINE w == pending[r].update
             after == [items[row] EXCEPT
                         !.threshold = IF w.threshold = None THEN @ ELSE w.threshold,
                         !.enabled = IF w.enabled = None THEN @ ELSE w.enabled]
  <2>3. items'[row] = after
    BY <1>0, <1>2, <2>1 DEF ItemAfter
  <2>4. w \in Change
    BY <1>2 DEF TypeOK, Transaction
  <2>5. /\ after \in ItemRow
        /\ after.owner = items[row].owner /\ after.product = items[row].product
    BY <1>0, <2>2, <2>4 DEF ItemRow, Change
  <2> HIDE DEF after
  <2> QED  BY <1>2, <2>1, <2>2, <2>3, <2>5, ColumnsAreRows DEF Writes
<1>3. CASE pending[r].delete = row
  <2>1. pending[r].insert = None /\ pending[r].update = None
        /\ op[r].kind = "delete" /\ op[r].row = row
    BY <1>0, <1>3 DEF AtCommit
  <2>2. items[row] # None
    BY <1>3 DEF LockInv, Writes
  <2> QED  BY <1>0, <1>3, <2>1, <2>2 DEF ItemAfter, Writes
<1>4. CASE /\ ~(pending[r].insert # None /\ row = r)
           /\ ~(pending[r].update # None /\ row = op[r].row)
           /\ pending[r].delete # row
  BY <1>0, <1>4 DEF ItemAfter, Writes
<1> QED  BY <1>1, <1>2, <1>3, <1>4

\* Where a create inserts there was nothing, and its item is the only one.
LEMMA Inserted ==
    ASSUME TypeOK, UserInv, ItemInv, LockInv, NEW r \in Requests, PhaseInv(r),
           Commit(r), pending[r].insert # None
    PROVE  /\ items[r] = None /\ pending[r].insert.owner = me[r] /\ me[r] \in Rows
           /\ users'[me[r]] # None
           /\ \A row \in Rows : items[row] # None /\ items[row].owner = me[r] =>
                items[row].product # pending[r].insert.product
<1>1. AtCommit(r) /\ Identified(r) /\ pc[r] = "commit"
  BY DEF Commit, PhaseInv, Working
<1>2. items[r] = None
  BY <1>1, RequestAssumption DEF ItemInv, Rows, Over
<1>3. pending[r].insert.owner = me[r] /\ me[r] \in Rows
  BY <1>1 DEF AtCommit, Identified
<1>4. users'[me[r]] # None
  BY <1>1, <1>3, UsersAfterCommit DEF Identified, UserInv
<1> QED  BY <1>2, <1>3, <1>4 DEF LockInv, ItemsOf

LEMMA ItemStep ==
    ASSUME TypeOK, UserInv, ItemInv, LockInv, \A q \in Requests : PhaseInv(q),
           NEW r \in Requests, Start(r) \/ Statement(r) \/ Die(r)
    PROVE  ItemInv'
<1>1. CASE ~Commit(r)
  <2>1. users' = users /\ items' = items
    BY <1>1, TablesStay
  <2> QED  BY <2>1, OverStays DEF ItemInv, Rows
<1>2. CASE Commit(r)
  <2>1. pc'[r] \in Over
    BY <1>2 DEF Commit, GoTo, TypeOK, Over
  <2>2. \A row \in Rows :
          \/ items'[row] = None
          \/ /\ items[row] # None /\ items'[row].owner = items[row].owner
             /\ items'[row].product = items[row].product
          \/ pending[r].insert # None /\ row = r /\ items'[row] = pending[r].insert
    BY <1>2, ItemsAfterCommit
  <2>3. \A x, y \in Rows :
         /\ items'[x] # None /\ items'[y] # None
         /\ items'[x].owner = items'[y].owner /\ items'[x].product = items'[y].product
         => x = y
    BY <1>2, <2>2, Inserted DEF ItemInv
  <2>4. ASSUME NEW row \in Rows, items'[row] # None
        PROVE  users'[items'[row].owner] # None /\ (row = Old \/ pc'[row] \in Over)
    <3>1. CASE items[row] # None /\ items'[row].owner = items[row].owner
      <4>1. items[row].owner \in Rows /\ users[items[row].owner] # None
        BY <3>1 DEF TypeOK, ItemRow, ItemInv
      <4> QED  BY <1>2, <3>1, <4>1, UsersAfterCommit, OverStays DEF ItemInv, Rows
    <3>2. CASE pending[r].insert # None /\ row = r /\ items'[row] = pending[r].insert
      BY <1>2, <2>1, <3>2, Inserted
    <3> QED  BY <2>2, <2>4, <3>1, <3>2
  <2> QED  BY <2>3, <2>4 DEF ItemInv
<1> QED  BY <1>1, <1>2

-----------------------------------------------------------------------------
(* Phases and locks.                                                       *)

\* What a step of r leaves true of another request q.
LEMMA PhaseOfOthers ==
    ASSUME IInv, NEW r \in Requests, Start(r) \/ Statement(r) \/ Die(r),
           NEW q \in Requests, q # r
    PROVE  PhaseInv(q)'
<1>0. TypeOK /\ UserInv /\ ItemInv /\ LockInv /\ PhaseInv(r) /\ PhaseInv(q)
  BY DEF IInv
<1>1. /\ pc'[q] = pc[q] /\ op'[q] = op[q] /\ me'[q] = me[q]
      /\ loaded'[q] = loaded[q] /\ pending'[q] = pending[q] /\ decided'[q] = decided[q]
      /\ told'[q] = told[q] /\ Outcome(q)' = Outcome(q)
  BY <1>0, OthersStay DEF Outcome
<1>2. \A u \in Rows : users[u] # None =>
         users'[u] # None /\ users'[u].identity = users[u].identity
  BY <1>0, TablesStay, UsersAfterCommit
<1>3. pc[q] \in Working => Identified(q)'
  <2>1. users'[q] = None \/ users[q] # None
    BY <1>0, TablesStay, UsersAfterCommit DEF Rows
  <2>2. CASE users[me[q]] # None
    BY <1>0, <1>1, <1>2, <2>2 DEF PhaseInv, Identified
  <2>3. CASE users[me[q]] = None
    BY <1>0, <1>1, <2>1, <2>3 DEF PhaseInv, Identified, UserInv
  <2> QED  BY <2>2, <2>3
<1>4. loaded[q] # None => users'[loaded[q].owner] # None
  BY <1>0, <1>2 DEF PhaseInv, TypeOK, ItemRow
<1>5. pending[q].email \/ pc[q] = "sync" => users'[me[q]] # None
  BY <1>0, <1>2 DEF PhaseInv, Identified, Working
<1>6. ASSUME pc[q] # "idle", op[q].kind \in {"patch", "delete"}
      PROVE  /\ op[q].row \in Rows
             /\ op[q].row = Old \/ (pc[op[q].row] \in Over /\ pc'[op[q].row] \in Over)
  <2>1. op[q].row \in Rows
    BY <1>0, <1>6, OperationKinds DEF TypeOK, PhaseInv
  <2> QED  BY <1>0, <1>6, <2>1, OverStays DEF PhaseInv, Rows, Over
<1>7. ASSUME pc[q] \in {"update", "delete"}, items'[op[q].row] # None
      PROVE  items'[op[q].row].owner = me[q]
  <2>1. op[q].row \in Rows /\ (Commit(r) => op[q].row # r)
    BY <1>0, <1>6, <1>7, RequestAssumption DEF PhaseInv, Commit, Over
  <2>2. items[op[q].row] # None /\ items'[op[q].row].owner = items[op[q].row].owner
    BY <1>0, <1>7, <2>1, TablesStay, ItemsAfterCommit
  <2> QED  BY <1>0, <1>7, <2>2 DEF PhaseInv
<1>8. pc[q] = "commit" => AtCommit(q)'
  BY <1>0, <1>1 DEF PhaseInv, AtCommit
<1> QED  BY <1>0, <1>1, <1>3, <1>4, <1>5, <1>6, <1>7, <1>8 DEF PhaseInv

\* A request that is in its transaction goes on in it.
LEMMA StillIdentified ==
    ASSUME TypeOK, NEW r \in Requests, Identified(r), users' = users, me' = me,
           pending'[r].user = pending[r].user
    PROVE  Identified(r)'
BY DEF Identified

LEMMA PhaseOfItself ==
    ASSUME IInv, TypeOK', NEW r \in Requests, Start(r) \/ Statement(r) \/ Die(r)
    PROVE  PhaseInv(r)'
<1> USE DEF Working, Early
<1>0. TypeOK /\ UserInv /\ ItemInv /\ LockInv /\ PhaseInv(r)
  BY DEF IInv
<1>a. /\ op[r] \in Operation \cup {None} /\ pending[r] \in Transaction
      /\ pc[r] \in Working \cup {"idle", "insert_user", "closed", "dead"}
      /\ me[r] \in Rows \cup {None} /\ \A o \in Operation : o # None
  BY <1>0, NoneAssumption DEF TypeOK
<1>1. CASE Start(r)
  <2>1. PICK o \in Asked(r) : op' = [op EXCEPT ![r] = o]
    BY <1>1 DEF Start
  <2>2. op'[r] = o /\ o \in Operation /\ o # None
    BY <1>0, <2>1, <1>a, AskedAreOperations DEF TypeOK
  <2>3. o.kind \in {"patch", "delete"} =>
           /\ o.row \in Rows /\ (o.row = Old \/ pc[o.row] \in Over)
           /\ o.row # r
    <3>1. o.kind \in {"patch", "delete"} => o.row \in Rows /\ items[o.row] # None
      BY <2>1, <2>2, OperationKinds DEF Asked
    <3> QED  BY <1>0, <1>1, <3>1, RequestAssumption DEF ItemInv, Start, Over
  <2>4. /\ users' = users /\ items' = items /\ loaded' = loaded
        /\ pending' = pending /\ decided' = decided /\ told' = told
        /\ told[r] = None
    BY <1>0, <1>1 DEF Start, PhaseInv
  <2>5. \/ pc' = [pc EXCEPT ![r] = "insert_user"] /\ me' = me
        \/ \E u \in Account(IdentityOf[r]), label \in {"look_up", "sync"} :
             me' = [me EXCEPT ![r] = u] /\ pc' = [pc EXCEPT ![r] = label]
    BY <1>1 DEF Start, GoTo
  <2>6. pc'[r] \in {"insert_user", "look_up", "sync"}
    BY <1>0, <2>5 DEF TypeOK
  <2>7. pc'[r] \in {"look_up", "sync"} =>
          me'[r] \in Rows /\ users[me'[r]] # None /\ users[me'[r]].identity = IdentityOf[r]
    BY <1>0, <2>5 DEF TypeOK, Account
  <2>8. \A q \in Rows : pc[q] \in Over => q = Old \/ pc'[q] \in Over
    BY <1>0, <1>1, OverStays DEF Rows
  <2>9. pc[r] = "idle" /\ ~pending[r].user /\ ~pending[r].email
    BY <1>0, <1>1 DEF Start, PhaseInv
  <2> QED  BY <1>0, <2>2, <2>3, <2>4, <2>6, <2>7, <2>8, <2>9 DEF PhaseInv, Identified
\* A later statement: the operation and its row stay.
<1>2. CASE ~Start(r)
  <2>1. op' = op /\ pc[r] # "idle" /\ op[r] \in Operation
    BY <1>0, <1>2, <1>a DEF PhaseInv, Statement, Die, InsertUser, SyncProfile,
       LookUpProduct, InsertItem, LoadItem, UpdateItem, DeleteItem, Answer, Commit, Rollback
  <2>2. op[r].kind \in {"patch", "delete"} =>
           op[r].row \in Rows /\ (op[r].row = Old \/ pc'[op[r].row] \in Over)
    BY <1>0, <2>1, OperationKinds, OverStays DEF PhaseInv, Rows
  <2>0. CASE Answer(r)
    <3>1. /\ pc[r] \in {"commit", "closed"} /\ told'[r] = Outcome(r)
          /\ UNCHANGED <<users, items, pc, op, me, loaded, pending, decided>>
      BY <1>0, <2>0 DEF Answer, TypeOK
    <3>2. Outcome(r)' = Outcome(r)
      BY <3>1 DEF Outcome
    <3>3. PhaseInv(r)
      BY <1>0
    <3>4. (Identified(r) <=> Identified(r)') /\ (AtCommit(r) <=> AtCommit(r)')
      BY <3>1 DEF Identified, AtCommit, Changes
    <3> QED  BY <3>1, <3>2, <3>3, <3>4 DEF PhaseInv
  <2>3. CASE Commit(r) \/ Rollback(r) \/ Die(r)
    <3>0. /\ told' = told /\ (pc'[r] = "closed" => decided'[r] # None)
      <4>1. Outcome(r) \in Outcomes \/ pc[r] # "commit"
        BY <1>0, OutcomeTyped
      <4> QED  BY <1>0, <2>3, <4>1, NoneAssumption
               DEF Commit, Rollback, Die, GoTo, TypeOK, PhaseInv
    <3>1. /\ pc'[r] \in {"closed", "dead"} /\ loaded' = loaded
          /\ pending'[r] = Nothing
      BY <1>0, <2>3 DEF Commit, Rollback, Die, GoTo, TypeOK
    <3>2. loaded[r] # None => users'[loaded[r].owner] # None
      <4>1. loaded[r] # None => loaded[r].owner \in Rows /\ users[loaded[r].owner] # None
        BY <1>0 DEF PhaseInv, TypeOK, ItemRow
      <4> QED  BY <1>0, <4>1, TablesStay, UsersAfterCommit DEF Statement
    <3> QED  BY <1>a, <2>1, <2>2, <3>0, <3>1, <3>2 DEF PhaseInv, Nothing
  <2>4. CASE ~(Answer(r) \/ Commit(r) \/ Rollback(r) \/ Die(r))
    <3>0. told' = told /\ told[r] = None /\ told'[r] = None
      BY <1>0, <1>2, <2>4 DEF PhaseInv, Statement, InsertUser, SyncProfile,
         LookUpProduct, InsertItem, LoadItem, UpdateItem, DeleteItem
    <3>1. users' = users /\ items' = items
      BY <2>4, TablesStay
    <3>2. CASE InsertUser(r)
      <4>1. /\ pc'[r] = "look_up" /\ loaded' = loaded /\ decided' = decided
            /\ pc[r] = "insert_user"
        BY <1>0, <3>2 DEF InsertUser, GoTo, TypeOK
      <4>2. \/ me'[r] = r /\ pending' = [pending EXCEPT ![r].user = TRUE]
            \/ me'[r] \in Account(IdentityOf[r]) /\ pending' = pending
        BY <1>0, <3>2 DEF InsertUser, TypeOK
      <4>3. /\ ~pending'[r].email /\ pending'[r].insert = None
            /\ pending'[r].update = None /\ pending'[r].delete = None
        BY <1>0, <4>1, <4>2, <1>a DEF PhaseInv, TypeOK, Transaction
      <4>4. Identified(r)'
        <5>1. r \in Rows /\ users[r] = None
          BY <1>0, <4>1, RequestAssumption DEF UserInv, Rows, Over
        <5>2. CASE me'[r] = r /\ pending' = [pending EXCEPT ![r].user = TRUE]
          BY <1>0, <3>1, <5>1, <5>2, <1>a DEF Identified, TypeOK, Transaction
        <5>3. CASE me'[r] \in Account(IdentityOf[r])
          BY <3>1, <5>3 DEF Identified, Account
        <5> QED  BY <4>2, <5>2, <5>3
      <4> QED  BY <1>0, <2>1, <2>2, <3>0, <3>1, <4>1, <4>3, <4>4 DEF PhaseInv
    <3>3. CASE SyncProfile(r)
      <4>1. /\ pc'[r] = "look_up" /\ me' = me /\ loaded' = loaded /\ decided' = decided
            /\ pc[r] = "sync" /\ pending' = [pending EXCEPT ![r].email = TRUE]
        BY <1>0, <3>3 DEF SyncProfile, GoTo, TypeOK
      <4>2. /\ pending'[r].user = pending[r].user /\ pending'[r].insert = None
            /\ pending'[r].update = None /\ pending'[r].delete = None
        BY <1>0, <4>1, <1>a DEF PhaseInv, TypeOK, Transaction
      <4>3. Identified(r)'
        BY <1>0, <3>1, <4>1, <4>2, StillIdentified DEF PhaseInv
      <4> QED  BY <1>0, <2>1, <2>2, <3>0, <3>1, <4>1, <4>2, <4>3 DEF PhaseInv
    <3>4. CASE LookUpProduct(r) \/ LoadItem(r)
      <4>1. /\ me' = me /\ pending' = pending /\ pc[r] = "look_up"
            /\ decided[r] = None /\ loaded[r] = None
            /\ pending[r].insert = None /\ pending[r].update = None
            /\ pending[r].delete = None
        BY <1>0, <3>4 DEF LookUpProduct, LoadItem, PhaseInv
      <4>2. Identified(r)'
        BY <1>0, <3>1, <4>1, StillIdentified DEF PhaseInv
      <4>3. CASE (\E outcome \in Outcomes : Refuse(r, outcome)) /\ loaded' = loaded
        <5>1. pc'[r] = "rollback" /\ decided'[r] # None
          BY <1>0, <4>3, NoneAssumption DEF Refuse, GoTo, TypeOK
        <5> QED  BY <1>0, <2>1, <2>2, <3>0, <3>1, <4>1, <4>2, <4>3, <5>1 DEF PhaseInv
      <4>4. CASE LookUpProduct(r) /\ GoTo(r, "insert") /\ decided' = decided
        <5>1. pc'[r] = "insert" /\ loaded' = loaded /\ op[r].kind = "create"
              /\ op[r].product \in Catalogued
          BY <1>0, <4>4 DEF LookUpProduct, GoTo, Refuse, TypeOK
        <5> QED  BY <1>0, <2>1, <2>2, <3>0, <3>1, <4>1, <4>2, <4>4, <5>1 DEF PhaseInv
      <4>5. CASE /\ LoadItem(r) /\ op[r].kind = "delete" /\ GoTo(r, "delete")
                 /\ items[op[r].row] # None /\ items[op[r].row].owner = me[r]
                 /\ loaded' = loaded /\ decided' = decided
        <5>1. pc'[r] = "delete"
          BY <1>0, <4>5 DEF GoTo, TypeOK
        <5> QED  BY <1>0, <2>1, <2>2, <3>0, <3>1, <4>1, <4>2, <4>5, <5>1 DEF PhaseInv
      <4>6. CASE /\ LoadItem(r) /\ op[r].kind = "patch" /\ GoTo(r, "update")
                 /\ items[op[r].row] # None /\ items[op[r].row].owner = me[r]
                 /\ loaded' = [loaded EXCEPT ![r] = items[op[r].row]] /\ decided' = decided
        <5>1. pc'[r] = "update" /\ loaded'[r] = items[op[r].row]
          BY <1>0, <4>6 DEF GoTo, TypeOK
        <5>2. users[loaded'[r].owner] # None
          BY <1>0, <2>1, <4>6, <5>1, OperationKinds DEF ItemInv
        <5> QED  BY <1>0, <2>1, <2>2, <3>0, <3>1, <4>1, <4>2, <4>6, <5>1, <5>2 DEF PhaseInv
      <4>7. CASE /\ LoadItem(r) /\ op[r].kind = "patch" /\ GoTo(r, "commit")
                 /\ loaded' = loaded /\ decided' = [decided EXCEPT ![r] = "updated"]
        <5>1. pc'[r] = "commit" /\ decided'[r] = "updated"
          BY <1>0, <4>7 DEF GoTo, TypeOK
        <5>2. AtCommit(r)'
          BY <2>1, <4>1, <4>7, <5>1 DEF AtCommit
        <5> QED  BY <1>0, <2>1, <2>2, <3>0, <3>1, <4>1, <4>2, <4>7, <5>1, <5>2 DEF PhaseInv
      <4> QED  BY <3>4, <4>3, <4>4, <4>5, <4>6, <4>7 DEF LookUpProduct, LoadItem, Outcomes
    <3>5. CASE InsertItem(r) \/ UpdateItem(r) \/ DeleteItem(r)
      <4>1. /\ me' = me /\ loaded' = loaded /\ pc[r] \in {"insert", "update", "delete"}
            /\ decided[r] = None
            /\ pending[r].insert = None /\ pending[r].update = None
            /\ pending[r].delete = None
        BY <1>0, <3>5 DEF InsertItem, UpdateItem, DeleteItem, PhaseInv
      <4>2. CASE (\E outcome \in Outcomes : Refuse(r, outcome)) /\ pending' = pending
        <5>1. pc'[r] = "rollback" /\ decided'[r] # None
          BY <1>0, <4>2, NoneAssumption DEF Refuse, GoTo, TypeOK
        <5>2. Identified(r)'
          BY <1>0, <3>1, <4>1, <4>2, StillIdentified DEF PhaseInv
        <5> QED  BY <1>0, <2>1, <2>2, <3>0, <3>1, <4>1, <4>2, <5>1, <5>2 DEF PhaseInv
      <4>3. CASE GoTo(r, "commit")
        <5>1. pc'[r] = "commit"
          BY <1>0, <4>3 DEF GoTo, TypeOK
        <5>2. pending'[r].user = pending[r].user /\ pending'[r].email = pending[r].email
          BY <1>0, <1>a, <3>5 DEF InsertItem, UpdateItem, DeleteItem, TypeOK, Transaction
        <5>3. AtCommit(r)'
          <6>1. CASE InsertItem(r)
            <7>1. /\ pending' = [pending EXCEPT ![r].insert =
                       [owner |-> me[r], product |-> op[r].product,
                        threshold |-> op[r].threshold, enabled |-> op[r].enabled]]
                  /\ decided' = decided /\ pc[r] = "insert"
              BY <1>0, <5>1, <6>1 DEF InsertItem, Refuse, GoTo, TypeOK
            <7>2. op[r].kind = "create" /\ op[r].product \in Catalogued
              BY <1>0, <7>1 DEF PhaseInv
            <7> QED  BY <1>0, <1>a, <2>1, <4>1, <7>1, <7>2 DEF AtCommit, TypeOK, Transaction
          <6>2. CASE UpdateItem(r)
            <7>1. /\ pending' = [pending EXCEPT ![r].update = Changes(op[r], loaded[r])]
                  /\ decided' = decided /\ pc[r] = "update"
              BY <1>0, <5>1, <6>2 DEF UpdateItem, Refuse, GoTo, TypeOK
            <7>2. op[r].kind = "patch" /\ loaded[r] # None
              BY <1>0, <7>1 DEF PhaseInv
            <7>3. /\ pending'[r].update = Changes(op[r], loaded[r])
                  /\ pending'[r].insert = None /\ pending'[r].delete = None
              BY <1>0, <1>a, <4>1, <7>1 DEF TypeOK, Transaction
            <7>4. Changes(op[r], loaded[r])' = Changes(op[r], loaded[r])
              BY <2>1, <4>1 DEF Changes
            <7> QED  BY <2>1, <4>1, <7>1, <7>2, <7>3, <7>4 DEF AtCommit
          <6>3. CASE DeleteItem(r)
            <7>1. /\ pc[r] = "delete"
                  /\ \/ /\ pending' = [pending EXCEPT ![r].delete = op[r].row]
                        /\ decided' = decided
                     \/ /\ pending' = pending
                        /\ decided' = [decided EXCEPT ![r] = "deleted"]
              BY <6>3 DEF DeleteItem
            <7>2. op[r].kind = "delete"
              BY <1>0, <7>1 DEF PhaseInv
            <7> QED  BY <1>0, <1>a, <2>1, <4>1, <7>1, <7>2 DEF AtCommit, TypeOK, Transaction
          <6> QED  BY <3>5, <6>1, <6>2, <6>3
        <5>4. Identified(r)'
          BY <1>0, <3>1, <4>1, <5>2, StillIdentified DEF PhaseInv
        <5> QED  BY <1>0, <2>1, <2>2, <3>0, <3>1, <4>1, <5>1, <5>2, <5>3, <5>4 DEF PhaseInv
      <4> QED  BY <3>5, <4>2, <4>3 DEF InsertItem, UpdateItem, DeleteItem, Outcomes
    <3> QED  BY <1>2, <2>4, <3>2, <3>3, <3>4, <3>5 DEF Statement
  <2> QED  BY <2>0, <2>3, <2>4
<1> QED  BY <1>1, <1>2

\* Only these three statements write items, each under the lock of what it writes.
LEMMA WritesOfItself ==
    ASSUME IInv, NEW r \in Requests, Start(r) \/ Statement(r) \/ Die(r), ~Answer(r)
    PROVE  \/ /\ pending'[r].insert = None /\ pending'[r].update = None
              /\ pending'[r].delete = None
           \/ /\ InsertItem(r) /\ ~ItemKeyHeld(r, op[r].product) /\ me' = me
              /\ pending'[r].insert # None
              /\ pending'[r].insert.product = op[r].product
              /\ pending'[r].update = None /\ pending'[r].delete = None
              /\ ItemsOf(me[r], op[r].product) = {}
           \/ /\ UpdateItem(r) \/ DeleteItem(r)
              /\ op' = op /\ me' = me /\ ~RowHeld(r, op[r].row) /\ op[r].row \in Rows
              /\ items[op[r].row] # None /\ items[op[r].row].owner = me[r]
              /\ pending'[r].insert = None
              /\ pending'[r].delete \in {None, op[r].row}
<1>0. /\ TypeOK /\ PhaseInv(r) /\ pending[r] \in Transaction
      /\ pending \in [Requests -> Transaction]
  BY DEF IInv, TypeOK
<1>1. CASE InsertItem(r)
  <2>0. /\ pc[r] = "insert" /\ Identified(r) /\ op[r] \in Operation /\ op[r].kind = "create"
        /\ pending[r].insert = None /\ pending[r].update = None /\ pending[r].delete = None
    BY <1>0, <1>1 DEF InsertItem, PhaseInv, TypeOK, Working
  <2> DEFINE item == [owner |-> me[r], product |-> op[r].product,
                      threshold |-> op[r].threshold, enabled |-> op[r].enabled]
  <2>1. item \in ItemRow
    BY <2>0, OperationKinds DEF Identified, ItemRow
  <2>2. item.product = op[r].product
    OBVIOUS
  <2>3. \/ pending' = pending
        \/ /\ pending' = [pending EXCEPT ![r] = [@ EXCEPT !.insert = item]]
           /\ ItemsOf(me[r], op[r].product) = {}
    BY <1>1 DEF InsertItem
  <2>4. ~ItemKeyHeld(r, op[r].product) /\ me' = me
    BY <1>1 DEF InsertItem
  <2> HIDE DEF item
  <2>5. item # None
    BY <2>1, ColumnsAreRows
  <2> QED  BY <1>0, <1>1, <2>0, <2>2, <2>3, <2>4, <2>5 DEF Transaction
<1>2. CASE UpdateItem(r) \/ DeleteItem(r)
  <2>0. /\ pc[r] \in {"update", "delete"} /\ op[r] \in Operation
        /\ op[r].kind \in {"patch", "delete"}
        /\ pending[r].insert = None /\ pending[r].update = None /\ pending[r].delete = None
        /\ op' = op /\ me' = me /\ ~RowHeld(r, op[r].row)
    BY <1>0, <1>2 DEF UpdateItem, DeleteItem, PhaseInv, TypeOK
  <2>1. op[r].row \in Rows
    BY <2>0, OperationKinds
  <2>2. CASE items[op[r].row] = None
    BY <1>0, <1>2, <2>0, <2>2 DEF UpdateItem, DeleteItem, Refuse
  <2>3. CASE items[op[r].row] # None
    <3>1. items[op[r].row].owner = me[r]
      BY <1>0, <2>0, <2>3 DEF PhaseInv
    <3>2. \/ pending' = [pending EXCEPT ![r].update = Changes(op[r], loaded[r])]
          \/ pending' = [pending EXCEPT ![r].delete = op[r].row]
      BY <1>2, <2>3 DEF UpdateItem, DeleteItem
    <3>3. pending'[r].insert = None /\ pending'[r].delete \in {None, op[r].row}
      BY <1>0, <2>0, <3>2 DEF Transaction
    <3> QED  BY <1>2, <2>0, <2>1, <2>3, <3>1, <3>3
  <2> QED  BY <2>2, <2>3
<1>3. CASE Commit(r) \/ Rollback(r) \/ Die(r)
  BY <1>0, <1>3 DEF Commit, Rollback, Die, Nothing
<1>4. CASE Start(r) \/ InsertUser(r) \/ SyncProfile(r) \/ LookUpProduct(r) \/ LoadItem(r)
  <2>1. pending[r].insert = None /\ pending[r].update = None /\ pending[r].delete = None
    BY <1>0, <1>4 DEF Start, InsertUser, SyncProfile, LookUpProduct, LoadItem, PhaseInv
  <2>2. \/ pending' = pending \/ pending' = [pending EXCEPT ![r].user = TRUE]
        \/ pending' = [pending EXCEPT ![r].email = TRUE]
    BY <1>4 DEF Start, InsertUser, SyncProfile, LookUpProduct, LoadItem
  <2> QED  BY <1>0, <2>1, <2>2 DEF Transaction
<1> QED  BY <1>1, <1>2, <1>3, <1>4 DEF Statement

LEMMA LockStep ==
    ASSUME IInv, NEW r \in Requests, Start(r) \/ Statement(r) \/ Die(r)
    PROVE  LockInv'
<1>0. TypeOK /\ UserInv /\ ItemInv /\ LockInv /\ PhaseInv(r) /\ \A q \in Rows : q # None
  BY NoneAssumption DEF IInv
<1>1. \A q \in Requests \ {r} :
        me'[q] = me[q] /\ op'[q] = op[q] /\ pending'[q] = pending[q]
  BY <1>0, OthersStay
<1>2. CASE Commit(r)
  <2>1. /\ pending'[r].insert = None /\ pending'[r].update = None
        /\ pending'[r].delete = None
    BY <1>0, <1>2 DEF Commit, Nothing, TypeOK
  <2>2. \A row \in Rows : ~Writes(r, row)'
    BY <1>0, <2>1 DEF Writes
  <2>3. \A q \in Requests \ {r}, row \in Rows : Writes(q, row)' <=> Writes(q, row)
    BY <1>1 DEF Writes
  <2>4. ASSUME NEW q \in Requests, pending'[q].insert # None
        PROVE  ItemsOf(me[q], pending[q].insert.product)' = {}
    <3>1. q # r /\ pending[q].insert # None
      BY <1>1, <2>1, <2>4
    <3>2. ASSUME NEW row \in Rows, items'[row] # None, items'[row].owner = me[q],
                 items'[row].product = pending[q].insert.product
          PROVE  FALSE
      <4>1. CASE /\ items[row] # None /\ items'[row].owner = items[row].owner
                 /\ items'[row].product = items[row].product
        <5>1. row \in ItemsOf(me[q], pending[q].insert.product)
          BY <3>2, <4>1 DEF ItemsOf
        <5> QED  BY <1>0, <3>1, <5>1 DEF LockInv
      <4>2. CASE pending[r].insert # None /\ items'[row] = pending[r].insert
        BY <1>0, <1>2, <3>1, <3>2, <4>2, Inserted DEF LockInv
      <4> QED  BY <1>0, <1>2, <3>2, <4>1, <4>2, ItemsAfterCommit
    <3> QED  BY <1>1, <3>1, <3>2 DEF ItemsOf
  <2>5. ASSUME NEW q \in Requests, NEW row \in Rows, Writes(q, row)'
        PROVE  items'[row] # None /\ items'[row].owner = me'[q]
    <3>1. q # r /\ Writes(q, row)
      BY <2>2, <2>3, <2>5
    <3>2. items[row] # None /\ items[row].owner = me[q] /\ ~Writes(r, row)
      BY <1>0, <3>1 DEF LockInv
    <3>3. pending[r].insert # None => row # r
      BY <1>0, <1>2, <3>2, Inserted
    <3>4. items'[row] = items[row]
      BY <1>0, <1>2, <3>2, <3>3, ItemsAfterCommit
    <3> QED  BY <1>1, <3>1, <3>2, <3>4
  <2>6. \A q, o \in Requests :
         /\ pending'[q].insert # None /\ pending'[o].insert # None /\ me'[q] = me'[o]
         /\ pending'[q].insert.product = pending'[o].insert.product
         => q = o
    BY <1>0, <1>1, <2>1 DEF LockInv
  <2>7. \A q, o \in Requests, row \in Rows : Writes(q, row)' /\ Writes(o, row)' => q = o
    BY <1>0, <2>2, <2>3 DEF LockInv
  <2>8. \A q \in Requests : pending'[q].insert # None =>
          ItemsOf(me[q], pending[q].insert.product)' = {}
    BY <2>4
  <2> QED  BY <2>5, <2>6, <2>7, <2>8 DEF LockInv
<1>3. CASE Answer(r)
  BY <1>0, <1>3 DEF Answer, LockInv, Writes, ItemsOf
<1>4. CASE ~Commit(r) /\ ~Answer(r)
  <2>0. users' = users /\ items' = items
    BY <1>4, TablesStay
  <2>1. \A q \in Requests \ {r}, row \in Rows : Writes(q, row)' <=> Writes(q, row)
    BY <1>1 DEF Writes
  <2>2. CASE /\ pending'[r].insert = None /\ pending'[r].update = None
             /\ pending'[r].delete = None
    <3>1. \A row \in Rows : ~Writes(r, row)'
      BY <1>0, <2>2 DEF Writes
    <3>2. \A q \in Requests, row \in Rows : Writes(q, row)' =>
            q # r /\ Writes(q, row) /\ me'[q] = me[q]
      BY <1>1, <2>1, <3>1
    <3> QED  BY <1>0, <1>1, <2>0, <2>2, <3>2 DEF LockInv, ItemsOf
  <2>3. CASE /\ InsertItem(r) /\ ~ItemKeyHeld(r, op[r].product) /\ me' = me
             /\ pending'[r].insert # None /\ pending'[r].insert.product = op[r].product
             /\ pending'[r].update = None /\ pending'[r].delete = None
             /\ ItemsOf(me[r], op[r].product) = {}
    <3>1. \A row \in Rows : ~Writes(r, row)'
      BY <1>0, <2>3 DEF Writes
    <3>2. \A q \in Requests, row \in Rows : Writes(q, row)' => q # r /\ Writes(q, row)
      BY <2>1, <3>1
    <3>3. \A q \in Requests \ {r} : pending[q].insert # None /\ me[q] = me[r] =>
            pending[q].insert.product # op[r].product
      BY <2>3 DEF ItemKeyHeld, Others
    <3> QED  BY <1>0, <1>1, <2>0, <2>3, <3>2, <3>3 DEF LockInv, ItemsOf
  <2>4. CASE /\ UpdateItem(r) \/ DeleteItem(r)
             /\ op' = op /\ me' = me /\ ~RowHeld(r, op[r].row) /\ op[r].row \in Rows
             /\ items[op[r].row] # None /\ items[op[r].row].owner = me[r]
             /\ pending'[r].insert = None
             /\ pending'[r].delete \in {None, op[r].row}
    <3>1. \A row \in Rows : Writes(r, row)' => row = op[r].row
      BY <1>0, <2>4 DEF Writes
    <3>2. \A q \in Requests \ {r} : ~Writes(q, op[r].row)
      BY <2>4 DEF RowHeld, Writes, Others
    <3>3. \A q \in Requests, row \in Rows : Writes(q, row)' =>
            \/ q # r /\ Writes(q, row) /\ row # op[r].row
            \/ q = r /\ row = op[r].row
      BY <2>1, <3>1, <3>2
    <3> QED  BY <1>0, <1>1, <2>0, <2>4, <3>3 DEF LockInv, ItemsOf
  <2> QED  BY <1>4, <2>2, <2>3, <2>4, WritesOfItself
<1> QED  BY <1>2, <1>3, <1>4

LEMMA InitInv == Init => IInv
<1> SUFFICES ASSUME Init PROVE IInv
  OBVIOUS
<1>1. /\ pc = [r \in Requests |-> "idle"] /\ op = [r \in Requests |-> None]
      /\ me = [r \in Requests |-> None] /\ loaded = [r \in Requests |-> None]
      /\ pending = [r \in Requests |-> Nothing] /\ decided = [r \in Requests |-> None]
      /\ told = [r \in Requests |-> None]
  BY DEF Init
<1>2. \/ /\ users = [u \in Rows |-> None]
         /\ items = [row \in Rows |-> None]
      \/ \E r \in Requests, p \in Catalogued :
            /\ users = [u \in Rows |-> IF u = Old
                        THEN [identity |-> IdentityOf[r], email |-> EmailOf[r]] ELSE None]
            /\ items = [row \in Rows |-> IF row = Old
                        THEN [owner |-> Old, product |-> p, threshold |-> First,
                              enabled |-> TRUE] ELSE None]
  BY DEF Init
<1>3. \A r \in Requests, p \in Catalogued :
         /\ [identity |-> IdentityOf[r], email |-> EmailOf[r]] \in UserRow
         /\ [owner |-> Old, product |-> p, threshold |-> First,
             enabled |-> TRUE] \in ItemRow
  BY RequestAssumption DEF UserRow, ItemRow, Rows
<1>4. /\ users \in [Rows -> UserRow \cup {None}]
      /\ items \in [Rows -> ItemRow \cup {None}]
  BY <1>2, <1>3
<1>5. \A u \in Rows : /\ users[u] # None => u = Old
                      /\ items[u] # None => /\ u = Old /\ items[u].owner = Old
                                            /\ users[Old] # None
  BY <1>2, <1>3, NoneAssumption DEF Rows
<1>6. TypeOK
  BY <1>1, <1>4, Written DEF TypeOK, Nothing, Transaction
<1>7. UserInv
  BY <1>1, <1>5 DEF UserInv, Nothing
<1>8. ItemInv
  BY <1>5 DEF ItemInv
<1>9. \A r \in Requests : PhaseInv(r)
  BY <1>1 DEF PhaseInv, Nothing, Working, Over
<1>10. LockInv
  BY <1>1, NoneAssumption DEF LockInv, Writes, Nothing
<1> QED  BY <1>6, <1>7, <1>8, <1>9, <1>10 DEF IInv

LEMMA InvStep ==
    ASSUME IInv, NEW r \in Requests, Start(r) \/ Statement(r) \/ Die(r)
    PROVE  IInv'
<1>1. TypeOK'
  BY TypeStart, TypeStep DEF IInv
<1>2. UserInv' /\ ItemInv' /\ LockInv'
  BY UserStep, ItemStep, LockStep DEF IInv
<1>3. \A q \in Requests : PhaseInv(q)'
  BY <1>1, PhaseOfOthers, PhaseOfItself
<1> QED  BY <1>1, <1>2, <1>3 DEF IInv

\* The inductive invariant of the per-user collections: keys and rows are
\* locked from the statement that writes them to the end of the transaction,
\* and what a statement has seen of its own rows is still so at the commit.
THEOREM InductiveInvariant == Spec => []IInv
<1>1. IInv /\ [Next]_vars => IInv'
  <2> SUFFICES ASSUME IInv, [Next]_vars PROVE IInv'
    OBVIOUS
  <2>1. CASE UNCHANGED vars
    BY <2>1 DEF vars, IInv, TypeOK, UserInv, ItemInv, LockInv, PhaseInv, Account,
       ItemsOf, Identified, AtCommit, Writes, Changes, Outcome
  <2>2. CASE Next
    BY <2>2, InvStep DEF Next
  <2> QED  BY <2>1, <2>2
<1> QED  BY <1>1, InitInv, PTL DEF Spec

LEMMA AtMostOne ==
    ASSUME NEW S, \A x, y \in S : x = y
    PROVE  Cardinality(S) <= 1
<1>1. CASE S = {}
  BY <1>1, FS_EmptySet
<1>2. CASE S # {}
  <2>1. PICK x \in S : TRUE
    BY <1>2
  <2>2. S = {x}
    BY <2>1
  <2> QED  BY <2>2, FS_Singleton
<1> QED  BY <1>1, <1>2

\* One user per identity and one item per user and product, whatever requests
\* race for them (user_repository.py, the *_service.py of the collections).
THEOREM AlwaysOneOfEach == Spec => []OneOfEach
<1>1. IInv => OneOfEach
  <2> SUFFICES ASSUME IInv PROVE OneOfEach
    OBVIOUS
  <2>1. \A i \in Identities : \A x, y \in Account(i) : x = y
    BY DEF IInv, UserInv, Account
  <2>2. \A u \in Rows, p \in Products : \A x, y \in ItemsOf(u, p) : x = y
    BY DEF IInv, ItemInv, ItemsOf
  <2> QED  BY <2>1, <2>2, AtMostOne DEF OneOfEach
<1> QED  BY <1>1, InductiveInvariant, PTL

-----------------------------------------------------------------------------
(* UserStore.  Users never change their identity, so what a client sees of *)
(* an item changes with the item only.                                     *)

Store  == [row \in Rows |-> Seen(items[row])]
SeenBy == [r \in Requests |-> Seen(loaded[r])]

LEMMA SeenItem ==
    ASSUME TypeOK, NEW item \in ItemRow, users[item.owner] # None
    PROVE  /\ Seen(item) = [owner |-> users[item.owner].identity, product |-> item.product,
                            threshold |-> item.threshold, enabled |-> item.enabled]
           /\ Seen(item) \in Promise!Item /\ Seen(item) # None
<1>1. users[item.owner] \in UserRow
  BY DEF TypeOK, ItemRow
<1>2. item # None
  BY ColumnsAreRows
<1>3. Seen(item) = [owner |-> users[item.owner].identity, product |-> item.product,
                    threshold |-> item.threshold, enabled |-> item.enabled]
  BY <1>2 DEF Seen, OwnerOf, ItemRow
<1>4. Seen(item) \in Promise!Item
  BY <1>1, <1>3 DEF Promise!Item, UserRow, ItemRow
<1> QED  BY <1>3, <1>4, NoneAssumption DEF Promise!Item

LEMMA IdentityStays ==
    ASSUME IInv, NEW r \in Requests, Start(r) \/ Statement(r) \/ Die(r),
           NEW u \in Rows, users[u] # None
    PROVE  users'[u] # None /\ users'[u].identity = users[u].identity
BY TablesStay, UsersAfterCommit DEF IInv

LEMMA SeenStays ==
    ASSUME IInv, NEW r \in Requests, Start(r) \/ Statement(r) \/ Die(r),
           NEW item \in ItemRow \cup {None}, item # None => users[item.owner] # None
    PROVE  Seen(item)' = Seen(item)
<1>1. CASE item = None
  BY <1>1 DEF Seen
<1>2. CASE item # None
  <2>1. item.owner \in Rows
    BY <1>2 DEF ItemRow
  <2>2. /\ users'[item.owner] # None
        /\ users'[item.owner].identity = users[item.owner].identity
    BY <1>2, <2>1, IdentityStays
  <2> QED  BY <1>2, <2>2 DEF Seen, OwnerOf
<1> QED  BY <1>1, <1>2

LEMMA OwnersAreUsers ==
    ASSUME IInv
    PROVE  /\ \A row \in Rows : /\ items[row] \in ItemRow \cup {None}
                                /\ items[row] # None => users[items[row].owner] # None
           /\ \A q \in Requests : /\ loaded[q] \in ItemRow \cup {None}
                                  /\ loaded[q] # None => users[loaded[q].owner] # None
BY DEF IInv, TypeOK, ItemInv, PhaseInv

\* The store changes where the collection does, and only a commit changes it.
LEMMA StoreStays ==
    ASSUME IInv, NEW r \in Requests, Start(r) \/ Statement(r) \/ Die(r)
    PROVE  /\ \A row \in Rows : items'[row] = items[row] => Store'[row] = Store[row]
           /\ ~Commit(r) => Store' = Store
           /\ \A q \in Requests : loaded'[q] = loaded[q] => SeenBy'[q] = SeenBy[q]
           /\ loaded' = loaded => SeenBy' = SeenBy
<1>0. \A u \in Rows : users[u] # None =>
         users'[u] # None /\ users'[u].identity = users[u].identity
  BY IdentityStays
<1>1. ASSUME NEW item \in ItemRow \cup {None}, item # None => users[item.owner] # None
      PROVE  Seen(item)' = Seen(item)
  BY <1>1, SeenStays
<1>2. ASSUME NEW row \in Rows, items'[row] = items[row]
      PROVE  Store'[row] = Store[row]
  <2>1. items[row] # None => items[row].owner \in Rows /\ users[items[row].owner] # None
    BY OwnersAreUsers DEF ItemRow
  <2> QED  BY <1>0, <1>2, <2>1 DEF Store, Seen, OwnerOf
<1>3. ASSUME NEW q \in Requests, loaded'[q] = loaded[q]
      PROVE  SeenBy'[q] = SeenBy[q]
  <2>1. loaded[q] # None => loaded[q].owner \in Rows /\ users[loaded[q].owner] # None
    BY OwnersAreUsers DEF ItemRow
  <2> QED  BY <1>0, <1>3, <2>1 DEF SeenBy, Seen, OwnerOf
<1>4. ~Commit(r) => Store' = Store
  BY <1>2, TablesStay DEF Store
<1>5. loaded' = loaded => SeenBy' = SeenBy
  BY <1>3 DEF SeenBy
<1> QED  BY <1>2, <1>3, <1>4, <1>5

\* What UserStore calls a request's own items are those of the row it found
\* or makes for its user.
LEMMA MineIsMine ==
    ASSUME IInv, NEW r \in Requests, Identified(r), NEW row \in Rows
    PROVE  Promise!Mine(r, row) <=> items[row] # None /\ items[row].owner = me[r]
<1>0. TypeOK /\ UserInv
  BY DEF IInv
<1>1. Promise!Mine(r, row) <=> Seen(items[row]) # None /\ Seen(items[row]).owner = IdentityOf[r]
  BY DEF Promise!Mine
<1>2. CASE items[row] = None
  BY <1>1, <1>2 DEF Seen
<1>3. CASE items[row] # None
  <2>1. /\ items[row] \in ItemRow /\ items[row].owner \in Rows
        /\ users[items[row].owner] # None
    BY <1>3, OwnersAreUsers DEF ItemRow
  <2>2. Seen(items[row]) # None /\ Seen(items[row]).owner = users[items[row].owner].identity
    BY <1>0, <2>1, SeenItem
  <2>3. users[items[row].owner].identity = IdentityOf[r] <=> items[row].owner = me[r]
    <3>1. CASE users[me[r]] = None
      <4>1. Account(IdentityOf[r]) = {} /\ items[row].owner # me[r]
        BY <1>0, <2>1, <3>1 DEF Identified, UserInv
      <4> QED  BY <2>1, <4>1 DEF Account
    <3>2. CASE users[me[r]] # None
      BY <1>0, <2>1, <3>2 DEF Identified, UserInv
    <3> QED  BY <3>1, <3>2
  <2> QED  BY <1>1, <1>3, <2>2, <2>3
<1> QED  BY <1>2, <1>3

LEMMA AtWork ==
    ASSUME IInv, NEW r \in Requests, pc[r] \in Working
    PROVE  /\ op[r] \in Operation /\ op[r] # None /\ Identified(r)
           /\ \A row \in Rows : Promise!Mine(r, row) <=>
                                items[row] # None /\ items[row].owner = me[r]
           /\ pc[r] # "commit" => /\ decided[r] = None \/ pc[r] = "rollback"
                                  /\ told[r] = None
<1>1. /\ op[r] \in Operation \cup {None} /\ PhaseInv(r)
      /\ \A o \in Operation : o # None
  BY NoneAssumption DEF IInv, TypeOK
<1>2. op[r] \in Operation /\ op[r] # None /\ Identified(r)
  BY <1>1 DEF PhaseInv, Working
<1>3. pc[r] # "commit" => /\ decided[r] = None \/ pc[r] = "rollback"
                         /\ told[r] = None
  BY <1>1 DEF PhaseInv, Working, Early
<1> QED  BY <1>2, <1>3, MineIsMine

\* A client's call.
LEMMA StartCalls ==
    ASSUME IInv, NEW r \in Requests, Start(r)
    PROVE  Promise!Call(r)
<1>1. PICK o \in Operation : op' = [op EXCEPT ![r] = o]
  BY AskedAreOperations DEF Start
<1>2. /\ op[r] = None /\ ~Commit(r)
      /\ loaded' = loaded /\ decided' = decided /\ told' = told
  BY DEF Start, Commit, IInv, PhaseInv
<1>3. Store' = Store /\ SeenBy' = SeenBy
  BY <1>2, StoreStays
<1>4. o \in Promise!Operation
  BY DEF Operation, Promise!Operation, Rows, Promise!Rows
<1> QED  BY <1>1, <1>2, <1>3, <1>4 DEF Promise!Call, Store, SeenBy

\* Statements that UserStore does not see.
LEMMA SilentStatements ==
    ASSUME IInv, NEW r \in Requests,
           InsertUser(r) \/ SyncProfile(r) \/ Rollback(r) \/ Die(r)
    PROVE  UNCHANGED Promise!vars
<1>1. loaded' = loaded /\ decided' = decided /\ op' = op /\ told' = told
  BY DEF InsertUser, SyncProfile, Rollback, Die
<1>2. ~Commit(r)
  BY DEF InsertUser, SyncProfile, Rollback, Die, Commit, GoTo, IInv, TypeOK
<1>3. Store' = Store /\ SeenBy' = SeenBy
  BY <1>1, <1>2, StoreStays DEF Statement
<1> QED  BY <1>1, <1>3 DEF Promise!vars, Store, SeenBy

\* An outcome that leaves the store as it is.
LEMMA DecidesOnly ==
    ASSUME IInv, NEW r \in Requests, pc[r] \in Working, pc[r] # "commit", decided[r] = None,
           op' = op, told' = told, Store' = Store, SeenBy' = SeenBy,
           NEW outcome \in {"not_found", "conflict", "failed", "deleted"},
           Promise!Fits(r, outcome),
           outcome = "deleted" => ~Promise!Mine(r, op[r].row),
           decided' = [decided EXCEPT ![r] = outcome]
    PROVE  \E o \in Promise!Outcomes : Promise!Decide(r, o)
<1>1. op[r] # None /\ told[r] = None
  BY AtWork
<1>2. Promise!After(r, outcome) = Store
  BY DEF Promise!After, Store
<1>3. outcome \in Promise!Outcomes
  BY DEF Promise!Outcomes, Promise!Effects
<1> QED  BY <1>1, <1>2, <1>3 DEF Promise!Decide, Store, SeenBy

\* A create that is refused, before or by the insert.
LEMMA RefusedCreates ==
    ASSUME IInv, NEW r \in Requests, LookUpProduct(r) \/ InsertItem(r)
    PROVE  (\E o \in Promise!Outcomes : Promise!Decide(r, o)) \/ UNCHANGED Promise!vars
<1>1. /\ loaded' = loaded /\ op' = op /\ told' = told /\ pc[r] \in {"look_up", "insert"}
      /\ op[r].kind = "create" /\ ~Commit(r)
  BY DEF LookUpProduct, InsertItem, IInv, PhaseInv, Commit
<1>2. Store' = Store /\ SeenBy' = SeenBy
  BY <1>1, StoreStays DEF Statement
<1>3. /\ op[r] # None /\ decided[r] = None
      /\ \A row \in Rows : Promise!Mine(r, row) <=>
                           items[row] # None /\ items[row].owner = me[r]
  BY <1>1, AtWork DEF Working
<1>4. \/ decided' = decided
      \/ op[r].product \notin Catalogued /\ decided' = [decided EXCEPT ![r] = "not_found"]
      \/ /\ ItemsOf(me[r], op[r].product) # {}
         /\ decided' = [decided EXCEPT ![r] = "conflict"]
  BY DEF LookUpProduct, InsertItem, Refuse
<1>5. CASE decided' = decided
  BY <1>1, <1>2, <1>5 DEF Promise!vars, Store, SeenBy
<1>6. CASE op[r].product \notin Catalogued /\ decided' = [decided EXCEPT ![r] = "not_found"]
  <2>1. Promise!Fits(r, "not_found")
    BY <1>1, <1>6 DEF Promise!Fits
  <2> QED  BY <1>1, <1>2, <1>3, <1>6, <2>1, DecidesOnly DEF Working
<1>7. CASE /\ ItemsOf(me[r], op[r].product) # {}
           /\ decided' = [decided EXCEPT ![r] = "conflict"]
  <2>1. PICK row \in Rows : /\ items[row] # None /\ items[row].owner = me[r]
                            /\ items[row].product = op[r].product
    BY <1>7 DEF ItemsOf
  <2>2. Promise!Mine(r, row) /\ Seen(items[row]).product = op[r].product
    BY <1>3, <2>1, OwnersAreUsers, SeenItem DEF IInv
  <2>3. Promise!Taken(r)
    BY <2>2 DEF Rows, Promise!Rows, Promise!Taken
  <2>4. Promise!Fits(r, "conflict")
    BY <1>1, <2>3 DEF Promise!Fits
  <2> QED  BY <1>1, <1>2, <1>3, <1>7, <2>4, DecidesOnly DEF Working
<1> QED  BY <1>4, <1>5, <1>6, <1>7

\* A patch that changes a column of its item reads it; a request for what is
\* not the caller's, and a patch that changes nothing, are decided.
LEMMA LoadsSee ==
    ASSUME IInv, NEW r \in Requests, LoadItem(r)
    PROVE  \/ Promise!See(r) \/ \E o \in Promise!Outcomes : Promise!Decide(r, o)
           \/ UNCHANGED Promise!vars
<1> DEFINE row == op[r].row
<1>0. /\ op' = op /\ told' = told /\ pc[r] = "look_up"
      /\ op[r].kind \in {"patch", "delete"} /\ ~Commit(r) /\ TypeOK /\ PhaseInv(r)
  BY DEF LoadItem, IInv, Commit
<1>1. Store' = Store
  BY <1>0, StoreStays DEF Statement
<1>2. /\ op[r] \in Operation /\ op[r] # None /\ decided[r] = None /\ told[r] = None
      /\ row \in Rows /\ loaded[r] = None
      /\ Promise!Mine(r, row) <=> items[row] # None /\ items[row].owner = me[r]
  BY <1>0, AtWork, OperationKinds DEF Working, PhaseInv, Early
<1>3. SeenBy[r] = None
  BY <1>2 DEF SeenBy, Seen
<1>4. CASE /\ ~Promise!Mine(r, row) /\ loaded' = loaded
           /\ decided' = [decided EXCEPT ![r] = "not_found"]
  <2>1. SeenBy' = SeenBy
    BY <1>4, StoreStays DEF Statement
  <2>2. Promise!Fits(r, "not_found")
    BY <1>0, <1>4 DEF Promise!Fits
  <2> QED  BY <1>0, <1>1, <1>2, <1>4, <2>1, <2>2, DecidesOnly DEF Working
<1>5. CASE loaded' = loaded /\ decided' = decided
  <2>1. SeenBy' = SeenBy
    BY <1>5, StoreStays DEF Statement
  <2> QED  BY <1>0, <1>1, <1>5, <2>1 DEF Promise!vars, Store, SeenBy
<1>6. CASE /\ Promise!Mine(r, row) /\ op[r].kind = "patch" /\ decided' = decided
           /\ loaded' = [loaded EXCEPT ![r] = items[row]]
  <2>1. \A q \in Requests : q # r => SeenBy'[q] = SeenBy[q]
    BY <1>0, <1>6, StoreStays DEF Statement, TypeOK
  <2>2. SeenBy'[r] = Store[row]
    <3>1. loaded'[r] = items[row] /\ Store'[row] = Store[row]
      BY <1>0, <1>1, <1>6 DEF TypeOK
    <3>2. items'[row] = items[row]
      BY DEF LoadItem
    <3> QED  BY <1>2, <3>1, <3>2 DEF SeenBy, Store
  <2>3. SeenBy' = [SeenBy EXCEPT ![r] = Store[row]]
    BY <2>1, <2>2 DEF SeenBy
  <2> QED  BY <1>0, <1>1, <1>2, <1>3, <1>6, <2>3 DEF Promise!See, Store, SeenBy
<1>7. CASE /\ Promise!Mine(r, row) /\ op[r].kind = "patch" /\ loaded' = loaded
           /\ decided' = [decided EXCEPT ![r] = "updated"]
           /\ Changes(op[r], items[row]) = NoChanges
  <2>1. SeenBy' = SeenBy
    BY <1>7, StoreStays DEF Statement
  <2>2. items[row] \in ItemRow /\ users[items[row].owner] # None
    BY <1>2, <1>7, OwnersAreUsers
  <2> DEFINE item == Seen(items[row])
  <2>3. /\ item = [owner |-> users[items[row].owner].identity, product |-> items[row].product,
                   threshold |-> items[row].threshold, enabled |-> items[row].enabled]
        /\ item \in Promise!Item
    BY <1>0, <2>2, SeenItem
  <2>4. /\ op[r].threshold \in {None, item.threshold}
        /\ op[r].enabled \in {None, item.enabled}
    BY <1>7, <2>3 DEF Changes, NoChanges
  <2>5. Promise!Patched(op[r], item, item) = item
    BY <2>3, <2>4 DEF Promise!Patched, Promise!Column
  <2>6. Store[row] = item
    BY <1>2 DEF Store
  <2> HIDE DEF item
  <2>7. Promise!After(r, "updated") = Store
    <3>1. Promise!After(r, "updated") =
            [Store EXCEPT ![row] = Promise!Patched(op[r], @,
                                     IF SeenBy[r] = None THEN @ ELSE SeenBy[r])]
      BY DEF Promise!After, Store, SeenBy
    <3>2. Promise!After(r, "updated") = [Store EXCEPT ![row] = Store[row]]
      BY <1>3, <2>5, <2>6, <3>1
    <3> QED  BY <1>2, <3>2 DEF Store
  <2>8. Promise!Fits(r, "updated") /\ "updated" \in Promise!Outcomes
    BY <1>7 DEF Promise!Fits, Promise!Outcomes, Promise!Effects
  <2>9. Promise!Decide(r, "updated")
    BY <1>0, <1>1, <1>2, <1>7, <2>1, <2>7, <2>8 DEF Promise!Decide, Store, SeenBy
  <2> QED  BY <2>8, <2>9
<1> QED  BY <1>0, <1>2, <1>4, <1>5, <1>6, <1>7 DEF LoadItem, Refuse

\* The item is gone when it is written.
LEMMA LateWrites ==
    ASSUME IInv, NEW r \in Requests, UpdateItem(r) \/ DeleteItem(r)
    PROVE  (\E o \in Promise!Outcomes : Promise!Decide(r, o)) \/ UNCHANGED Promise!vars
<1> DEFINE row == op[r].row
<1>0. /\ op' = op /\ told' = told /\ loaded' = loaded
      /\ pc[r] \in {"update", "delete"} /\ ~Commit(r) /\ TypeOK /\ PhaseInv(r)
  BY DEF UpdateItem, DeleteItem, IInv, Commit
<1>1. Store' = Store /\ SeenBy' = SeenBy
  BY <1>0, StoreStays DEF Statement
<1>2. /\ op[r] \in Operation /\ op[r] # None /\ decided[r] = None
      /\ op[r].kind \in {"patch", "delete"} /\ row \in Rows
      /\ Promise!Mine(r, row) <=> items[row] # None /\ items[row].owner = me[r]
  BY <1>0, AtWork, OperationKinds DEF Working, PhaseInv
<1>3. CASE decided' = decided
  BY <1>0, <1>1, <1>3 DEF Promise!vars, Store, SeenBy
<1>4. CASE /\ items[row] = None /\ op[r].kind = "patch"
           /\ decided' = [decided EXCEPT ![r] = "failed"]
  <2>1. Promise!Fits(r, "failed")
    BY <1>2, <1>4 DEF Promise!Fits
  <2> QED  BY <1>0, <1>1, <1>2, <1>4, <2>1, DecidesOnly DEF Working
<1>5. CASE /\ items[row] = None /\ op[r].kind = "delete"
           /\ decided' = [decided EXCEPT ![r] = "deleted"]
  <2>1. Promise!Fits(r, "deleted")
    BY <1>5 DEF Promise!Fits
  <2> QED  BY <1>0, <1>1, <1>2, <1>5, <2>1, DecidesOnly DEF Working
<1> QED  BY <1>0, <1>3, <1>4, <1>5 DEF UpdateItem, DeleteItem, Refuse, PhaseInv

\* The two columns of a patched item.
LEMMA PatchedColumns ==
    ASSUME NEW item \in Promise!Item, NEW s, NEW t, NEW u, NEW v
    PROVE  [item EXCEPT !.threshold = Promise!Column(s, u, @),
                        !.enabled = Promise!Column(t, v, @)] =
           [owner |-> item.owner, product |-> item.product,
            threshold |-> Promise!Column(s, u, item.threshold),
            enabled |-> Promise!Column(t, v, item.enabled)]
<1> DEFINE x == Promise!Column(s, u, item.threshold)
           half == [item EXCEPT !.threshold = x]
<1>1. half = [owner |-> item.owner, product |-> item.product,
              threshold |-> x, enabled |-> item.enabled]
  BY DEF Promise!Item
<1>2. [item EXCEPT !.threshold = Promise!Column(s, u, @),
                   !.enabled = Promise!Column(t, v, @)] =
      [half EXCEPT !.enabled = Promise!Column(t, v, @)]
  OBVIOUS
<1> HIDE DEF x
<1>3. /\ half \in [owner : Identities, product : Products,
                   threshold : {x}, enabled : BOOLEAN]
      /\ half.owner = item.owner /\ half.product = item.product
      /\ half.threshold = x /\ half.enabled = item.enabled
  BY <1>1 DEF Promise!Item
<1> HIDE DEF half
<1>4. [half EXCEPT !.enabled = Promise!Column(t, v, @)] =
      [owner |-> half.owner, product |-> half.product, threshold |-> half.threshold,
       enabled |-> Promise!Column(t, v, half.enabled)]
  BY <1>3
<1> QED  BY <1>2, <1>3, <1>4 DEF x

\* Before the commit: the locks of the request keep its outcome possible.
LEMMA CommitFits ==
    ASSUME IInv, NEW r \in Requests, pc[r] = "commit", decided[r] = None
    PROVE  Promise!Fits(r, Outcome(r)) /\ Outcome(r) \in Promise!Effects
<1>0. TypeOK /\ PhaseInv(r) /\ LockInv /\ AtCommit(r)
  BY DEF IInv, PhaseInv
<1>1. /\ op[r] \in Operation /\ op[r] # None
      /\ \A row \in Rows : Promise!Mine(r, row) <=>
                           items[row] # None /\ items[row].owner = me[r]
  BY AtWork DEF Working
<1>2. CASE op[r].kind = "create"
  <2>1. /\ op[r].product \in Catalogued /\ Outcome(r) = "created"
        /\ pending[r].insert.product = op[r].product
        /\ pending[r].insert = [owner |-> me[r], product |-> op[r].product,
                      threshold |-> op[r].threshold, enabled |-> op[r].enabled]
    BY <1>0, <1>2 DEF AtCommit, Outcome, Done
  <2>2. pending[r].insert # None
    <3>1. pending[r].insert \in ItemRow
      BY <1>1, <1>2, <2>1, OperationKinds, AtWork DEF Identified, ItemRow, Working
    <3> QED  BY <3>1, ColumnsAreRows
  <2>3. ~Promise!Taken(r)
    <3>1. SUFFICES ASSUME NEW row \in Rows, Promise!Mine(r, row),
                          Store[row].product = op[r].product
                   PROVE  FALSE
      BY DEF Promise!Taken, Store, Promise!Rows, Rows
    <3>2. /\ items[row] \in ItemRow /\ items[row].owner = me[r]
          /\ items[row] # None /\ users[items[row].owner] # None
      BY <1>1, <3>1, OwnersAreUsers
    <3>3. items[row].product = op[r].product
      BY <1>0, <3>1, <3>2, SeenItem DEF Store
    <3> QED  BY <1>0, <2>1, <2>2, <3>2, <3>3 DEF LockInv, ItemsOf
  <2> QED  BY <1>2, <2>1, <2>3 DEF Promise!Fits, Promise!Effects
<1>3. CASE op[r].kind = "patch"
  <2>1. /\ pending[r].update = Changes(op[r], loaded[r]) /\ loaded[r] # None
        /\ Outcome(r) = "updated"
    BY <1>0, <1>3, NoneAssumption DEF AtCommit, Outcomes, Outcome, Done
  <2>2. op[r].row \in Rows /\ pending[r].update # None
    <3>1. Changes(op[r], loaded[r]) \in Change
      BY <1>1, <1>3, <2>1, OwnersAreUsers, ChangesAreChanges
    <3> QED  BY <1>1, <1>3, <2>1, <3>1, OperationKinds, NoneAssumption
  <2>3. Promise!Mine(r, op[r].row)
    BY <1>0, <1>1, <2>2 DEF LockInv, Writes
  <2> QED  BY <1>3, <2>1, <2>3 DEF Promise!Fits, Promise!Effects
<1>4. CASE op[r].kind = "delete"
  BY <1>4 DEF Outcome, Done, Promise!Fits, Promise!Effects
<1> QED  BY <1>1, <1>2, <1>3, <1>4, OperationKinds

\* An answer states what has been decided, or what is about to be.
LEMMA AnswersAreTrue ==
    ASSUME IInv, NEW r \in Requests, Answer(r)
    PROVE  \E o \in Promise!Outcomes : Promise!Answer(r, o)
<1>0. /\ TypeOK /\ PhaseInv(r) /\ pc[r] \in {"commit", "closed"} /\ told[r] = None
      /\ op[r] # None /\ op' = op /\ loaded' = loaded /\ decided' = decided
      /\ told' = [told EXCEPT ![r] = Outcome(r)] /\ ~Commit(r)
  BY DEF IInv, Answer, PhaseInv, Commit, GoTo, TypeOK
<1>1. Store' = Store /\ SeenBy' = SeenBy
  BY <1>0, StoreStays DEF Statement
<1>2. Outcome(r) \in Outcomes /\ Promise!Outcomes = Outcomes
  BY <1>0, OutcomeTyped DEF Outcomes, Promise!Outcomes, Promise!Effects
<1>3. \/ decided[r] = Outcome(r)
      \/ /\ decided[r] = None /\ Outcome(r) \in Promise!Effects
         /\ Promise!Fits(r, Outcome(r))
  BY <1>0, CommitFits DEF Outcome, PhaseInv
<1> QED  BY <1>0, <1>1, <1>2, <1>3 DEF Promise!Answer, Store, SeenBy

\* A commit decides what has not been decided, and writes it.
LEMMA CommitsDecide ==
    ASSUME IInv, NEW r \in Requests, Commit(r)
    PROVE  (\E o \in Promise!Outcomes : Promise!Decide(r, o)) \/ UNCHANGED Promise!vars
<1>0. /\ op' = op /\ told' = told /\ loaded' = loaded /\ pc[r] = "commit" /\ AtCommit(r)
      /\ TypeOK /\ PhaseInv(r) /\ UserInv /\ ItemInv /\ LockInv
  BY DEF Commit, IInv, PhaseInv
<1>1. SeenBy' = SeenBy
  BY <1>0, StoreStays DEF Statement
<1>2. /\ op[r] \in Operation /\ op[r] # None /\ Identified(r)
      /\ \A row \in Rows : Promise!Mine(r, row) <=>
                           items[row] # None /\ items[row].owner = me[r]
  BY <1>0, AtWork DEF Working
<1>3. /\ \A row \in Rows : items'[row] = items[row] => Store'[row] = Store[row]
      /\ decided[r] # None => decided' = decided
      /\ decided[r] = None => decided' = [decided EXCEPT ![r] = Done[op[r].kind]]
  <2>1. decided' = [decided EXCEPT ![r] = Outcome(r)]
    BY DEF Commit
  <2> QED  BY <1>0, <2>1, StoreStays DEF Statement, Outcome, TypeOK
<1>a. decided[r] = None /\ Store' = Promise!After(r, Outcome(r))
        => \E o \in Promise!Outcomes : Promise!Decide(r, o)
  <2>1. SUFFICES ASSUME decided[r] = None, Store' = Promise!After(r, Outcome(r))
                 PROVE  \E o \in Promise!Outcomes : Promise!Decide(r, o)
    OBVIOUS
  <2>2. Promise!Fits(r, Outcome(r)) /\ Outcome(r) \in Promise!Outcomes
    BY <1>0, <2>1, CommitFits DEF Promise!Outcomes
  <2>3. told[r] \in {None, Outcome(r)} /\ decided' = [decided EXCEPT ![r] = Outcome(r)]
    BY <1>0, <1>3, <2>1 DEF PhaseInv, Outcome
  <2>4. Promise!Decide(r, Outcome(r))
    BY <1>0, <1>1, <1>2, <2>1, <2>2, <2>3 DEF Promise!Decide, Store, SeenBy
  <2> QED  BY <2>2, <2>4
<1>4. CASE decided[r] # None
  <2>1. /\ pending[r].insert = None /\ pending[r].update = None
        /\ pending[r].delete = None
    BY <1>0, <1>4 DEF AtCommit
  <2>2. \A row \in Rows : items'[row] = items[row]
    <3>1. \A row \in Rows : row # None
      BY NoneAssumption
    <3> QED  BY <1>0, <2>1, <3>1, ItemsAfterCommit DEF Writes
  <2>3. Store' = Store
    BY <1>3, <2>2 DEF Store
  <2> QED  BY <1>0, <1>1, <1>3, <1>4, <2>3 DEF Promise!vars, Store, SeenBy
<1>5. CASE decided[r] = None /\ op[r].kind = "create"
  <2> DEFINE item == [owner |-> me[r], product |-> op[r].product,
                      threshold |-> op[r].threshold, enabled |-> op[r].enabled]
             made == [owner |-> IdentityOf[r], product |-> op[r].product,
                      threshold |-> op[r].threshold, enabled |-> op[r].enabled]
  <2>1. /\ pending[r].insert = item /\ op[r].product \in Catalogued
        /\ pending[r].update = None /\ pending[r].delete = None
    BY <1>0, <1>5 DEF AtCommit
  <2>2. item \in ItemRow
    BY <1>2, <1>5, OperationKinds DEF Identified, ItemRow
  <2>3. pending[r].insert # None /\ item # None
    BY <2>1, <2>2, ColumnsAreRows
  <2>4. \A row \in Rows : row # r => items'[row] = items[row]
    <3>1. \A row \in Rows : row # None
      BY NoneAssumption
    <3> QED  BY <1>0, <2>1, <3>1, ItemsAfterCommit DEF Writes
  <2>5. items'[r] = item
    <3>1. r \in Rows
      BY DEF Rows
    <3> QED  BY <1>0, <2>1, <2>3, <3>1, Inserted, ItemsAfterCommit DEF LockInv, Writes
  <2>6. users'[me[r]] # None /\ users'[me[r]].identity = IdentityOf[r]
    BY <1>0, <1>2, UsersAfterCommit DEF Identified, UserInv
  <2>7. Store'[r] = made
    <3>1. r \in Rows /\ items'[r] # None /\ items'[r].owner = me[r]
      BY <2>3, <2>5 DEF Rows
    <3>2. Store'[r] = [items'[r] EXCEPT !.owner = IdentityOf[r]]
      BY <2>6, <3>1 DEF Store, Seen, OwnerOf
    <3>3. /\ items'[r] \in ItemRow /\ items'[r].product = op[r].product
          /\ items'[r].threshold = op[r].threshold
          /\ items'[r].enabled = op[r].enabled
      BY <2>2, <2>5
    <3> HIDE DEF item
    <3> QED  BY <3>2, <3>3 DEF ItemRow
  <2> HIDE DEF item, made
  <2>8. Store' = [Store EXCEPT ![r] = made]
    BY <1>3, <2>4, <2>7 DEF Store
  <2>9. Promise!After(r, Outcome(r)) = Store'
    BY <1>5, <2>8 DEF Promise!After, Store, Outcome, Done, made
  <2> QED  BY <1>5, <1>a, <2>9
<1>6. CASE decided[r] = None /\ op[r].kind = "patch"
  <2> DEFINE row == op[r].row
             item == Seen(items[row])
             read == Seen(loaded[r])
  <2>1. /\ pending[r].insert = None /\ pending[r].delete = None
        /\ loaded[r] # None /\ pending[r].update = Changes(op[r], loaded[r])
    BY <1>0, <1>6, NoneAssumption DEF AtCommit, Outcomes
  <2>2. /\ row \in Rows /\ loaded[r] \in ItemRow /\ users[loaded[r].owner] # None
        /\ pending[r].update # None
    <3>1. Changes(op[r], loaded[r]) \in Change
      BY <1>2, <1>6, <2>1, OwnersAreUsers, ChangesAreChanges
    <3> QED  BY <1>2, <1>6, <2>1, <3>1, OwnersAreUsers, OperationKinds, NoneAssumption
  <2>3. /\ items[row] # None /\ items[row].owner = me[r] /\ items[row] \in ItemRow
        /\ users[items[row].owner] # None
    BY <1>0, <2>2, OwnersAreUsers DEF LockInv, Writes
  <2>4. \A x \in Rows : x # row => items'[x] = items[x]
    <3>1. \A x \in Rows : x # None
      BY NoneAssumption
    <3> QED  BY <1>0, <2>1, <3>1, ItemsAfterCommit DEF Writes
  <2>5. items'[row] = [items[row] EXCEPT
           !.threshold = Promise!Column(op[r].threshold, loaded[r].threshold, @),
           !.enabled = Promise!Column(op[r].enabled, loaded[r].enabled, @)]
    <3>1. items'[row] = [items[row] EXCEPT
             !.threshold = IF pending[r].update.threshold = None THEN @
                           ELSE pending[r].update.threshold,
             !.enabled = IF pending[r].update.enabled = None THEN @
                         ELSE pending[r].update.enabled]
      <4>1. items'[row] = ItemAfter(row, r)
        BY <2>2 DEF Commit
      <4>2. row # None
        BY <2>2, NoneAssumption
      <4> QED  BY <2>1, <2>2, <4>1, <4>2 DEF ItemAfter
    <3>2. /\ pending[r].update.threshold =
               IF op[r].threshold = loaded[r].threshold THEN None ELSE op[r].threshold
          /\ pending[r].update.enabled =
               IF op[r].enabled = loaded[r].enabled THEN None ELSE op[r].enabled
      BY <2>1 DEF Changes
    <3> QED  BY <3>1, <3>2 DEF Promise!Column
  <2>6. /\ item = [owner |-> users[items[row].owner].identity, product |-> items[row].product,
                   threshold |-> items[row].threshold, enabled |-> items[row].enabled]
        /\ read = [owner |-> users[loaded[r].owner].identity, product |-> loaded[r].product,
                   threshold |-> loaded[r].threshold, enabled |-> loaded[r].enabled]
        /\ read # None
    BY <1>0, <2>2, <2>3, SeenItem
  <2>7. Store'[row] = [item EXCEPT
           !.threshold = Promise!Column(op[r].threshold, read.threshold, @),
           !.enabled = Promise!Column(op[r].enabled, read.enabled, @)]
    <3>1. items'[row] = [owner |-> items[row].owner, product |-> items[row].product,
             threshold |-> Promise!Column(op[r].threshold, loaded[r].threshold,
                                          items[row].threshold),
             enabled |-> Promise!Column(op[r].enabled, loaded[r].enabled,
                                        items[row].enabled)]
      BY <2>3, <2>5 DEF ItemRow
    <3>2. items'[row] # None
      BY <1>0, <1>6, <2>1, <2>2, ItemsAfterCommit DEF Writes
    <3>3. /\ users'[items[row].owner] # None
          /\ users'[items[row].owner].identity = users[items[row].owner].identity
      <4>1. items[row].owner \in Rows
        BY <2>3 DEF ItemRow
      <4> QED  BY <2>3, <4>1, IdentityStays DEF Statement
    <3>4. Store'[row] = [items'[row] EXCEPT !.owner = users[items[row].owner].identity]
      BY SMTT(30), <2>2, <3>1, <3>2, <3>3 DEF Store, Seen, OwnerOf
    <3>5. [items'[row] EXCEPT !.owner = users[items[row].owner].identity] =
            [item EXCEPT
               !.threshold = Promise!Column(op[r].threshold, read.threshold, @),
               !.enabled = Promise!Column(op[r].enabled, read.enabled, @)]
      <4>1. item \in Promise!Item
        BY <1>0, <2>3, SeenItem
      <4>2. /\ item.owner = users[items[row].owner].identity
            /\ item.product = items[row].product
            /\ item.threshold = items[row].threshold /\ item.enabled = items[row].enabled
            /\ read.threshold = loaded[r].threshold /\ read.enabled = loaded[r].enabled
        BY <2>6
      <4>3. /\ items'[row].product = items[row].product
            /\ items'[row].threshold = Promise!Column(op[r].threshold,
                                         loaded[r].threshold, items[row].threshold)
            /\ items'[row].enabled = Promise!Column(op[r].enabled,
                                         loaded[r].enabled, items[row].enabled)
            /\ items'[row] \in [owner : Rows, product : Products,
                 threshold : {items'[row].threshold}, enabled : {items'[row].enabled}]
        BY <2>3, <3>1 DEF ItemRow
      <4> HIDE DEF item, read
      <4>4. [item EXCEPT
               !.threshold = Promise!Column(op[r].threshold, read.threshold, @),
               !.enabled = Promise!Column(op[r].enabled, read.enabled, @)] =
            [owner |-> item.owner, product |-> item.product,
             threshold |-> items'[row].threshold, enabled |-> items'[row].enabled]
        <5>1. [item EXCEPT
                 !.threshold = Promise!Column(op[r].threshold, read.threshold, @),
                 !.enabled = Promise!Column(op[r].enabled, read.enabled, @)] =
              [owner |-> item.owner, product |-> item.product,
               threshold |-> Promise!Column(op[r].threshold, read.threshold, item.threshold),
               enabled |-> Promise!Column(op[r].enabled, read.enabled, item.enabled)]
          BY <4>1, PatchedColumns, Zenon
        <5> QED  BY <4>2, <4>3, <5>1
      <4>5. [items'[row] EXCEPT !.owner = item.owner] =
            [owner |-> item.owner, product |-> item.product,
             threshold |-> items'[row].threshold, enabled |-> items'[row].enabled]
        BY <4>2, <4>3
      <4> QED  BY <4>2, <4>4, <4>5
    <3> QED  BY <3>4, <3>5
  <2>8. Store[row] = item /\ SeenBy[r] = read
    BY <2>2 DEF Store, SeenBy
  <2> HIDE DEF item, read
  <2>9. Store' = [Store EXCEPT ![row] = [Store[row] EXCEPT
           !.threshold = Promise!Column(op[r].threshold, SeenBy[r].threshold, @),
           !.enabled = Promise!Column(op[r].enabled, SeenBy[r].enabled, @)]]
    BY <1>3, <2>4, <2>7, <2>8 DEF Store
  <2>10. SeenBy[r] # None
    BY <2>6, <2>8
  <2>11. Promise!After(r, Outcome(r)) =
           [Store EXCEPT ![row] =
              Promise!Patched(op[r], @, IF SeenBy[r] = None THEN @ ELSE SeenBy[r])]
    BY <1>6 DEF Promise!After, Store, SeenBy, Outcome, Done
  <2>12. Promise!After(r, Outcome(r)) = Store'
    BY <2>9, <2>10, <2>11 DEF Promise!Patched
  <2> QED  BY <1>6, <1>a, <2>12
<1>7. CASE decided[r] = None /\ op[r].kind = "delete"
  <2> DEFINE row == op[r].row
  <2>1. pending[r].insert = None /\ pending[r].update = None /\ pending[r].delete = row
    BY <1>0, <1>7, NoneAssumption DEF AtCommit, Outcomes
  <2>2. row \in Rows /\ row # None
    BY <1>2, <1>7, OperationKinds, NoneAssumption
  <2>3. items[row] # None /\ items[row].owner = me[r] /\ items'[row] = None
    <3>1. Writes(r, row)
      BY <2>1 DEF Writes
    <3>2. items[row] # None /\ items[row].owner = me[r]
      BY <1>0, <2>2, <3>1 DEF LockInv
    <3> QED  BY <1>0, <1>7, <2>2, <3>1, <3>2, ItemsAfterCommit
  <2>4. \A x \in Rows : x # row => items'[x] = items[x]
    BY <1>0, <2>1, ItemsAfterCommit DEF Writes
  <2>5. Store' = [Store EXCEPT ![row] = None]
    BY <1>3, <2>2, <2>3, <2>4 DEF Store, Seen
  <2>6. Promise!Mine(r, row)
    BY <1>2, <2>2, <2>3
  <2>7. Promise!After(r, Outcome(r)) = Store'
    BY <1>7, <2>5, <2>6 DEF Promise!After, Store, Outcome, Done
  <2> QED  BY <1>7, <1>a, <2>7
<1> QED  BY <1>2, <1>4, <1>5, <1>6, <1>7, OperationKinds

LEMMA InitIsPromiseInit == Init => Promise!Init
<1> SUFFICES ASSUME Init PROVE Promise!Init
  OBVIOUS
<1>0. IInv
  BY InitInv
<1>1. \A row \in Rows : Seen(items[row]) \in Promise!Item \cup {None}
  BY <1>0, OwnersAreUsers, SeenItem DEF IInv, Seen
<1>2. \A row \in Requests : Seen(items[row]) = None
  BY RequestAssumption DEF Init, Seen, Rows
<1>3. [r \in Requests |-> Seen(loaded[r])] = [r \in Requests |-> None]
  BY DEF Init, Seen
<1>4. Promise!Rows = Rows /\ Requests \subseteq Rows
  BY DEF Rows, Promise!Rows
<1> QED  BY <1>1, <1>2, <1>3, <1>4 DEF Promise!Init, Init

\* The requests on a collection implement UserStore: a create or a delete
\* takes effect in the step that commits it, a patch in the one that reads the
\* item and the one that commits, on the items of its own identity; what was
\* answered before the commit is what is committed, or the request dies and
\* leaves no trace.
THEOREM RequestsImplementStore == Spec => ImplementsStore
<1>1. Init => Promise!Init
  BY InitIsPromiseInit
<1>2. IInv /\ [Next]_vars => [Promise!Next]_(Promise!vars)
  <2> SUFFICES ASSUME IInv, [Next]_vars
               PROVE  Promise!Next \/ UNCHANGED Promise!vars
    OBVIOUS
  <2>1. CASE UNCHANGED vars
    BY <2>1 DEF vars, Promise!vars, Seen, OwnerOf
  <2>2. ASSUME NEW r \in Requests, Start(r) \/ Statement(r) \/ Die(r)
        PROVE  Promise!Next \/ UNCHANGED Promise!vars
    <3>1. \/ Promise!Call(r) \/ Promise!See(r)
          \/ \E o \in Promise!Outcomes : Promise!Decide(r, o) \/ Promise!Answer(r, o)
          \/ UNCHANGED Promise!vars
      BY <2>2, StartCalls, SilentStatements, RefusedCreates, LoadsSee, LateWrites,
         AnswersAreTrue, CommitsDecide DEF Statement
    <3> QED  BY <3>1 DEF Promise!Next
  <2> QED  BY <2>1, <2>2 DEF Next
<1> QED  BY <1>1, <1>2, InductiveInvariant, PTL DEF Spec, ImplementsStore, Promise!Spec

=============================================================================
