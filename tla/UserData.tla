------------------------------ MODULE UserData ------------------------------
(***************************************************************************)
(* Authenticated requests on the per-user collections: get_current_user    *)
(* (the user row is made on the first request), then one operation of      *)
(* AlertService, TargetPriceService, WatchlistService or                   *)
(* SavedProductService, in one transaction that get_db commits on success  *)
(* and rolls back on every exception.                                      *)
(*                                                                         *)
(* One action is one statement.  The database is READ COMMITTED with       *)
(* unique constraints and row locks: a statement sees the committed rows   *)
(* and its own transaction's, an INSERT waits for a transaction that has   *)
(* written its key, an UPDATE or DELETE for one that has written its row.  *)
(* The four collections differ in their columns only; the alert, with two, *)
(* stands for all.                                                         *)
(***************************************************************************)
EXTENDS Naturals, FiniteSets

CONSTANTS Identities, Products, Catalogued, Requests, IdentityOf, Old,
          Thresholds, None,
          First,    \* the threshold of the item that may be there from the beginning
          EmailOf,  \* the email claim in each request's token
          Asks,     \* per request: what its client may ask for
          MaxDeaths \* bound: requests that die

Rows == Requests \cup {Old}

\* What the columns hold; a change leaves out the columns that stay.
UserRow == [identity : Identities, email : {EmailOf[r] : r \in Requests}]
ItemRow == [owner : Rows, product : Products,
            threshold : Thresholds, enabled : BOOLEAN]
Change == [threshold : Thresholds \cup {None}, enabled : BOOLEAN \cup {None}]

Operation ==
    [kind : {"create"}, product : Products, threshold : Thresholds,
     enabled : BOOLEAN]
    \cup [kind : {"patch"}, row : Rows, threshold : Thresholds \cup {None},
          enabled : BOOLEAN \cup {None}]
    \cup [kind : {"delete"}, row : Rows]

Outcomes == {"created", "updated", "deleted", "not_found", "conflict", "failed"}

\* What a transaction has written.
Transaction == [user : BOOLEAN, email : BOOLEAN, insert : ItemRow \cup {None},
                update : Change \cup {None}, delete : Rows \cup {None}]

ASSUME RequestAssumption == /\ IdentityOf \in [Requests -> Identities]
                            /\ Old \notin Requests
                            /\ Catalogued \subseteq Products /\ First \in Thresholds
                            /\ Asks \in [Requests -> SUBSET Operation]

\* None is no value of any column, nor a row, an operation or an outcome.
ASSUME NoneAssumption ==
    /\ None \notin Rows /\ None \notin Identities /\ None \notin Thresholds
    /\ None \notin BOOLEAN /\ None \notin Outcomes
    /\ None \notin UserRow /\ None \notin Change /\ None \notin Operation
    /\ None \notin [owner : Rows \cup Identities, product : Products,
                    threshold : Thresholds, enabled : BOOLEAN]

VARIABLES
    users,    \* users, by id: identity and email
    items,    \* the collection, by id
    pc,       \* per request: its next statement
    op,       \* per request: its operation
    me,       \* per request: the user row it found or made
    loaded,   \* per patch: the item it has read
    pending,  \* per request: what its transaction has written
    decided,  \* per request: its outcome, or None
    told      \* per request: the outcome that its client was sent, or None

vars == <<users, items, pc, op, me, loaded, pending, decided, told>>

Nothing == [user |-> FALSE, email |-> FALSE, insert |-> None, update |-> None,
            delete |-> None]

------------------------------------------------------------------------------
Account(identity) == {u \in Rows : users[u] # None /\ users[u].identity = identity}
ItemsOf(u, p) == {row \in Rows : /\ items[row] # None
                                 /\ items[row].owner = u /\ items[row].product = p}

Others(r) == Requests \ {r}

\* Who has written the unique key of a user or of an item, or an item's row.
UserKeyHeld(r) ==
    \E o \in Others(r) : pending[o].user /\ IdentityOf[o] = IdentityOf[r]
EmailHeld(r) == \E o \in Others(r) : pending[o].email /\ me[o] = me[r]
RowHeld(r, row) ==
    \E o \in Others(r) : \/ pending[o].update # None /\ op[o].row = row
                         \/ pending[o].delete = row
ItemKeyHeld(r, p) ==
    \/ \E o \in Others(r) : /\ pending[o].insert # None
                            /\ me[o] = me[r] /\ pending[o].insert.product = p
    \/ \E row \in ItemsOf(me[r], p), o \in Others(r) : pending[o].delete = row

------------------------------------------------------------------------------
\* Nobody is there yet, or one user with an item.
Init ==
    /\ \/ /\ users = [u \in Rows |-> None]
          /\ items = [row \in Rows |-> None]
       \/ \E r \in Requests, p \in Catalogued :
            /\ users = [u \in Rows |-> IF u = Old
                        THEN [identity |-> IdentityOf[r], email |-> EmailOf[r]] ELSE None]
            /\ items = [row \in Rows |-> IF row = Old
                        THEN [owner |-> Old, product |-> p, threshold |-> First,
                              enabled |-> TRUE] ELSE None]
    /\ pc = [r \in Requests |-> "idle"]
    /\ op = [r \in Requests |-> None] /\ me = [r \in Requests |-> None]
    /\ loaded = [r \in Requests |-> None]
    /\ pending = [r \in Requests |-> Nothing]
    /\ decided = [r \in Requests |-> None]
    /\ told = [r \in Requests |-> None]

GoTo(r, label) == pc' = [pc EXCEPT ![r] = label]

\* An exception: the outcome is known, the transaction will be rolled back.
Refuse(r, outcome) == /\ decided' = [decided EXCEPT ![r] = outcome]
                      /\ GoTo(r, "rollback")

\* What a client asks for; item ids are those it can have been shown.
Asked(r) == {o \in Asks[r] : o.kind \in {"patch", "delete"} => items[o.row] # None}

\* A request comes in with a verified identity: get_or_create_from_identity
\* looks its user up by clerk_user_id.
Start(r) ==
    /\ pc[r] = "idle"
    /\ \E o \in Asked(r) : op' = [op EXCEPT ![r] = o]
    /\ \/ /\ Account(IdentityOf[r]) = {} /\ GoTo(r, "insert_user")
          /\ UNCHANGED me
       \/ \E u \in Account(IdentityOf[r]) :
            /\ me' = [me EXCEPT ![r] = u]
            /\ GoTo(r, IF users[u].email = EmailOf[r] THEN "look_up" ELSE "sync")
    /\ UNCHANGED <<users, items, loaded, pending, decided, told>>

\* Mutant: the loser of the race goes on with the row it could not insert.
MutInsertUser(r) ==
    /\ pc[r] = "insert_user" /\ ~UserKeyHeld(r) /\ GoTo(r, "look_up")
    /\ me' = [me EXCEPT ![r] = r]
    /\ pending' = [pending EXCEPT ![r].user = TRUE]
    /\ UNCHANGED <<users, items, op, loaded, decided, told>>

\* create_from_identity, and the preference row of a user nobody else knows
\* yet.  Who loses the race reads the winner's row.
InsertUser(r) ==
    /\ pc[r] = "insert_user" /\ ~UserKeyHeld(r) /\ GoTo(r, "look_up")
    /\ \/ /\ Account(IdentityOf[r]) = {}
          /\ me' = [me EXCEPT ![r] = r]
          /\ pending' = [pending EXCEPT ![r].user = TRUE]
       \/ \E u \in Account(IdentityOf[r]) :
            me' = [me EXCEPT ![r] = u] /\ UNCHANGED pending
    /\ UNCHANGED <<users, items, op, loaded, decided, told>>

\* _sync_profile_fields; the email stands for the synchronised columns.
SyncProfile(r) ==
    /\ pc[r] = "sync" /\ ~EmailHeld(r) /\ GoTo(r, "look_up")
    /\ pending' = [pending EXCEPT ![r].email = TRUE]
    /\ UNCHANGED <<users, items, op, me, loaded, decided, told>>

------------------------------------------------------------------------------
\* create_for_user: the product and the item are looked up, ...
LookUpProduct(r) ==
    /\ pc[r] = "look_up" /\ op[r].kind = "create"
    /\ \/ op[r].product \notin Catalogued /\ Refuse(r, "not_found")
       \/ /\ op[r].product \in Catalogued
          /\ ItemsOf(me[r], op[r].product) # {} /\ Refuse(r, "conflict")
       \/ /\ op[r].product \in Catalogued
          /\ ItemsOf(me[r], op[r].product) = {} /\ GoTo(r, "insert")
          /\ UNCHANGED decided
    /\ UNCHANGED <<users, items, op, me, loaded, pending, told>>

\* ... and the item is inserted in a savepoint.
InsertItem(r) ==
    /\ pc[r] = "insert" /\ ~ItemKeyHeld(r, op[r].product)
    /\ \/ /\ ItemsOf(me[r], op[r].product) # {} /\ Refuse(r, "conflict")
          /\ UNCHANGED pending
       \/ /\ ItemsOf(me[r], op[r].product) = {} /\ GoTo(r, "commit")
          /\ pending' = [pending EXCEPT ![r].insert =
               [owner |-> me[r], product |-> op[r].product,
                threshold |-> op[r].threshold, enabled |-> op[r].enabled]]
          /\ UNCHANGED decided
    /\ UNCHANGED <<users, items, op, me, loaded, told>>

\* Mutant: the whole row is written back as it was read.
MutChanges(o, item) ==
    [threshold |-> IF o.threshold = None THEN item.threshold ELSE o.threshold,
     enabled   |-> IF o.enabled = None THEN item.enabled ELSE o.enabled]

\* The UPDATE sets the columns that differ from what was read, no others.
Changes(o, item) ==
    [threshold |-> IF o.threshold = item.threshold THEN None ELSE o.threshold,
     enabled   |-> IF o.enabled = item.enabled THEN None ELSE o.enabled]

NoChanges == [threshold |-> None, enabled |-> None]

\* get_for_user of update_for_user and delete_for_user: the caller's own item.
\* An update that changes nothing sends no statement.
LoadItem(r) ==
    /\ pc[r] = "look_up" /\ op[r].kind \in {"patch", "delete"}
    /\ LET row == op[r].row
           mine == items[row] # None /\ items[row].owner = me[r]
           delete == op[r].kind = "delete"
           still == Changes(op[r], items[row]) = NoChanges
       IN \/ ~mine /\ Refuse(r, "not_found") /\ UNCHANGED loaded
          \/ /\ mine /\ delete /\ GoTo(r, "delete")
             /\ UNCHANGED <<loaded, decided>>
          \/ /\ mine /\ ~delete /\ ~still /\ GoTo(r, "update")
             /\ loaded' = [loaded EXCEPT ![r] = items[row]] /\ UNCHANGED decided
          \/ /\ mine /\ ~delete /\ still /\ GoTo(r, "commit")
             /\ decided' = [decided EXCEPT ![r] = "updated"] /\ UNCHANGED loaded
    /\ UNCHANGED <<users, items, op, me, pending, told>>

\* The flush of update_for_user.  An UPDATE that finds no row raises.
UpdateItem(r) ==
    /\ pc[r] = "update" /\ ~RowHeld(r, op[r].row)
    /\ \/ items[op[r].row] = None /\ Refuse(r, "failed") /\ UNCHANGED pending
       \/ /\ items[op[r].row] # None /\ GoTo(r, "commit")
          /\ pending' = [pending EXCEPT ![r].update = Changes(op[r], loaded[r])]
          /\ UNCHANGED decided
    /\ UNCHANGED <<users, items, op, me, loaded, told>>

\* delete_for_user.  A DELETE that finds no row is only warned about.
DeleteItem(r) ==
    /\ pc[r] = "delete" /\ ~RowHeld(r, op[r].row) /\ GoTo(r, "commit")
    /\ \/ /\ items[op[r].row] = None
          /\ decided' = [decided EXCEPT ![r] = "deleted"] /\ UNCHANGED pending
       \/ /\ items[op[r].row] # None
          /\ pending' = [pending EXCEPT ![r].delete = op[r].row] /\ UNCHANGED decided
    /\ UNCHANGED <<users, items, op, me, loaded, told>>

------------------------------------------------------------------------------
(* get_db.                                                                 *)

Done == [create |-> "created", patch |-> "updated", delete |-> "deleted"]

ItemAfter(row, r) ==
    LET w == pending[r] IN
    CASE w.insert # None /\ row = r -> w.insert
      [] w.update # None /\ row = op[r].row ->
           [items[row] EXCEPT
              !.threshold = IF w.update.threshold = None THEN @ ELSE w.update.threshold,
              !.enabled = IF w.update.enabled = None THEN @ ELSE w.update.enabled]
      [] w.delete = row -> None
      [] OTHER -> items[row]

Outcome(r) == IF decided[r] = None THEN Done[op[r].kind] ELSE decided[r]

\* FastAPI runs what follows the yield of get_db before it sends the response
\* (releases before 0.118), or after it: pyproject.toml allows both, and so an
\* outcome may be answered before the commit.  A refusal is answered after it.
Answer(r) ==
    /\ pc[r] \in {"commit", "closed"} /\ told[r] = None
    /\ told' = [told EXCEPT ![r] = Outcome(r)]
    /\ UNCHANGED <<users, items, pc, op, me, loaded, pending, decided>>

Commit(r) ==
    /\ pc[r] = "commit" /\ GoTo(r, "closed")
    /\ users' = [u \in Rows |->
         CASE pending[r].user /\ u = r -> [identity |-> IdentityOf[r], email |-> EmailOf[r]]
           [] pending[r].email /\ u = me[r] -> [users[u] EXCEPT !.email = EmailOf[r]]
           [] OTHER -> users[u]]
    /\ items' = [row \in Rows |-> ItemAfter(row, r)]
    /\ decided' = [decided EXCEPT ![r] = Outcome(r)]
    /\ pending' = [pending EXCEPT ![r] = Nothing]
    /\ UNCHANGED <<op, me, loaded, told>>

\* Mutant: a refused request leaves its transaction open.
MutRollback(r) ==
    /\ pc[r] = "rollback" /\ GoTo(r, "closed")
    /\ UNCHANGED <<users, items, op, me, loaded, pending, decided, told>>

Rollback(r) ==
    /\ pc[r] = "rollback" /\ GoTo(r, "closed")
    /\ pending' = [pending EXCEPT ![r] = Nothing]
    /\ UNCHANGED <<users, items, op, me, loaded, decided, told>>

\* The process or the connection dies: a transaction that is not committed is
\* gone, also that of a request whose client was already told its outcome.
Die(r) ==
    /\ pc[r] \notin {"idle", "dead"} /\ (pc[r] = "closed" => told[r] = None)
    /\ Cardinality({o \in Requests : pc[o] = "dead"}) < MaxDeaths
    /\ GoTo(r, "dead")
    /\ pending' = [pending EXCEPT ![r] = Nothing]
    /\ UNCHANGED <<users, items, op, me, loaded, decided, told>>

------------------------------------------------------------------------------
Statement(r) ==
    \/ InsertUser(r) \/ SyncProfile(r)
    \/ LookUpProduct(r) \/ InsertItem(r)
    \/ LoadItem(r) \/ UpdateItem(r) \/ DeleteItem(r)
    \/ Answer(r) \/ Commit(r) \/ Rollback(r)

Next == \E r \in Requests : Start(r) \/ Statement(r) \/ Die(r)

Spec == Init /\ [][Next]_vars

\* Some thread goes on as long as one is not waiting for a lock; none is
\* preferred.
FairSpec == Spec /\ WF_vars(\E r \in Requests : Statement(r))

------------------------------------------------------------------------------
\* One user row per identity and one item per user and product, although the
\* code looks first and inserts later (user_repository.py, *_service.py).
OneOfEach ==
    /\ \A i \in Identities : Cardinality(Account(i)) <= 1
    /\ \A u \in Rows, p \in Products : Cardinality(ItemsOf(u, p)) <= 1

\* The items as the owner's identity sees them.
OwnerOf(u) == IF users[u] = None THEN None ELSE users[u].identity

Seen(item) == IF item = None THEN None
              ELSE [item EXCEPT !.owner = OwnerOf(item.owner)]

Promise == INSTANCE UserStore WITH
    store <- [row \in Rows |-> Seen(items[row])],
    called <- op,
    seen <- [r \in Requests |-> Seen(loaded[r])]

\* A create, a delete and the write of a patch take effect in one step, on the
\* items of the request's own identity, and a patch sets what differs from the
\* item as it was when it read it; whatever is answered, before the commit or
\* after it, is what the request then does, if it does not die before.
ImplementsStore == Promise!Spec

\* Whatever locks the others hold, a request ends and is answered unless it
\* dies, and no two of them wait for each other.
EveryRequestEnds ==
    \A r \in Requests :
      pc[r] # "idle" ~> (pc[r] = "closed" /\ told[r] # None) \/ pc[r] = "dead"
==============================================================================
