------------------------------ MODULE UserStore ------------------------------
(***************************************************************************)
(* What the per-user collections (watchlist, saved products, target        *)
(* prices, alerts) promise to a client: at most one item per product, and  *)
(* requests that touch the items of their own identity only.  A create and *)
(* a delete take effect in one step.  A patch has two: it reads the item,  *)
(* and later sets the columns that differ from what it read, so two        *)
(* patches of one item may leave what no order of them would.  An answer   *)
(* may come before the effect; the effect is then the answered one, or     *)
(* never happens.                                                          *)
(***************************************************************************)
CONSTANTS
    Identities, Products,
    Catalogued,   \* the products that exist
    Requests,
    IdentityOf,   \* the verified identity behind each request
    Old,          \* the id of an item that may be there from the beginning
    Thresholds,   \* what an item can hold (threshold_amount, amount)
    None

Rows == Requests \cup {Old}   \* item ids: the request that created the item

Item == [owner : Identities, product : Products,
         threshold : Thresholds, enabled : BOOLEAN]

Operation ==
    [kind : {"create"}, product : Products, threshold : Thresholds,
     enabled : BOOLEAN]
    \cup [kind : {"patch"}, row : Rows, threshold : Thresholds \cup {None},
          enabled : BOOLEAN \cup {None}]
    \cup [kind : {"delete"}, row : Rows]

VARIABLES store,     \* per id: the item, or None
          called,    \* per request: its operation, or None
          seen,      \* per patch: the item it has read, or None
          decided,   \* per request: the outcome it has had, or None
          told       \* per request: the outcome that was answered, or None

vars == <<store, called, seen, decided, told>>

Mine(r, row) == store[row] # None /\ store[row].owner = IdentityOf[r]

Taken(r) == \E row \in Rows : Mine(r, row) /\ store[row].product = called[r].product

\* The outcomes that are true of the store as it is.  Who deletes what is gone
\* already may be told that it did, and a patch of it may fail.
Effects == {"created", "updated", "deleted"}

Fits(r, outcome) ==
    LET op == called[r] IN
    \/ /\ op.kind = "create"
       /\ \/ outcome = "not_found" /\ op.product \notin Catalogued
          \/ outcome = "conflict" /\ Taken(r)
          \/ outcome = "created" /\ op.product \in Catalogued /\ ~Taken(r)
    \/ /\ op.kind = "patch"
       /\ \/ outcome \in {"not_found", "failed"} /\ ~Mine(r, op.row)
          \/ outcome = "updated" /\ Mine(r, op.row)
    \/ /\ op.kind = "delete"
       /\ \/ outcome = "not_found" /\ ~Mine(r, op.row)
          \/ outcome = "deleted"

\* A column that the patch leaves out, or that it saw with this value, stays.
Column(given, read, now) == IF given \in {None, read} THEN now ELSE given

Patched(op, item, read) ==
    [item EXCEPT !.threshold = Column(op.threshold, read.threshold, @),
                 !.enabled = Column(op.enabled, read.enabled, @)]

After(r, outcome) ==
    LET op == called[r] IN
    CASE outcome = "created" ->
           [store EXCEPT ![r] = [owner |-> IdentityOf[r], product |-> op.product,
                                 threshold |-> op.threshold, enabled |-> op.enabled]]
      [] outcome = "updated" ->
           [store EXCEPT ![op.row] =
              Patched(op, @, IF seen[r] = None THEN @ ELSE seen[r])]
      [] outcome = "deleted" /\ Mine(r, op.row) -> [store EXCEPT ![op.row] = None]
      [] OTHER -> store

-----------------------------------------------------------------------------
Init == /\ store \in [Rows -> Item \cup {None}]
        /\ \A row \in Requests : store[row] = None
        /\ called = [r \in Requests |-> None]
        /\ seen = [r \in Requests |-> None]
        /\ decided = [r \in Requests |-> None]
        /\ told = [r \in Requests |-> None]

Call(r) == /\ called[r] = None
           /\ \E op \in Operation : called' = [called EXCEPT ![r] = op]
           /\ UNCHANGED <<store, seen, decided, told>>

See(r) == /\ called[r] # None /\ called[r].kind = "patch"
          /\ decided[r] = None /\ seen[r] = None /\ Mine(r, called[r].row)
          /\ seen' = [seen EXCEPT ![r] = store[called[r].row]]
          /\ UNCHANGED <<store, called, decided, told>>

Decide(r, outcome) ==
    /\ called[r] # None /\ decided[r] = None /\ told[r] \in {None, outcome}
    /\ Fits(r, outcome)
    /\ decided' = [decided EXCEPT ![r] = outcome]
    /\ store' = After(r, outcome)
    /\ UNCHANGED <<called, seen, told>>

\* What has happened, or what can happen now.
Answer(r, outcome) ==
    /\ called[r] # None /\ told[r] = None
    /\ \/ decided[r] = outcome
       \/ decided[r] = None /\ outcome \in Effects /\ Fits(r, outcome)
    /\ told' = [told EXCEPT ![r] = outcome]
    /\ UNCHANGED <<store, called, seen, decided>>

Outcomes == Effects \cup {"not_found", "conflict", "failed"}

Next == \E r \in Requests :
          \/ Call(r) \/ See(r)
          \/ \E outcome \in Outcomes : Decide(r, outcome) \/ Answer(r, outcome)

Spec == Init /\ [][Next]_vars
==============================================================================
