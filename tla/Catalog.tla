------------------------------- MODULE Catalog -------------------------------
(***************************************************************************)
(* The catalogue as ProductDiscoveryService fills it                       *)
(* (backend/app/services/product_discovery_service.py): brands, products,  *)
(* identifiers, listings, sellers and price snapshots of one retailer,     *)
(* upserted by concurrent sessions - search requests and collection tasks. *)
(*                                                                         *)
(* Every upsert is a look-up followed by an INSERT.  The database is       *)
(* PostgreSQL at READ COMMITTED: a look-up sees what is committed and what *)
(* its own session flushed; an INSERT or UPDATE waits for the transaction  *)
(* that holds one of its unique keys, and an INSERT that then meets a      *)
(* committed key fails and takes the whole transaction with it.            *)
(*                                                                         *)
(* All rows have one shape: the unique keys they occupy, the row they      *)
(* belong to, and, for a price snapshot, when and from whom its price was  *)
(* observed.  Prices, texts, URLs and last_seen_at are not modelled.       *)
(***************************************************************************)
EXTENDS Naturals, Sequences, FiniteSets

CONSTANTS
    Sessions,   \* database sessions: one request or one task each
    Nobody,     \* no row, no seller, no brand
    Operations, \* what a session may be asked to persist (see Operation)
    MaxOps      \* bound: operations of each session

ASSUME BoundAssumption == MaxOps \in [Sessions -> Nat]

\* What is asked of a session: Nobody is no operation, a seller that is
\* described is the retailer itself or not, and the retailer's row has the
\* retailer_id of the offer as its slug or was found by its name.
ASSUME OperationAssumption ==
    /\ Nobody \notin Operations
    /\ \A o \in Operations :
         /\ o.do \in {"discover", "price", "availability"} /\ o.priced \in BOOLEAN
         /\ o.bySlug \in BOOLEAN
         /\ o.seller # Nobody => o.seller.first \in BOOLEAN

VARIABLES
    db,         \* the committed rows
    mine,       \* the flushed, uncommitted rows of each session
    touched,    \* unique keys of the committed rows it has updated
    pc,         \* where each session is
    count,      \* operations it has started
    op,         \* the current one
    i,          \* the position in its identifiers
    variant,    \* the variant resolved for it
    seller,     \* the seller resolved for it
    row,        \* the row it is about to insert
    next,       \* where it goes on after that
    company     \* history: another session was open at the same time

locals == <<op, i, variant, seller, row, next>>
vars   == <<db, mine, touched, pc, count, op, i, variant, seller, row, next,
            company>>

------------------------------------------------------------------------------
\* The seller of an offer as the retailer describes it: an external id or
\* none, and whether it is the retailer itself.
Described(external, first) == [external |-> external, first |-> first]

\* The unique keys of the tables.
BrandKeys(b) ==
    IF b = Nobody THEN {} ELSE {<<"brand_slug", b.slug>>, <<"brand_name", b.name>>}
IdentKey(g)        == <<"identifier", g>>
ListingKey(sku)    == <<"listing", sku>>
SnapKey(sku, t, u) == <<"snapshot", sku, t, u>>
SlugKeys(o)        == <<<<"slug", o.title>>, <<"slug", o.title, o.sku>>>>
\* Mutant: no unique index on the first-party seller.
MutSellerKeys(d) == {<<"seller", e>> : e \in {d.external} \ {Nobody}}

SellerKeys(d) ==
    {<<"seller", e>> : e \in {d.external} \ {Nobody}}
      \cup (IF d.first THEN {<<"first_party">>} ELSE {})

\* A row: kind, identity, unique keys, the row it refers to; of a snapshot the
\* time of the observation, and when and from whom its price was observed; of a
\* product, as history, the offer it was made for.
Row(kind, id, keys, of) ==
    [kind |-> kind, id |-> id, keys |-> keys, of |-> of,
     sku |-> Nobody, at |-> 0, seen |-> 0, by |-> Nobody]
Snapshot(id, sku, t, u, seen, by) ==
    [kind |-> "snapshot", id |-> id, keys |-> {SnapKey(sku, t, u)}, of |-> u,
     sku |-> sku, at |-> t, seen |-> seen, by |-> by]
Product(id, keys, o) ==
    [Row("product", id, keys, Nobody) EXCEPT !.sku = o.sku, !.by = o]
NoRow == Row("none", Nobody, {}, Nobody)

\* What session s sees, and the rows it finds under a key.
Visible(s) == db \cup mine[s]
Found(s, k) == {x \in Visible(s) : k \in x.keys}

\* Identities are generated (uuid4): never the same twice.
NewId(s, kind) == <<kind, s, count[s], i[s]>>

HeldKeys(s) == UNION {x.keys : x \in mine[s]} \cup touched[s]

\* The keys the next statement of s needs.
Wanted(s) ==
    CASE pc[s] = "add"   -> row[s].keys
      [] pc[s] = "touch" -> {ListingKey(op[s].sku)}
      [] OTHER           -> {}

WaitsFor(s, u) == s # u /\ Wanted(s) \cap HeldKeys(u) # {}
Blocked(s)     == \E u \in Sessions : WaitsFor(s, u)

Closed == {"closed", "committed", "failed", "rolled_back"}
Active(s) == pc[s] \notin Closed

Goto(s, where) == pc' = [pc EXCEPT ![s] = where]

\* The statement is an INSERT of x; afterwards the session goes on at `then`.
Insert(s, x, then) ==
    /\ row' = [row EXCEPT ![s] = x]
    /\ next' = [next EXCEPT ![s] = then]
    /\ Goto(s, "add")

------------------------------------------------------------------------------
Init ==
    /\ db = {}
    /\ mine = [s \in Sessions |-> {}]
    /\ touched = [s \in Sessions |-> {}]
    /\ pc = [s \in Sessions |-> "closed"]
    /\ count = [s \in Sessions |-> 0]
    /\ op = [s \in Sessions |-> Nobody]
    /\ i = [s \in Sessions |-> 1]
    /\ variant = [s \in Sessions |-> Nobody]
    /\ seller = [s \in Sessions |-> Nobody]
    /\ row = [s \in Sessions |-> NoRow]
    /\ next = [s \in Sessions |-> "ready"]
    /\ company = [s \in Sessions |-> FALSE]

\* A request or a task opens its session.
Begin(s) ==
    LET open == {u \in Sessions : Active(u)}
    IN  /\ pc[s] = "closed"
        /\ Goto(s, "ready")
        /\ company' = [u \in Sessions |->
                         company[u] \/ (open # {} /\ u \in open \cup {s})]
        /\ UNCHANGED <<db, mine, touched, count, locals>>

\* The next offer of a search result, or the next observation of a listing the
\* job has loaded.  A session does one kind of work: a request searches, a run
\* has one job type.
Start(s) ==
    /\ pc[s] = "ready"
    /\ count[s] < MaxOps[s]
    /\ \E o \in Operations :
          /\ op[s] # Nobody => o.do = op[s].do
          /\ o.do # "discover" => Found(s, ListingKey(o.sku)) # {}
          /\ op' = [op EXCEPT ![s] = o]
          /\ Goto(s, CASE o.do = "discover"     -> "brand"
                       [] o.do = "price"        -> "seller"
                       [] o.do = "availability" -> "latest")
    /\ count' = [count EXCEPT ![s] = @ + 1]
    /\ i' = [i EXCEPT ![s] = 1]
    /\ variant' = [variant EXCEPT ![s] = Nobody]
    /\ seller' = [seller EXCEPT ![s] = Nobody]
    /\ UNCHANGED <<db, mine, touched, row, next, company>>

\* Mutant: the brand is looked up by its slug alone.
MutUpsertBrand(s) ==
    LET b     == op[s].brand
        known == \A k \in BrandKeys(b) : k[1] = "brand_slug" => Found(s, k) # {}
    IN  /\ pc[s] = "brand"
        /\ \/ /\ known
              /\ Goto(s, "resolve")
              /\ UNCHANGED <<row, next>>
           \/ /\ ~known
              /\ Insert(s, Row("brand", NewId(s, "brand"), BrandKeys(b), Nobody),
                        "resolve")
        /\ UNCHANGED <<db, mine, touched, count, op, i, variant, seller, company>>

\* _upsert_brand: by slug, then by name.
UpsertBrand(s) ==
    LET b     == op[s].brand
        known == b = Nobody \/ \E k \in BrandKeys(b) : Found(s, k) # {}
    IN  /\ pc[s] = "brand"
        /\ \/ /\ known
              /\ Goto(s, "resolve")
              /\ UNCHANGED <<row, next>>
           \/ /\ ~known
              /\ Insert(s, Row("brand", NewId(s, "brand"), BrandKeys(b), Nobody),
                        "resolve")
        /\ UNCHANGED <<db, mine, touched, count, op, i, variant, seller, company>>

\* _resolve_variant, first part: the first identifier that is known decides.
ResolveByIdentifier(s) ==
    LET found == Found(s, IdentKey(op[s].idents[i[s]]))
    IN  /\ pc[s] = "resolve" /\ i[s] <= Len(op[s].idents)
        /\ \/ /\ found # {}
              /\ \E x \in found : variant' = [variant EXCEPT ![s] = x.of]
              /\ i' = [i EXCEPT ![s] = 1]
              /\ Goto(s, "attach")
           \/ /\ found = {}
              /\ i' = [i EXCEPT ![s] = @ + 1]
              /\ UNCHANGED <<variant, pc>>
        /\ UNCHANGED <<db, mine, touched, count, op, seller, row, next, company>>

\* Mutant: the listing is not consulted.
MutResolveByListing(s) ==
    /\ pc[s] = "resolve" /\ i[s] > Len(op[s].idents)
    /\ i' = [i EXCEPT ![s] = 1]
    /\ Goto(s, "product")
    /\ UNCHANGED <<db, mine, touched, count, op, variant, seller, row, next, company>>

\* Second part: the listing, if the retailer has shown this sku before.  It is
\* looked up under the retailer whose slug is the retailer_id; there is none
\* when _upsert_retailer found the row by the retailer's name.
ResolveByListing(s) ==
    LET found == IF op[s].bySlug THEN Found(s, ListingKey(op[s].sku)) ELSE {}
    IN  /\ pc[s] = "resolve" /\ i[s] > Len(op[s].idents)
        /\ i' = [i EXCEPT ![s] = 1]
        /\ \/ /\ found # {}
              /\ \E x \in found : variant' = [variant EXCEPT ![s] = x.of]
              /\ Goto(s, "attach")
           \/ /\ found = {}
              /\ Goto(s, "product")
              /\ UNCHANGED variant
        /\ UNCHANGED <<db, mine, touched, count, op, seller, row, next, company>>

\* _unique_product_slug: the title, the title with the sku, a random one.
FreeSlug(s) ==
    LET free == {n \in 1..2 : Found(s, SlugKeys(op[s])[n]) = {}}
    IN  IF 1 \in free THEN {SlugKeys(op[s])[1]}
        ELSE IF 2 \in free THEN {SlugKeys(op[s])[2]}
        ELSE {}

\* Third part: a new product with one variant.
NewProduct(s) ==
    LET id == NewId(s, "variant")
    IN  /\ pc[s] = "product"
        /\ variant' = [variant EXCEPT ![s] = id]
        /\ Insert(s, Product(id, FreeSlug(s), op[s]), "attach")
        /\ UNCHANGED <<db, mine, touched, count, op, i, seller, company>>

\* Mutant: a known identifier is met again and again.
MutAttachIdentifier(s) ==
    LET g     == op[s].idents[i[s]]
        known == Found(s, IdentKey(g)) # {}
    IN  /\ pc[s] = "attach" /\ i[s] <= Len(op[s].idents)
        /\ ~known
        /\ i' = [i EXCEPT ![s] = @ + 1]
        /\ Insert(s, Row("identifier", NewId(s, "identifier"), {IdentKey(g)},
                         variant[s]), "attach")
        /\ UNCHANGED <<db, mine, touched, count, op, variant, seller, company>>

\* _attach_identifiers: unknown ones are given to the variant; one that
\* belongs to another variant is left there (and logged).
AttachIdentifier(s) ==
    LET g == op[s].idents[i[s]]
    IN  /\ pc[s] = "attach" /\ i[s] <= Len(op[s].idents)
        /\ i' = [i EXCEPT ![s] = @ + 1]
        /\ \/ /\ Found(s, IdentKey(g)) = {}
              /\ Insert(s, Row("identifier", NewId(s, "identifier"), {IdentKey(g)},
                               variant[s]), "attach")
           \/ /\ Found(s, IdentKey(g)) # {}
              /\ UNCHANGED <<pc, row, next>>
        /\ UNCHANGED <<db, mine, touched, count, op, variant, seller, company>>

\* _upsert_listing: a listing that exists is updated, whatever its variant.
UpsertListing(s) ==
    LET sku == op[s].sku
    IN  /\ pc[s] = "attach" /\ i[s] > Len(op[s].idents)
        /\ \/ /\ Found(s, ListingKey(sku)) # {}
              /\ Goto(s, "touch")
              /\ UNCHANGED <<row, next>>
           \/ /\ Found(s, ListingKey(sku)) = {}
              /\ Insert(s, Row("listing", NewId(s, "listing"), {ListingKey(sku)},
                               variant[s]), "seller")
        /\ UNCHANGED <<db, mine, touched, count, op, i, variant, seller, company>>

\* The UPDATE of last_seen_at, url and is_active.
TouchListing(s) ==
    /\ pc[s] = "touch"
    /\ ~Blocked(s)
    /\ touched' = [touched EXCEPT ![s] = @ \cup Wanted(s)]
    /\ Goto(s, "seller")
    /\ UNCHANGED <<db, mine, count, locals, company>>

\* _upsert_seller: by external id, then the retailer's own; a third party
\* without an external id matches nothing and is inserted.
UpsertSeller(s) ==
    LET d     == op[s].seller
        byId  == IF d.external = Nobody THEN {} ELSE Found(s, <<"seller", d.external>>)
        own   == IF d.first THEN Found(s, <<"first_party">>) ELSE {}
        found == IF byId # {} THEN byId ELSE own
        id    == NewId(s, "seller")
    IN  /\ pc[s] = "seller"
        /\ \/ /\ d = Nobody
              /\ Goto(s, "snapshot")
              /\ UNCHANGED <<seller, row, next>>
           \/ /\ d # Nobody /\ found # {}
              /\ \E x \in found : seller' = [seller EXCEPT ![s] = x.id]
              /\ Goto(s, "snapshot")
              /\ UNCHANGED <<row, next>>
           \/ /\ d # Nobody /\ found = {}
              /\ seller' = [seller EXCEPT ![s] = id]
              /\ Insert(s, Row("seller", id, SellerKeys(d), Nobody), "snapshot")
        /\ UNCHANGED <<db, mine, touched, count, op, i, variant, company>>

\* A discovered offer with a price is shown; a job just goes on.
AfterSnapshot(s) == IF op[s].do = "discover" THEN "hit" ELSE "ready"

\* _persist_snapshot: nothing without a price; an observation that is already
\* there (same listing, time and seller) is reused.
PersistSnapshot(s) ==
    LET o    == op[s]
        here == Found(s, SnapKey(o.sku, o.at, seller[s]))
    IN  /\ pc[s] = "snapshot"
        /\ \/ /\ ~o.priced
              /\ Goto(s, "ready")
              /\ UNCHANGED <<row, next>>
           \/ /\ o.priced /\ here # {}
              /\ Goto(s, AfterSnapshot(s))
              /\ UNCHANGED <<row, next>>
           \/ /\ o.priced /\ here = {}
              /\ Insert(s, Snapshot(NewId(s, "snapshot"), o.sku, o.at, seller[s],
                                    o.at, o.seller), AfterSnapshot(s))
        /\ UNCHANGED <<db, mine, touched, count, op, i, variant, seller, company>>

\* The search result is assembled from the variant and the listing.
ShowHit(s) ==
    /\ pc[s] = "hit"
    /\ Goto(s, "ready")
    /\ UNCHANGED <<db, mine, touched, count, locals, company>>

------------------------------------------------------------------------------
\* Mutant: the latest snapshot of any listing.
MutLatestOf(s, sku) ==
    LET all == {x \in Visible(s) : x.kind = "snapshot"}
    IN  {x \in all : \A y \in all : y.at <= x.at}

\* The latest snapshots of a listing that s sees.
LatestOf(s, sku) ==
    LET all == {x \in Visible(s) : x.kind = "snapshot" /\ x.sku = sku}
    IN  {x \in all : \A y \in all : y.at <= x.at}

\* persist_availability_observation: the price is copied from the latest
\* snapshot; without one the job asks for a price instead, if the retailer
\* gives any (run_availability_refresh).
ReadLatest(s) ==
    LET o      == op[s]
        latest == LatestOf(s, o.sku)
    IN  /\ pc[s] = "latest"
        /\ \/ /\ latest = {}
              /\ Goto(s, IF o.priced THEN "seller" ELSE "ready")
              /\ UNCHANGED row
           \/ /\ \E x \in latest :
                    row' = [row EXCEPT ![s] = Snapshot(NewId(s, "snapshot"), o.sku,
                                                       o.at, x.of, x.seen, x.by)]
              /\ Goto(s, "copy")
        /\ UNCHANGED <<db, mine, touched, count, op, i, variant, seller, next, company>>

CopyLatest(s) ==
    /\ pc[s] = "copy"
    /\ \/ /\ \E k \in row[s].keys : Found(s, k) # {}
          /\ row' = [row EXCEPT ![s] = NoRow]
          /\ Goto(s, "ready")
          /\ UNCHANGED next
       \/ /\ \A k \in row[s].keys : Found(s, k) = {}
          /\ Insert(s, row[s], "ready")
    /\ UNCHANGED <<db, mine, touched, count, op, i, variant, seller, company>>

------------------------------------------------------------------------------
\* Mutant: the rollback is forgotten.
MutClose(s, how) ==
    /\ Goto(s, how)
    /\ UNCHANGED <<mine, touched, count, locals, company>>

\* The session is over: `how`.  Its rows are gone or committed.
Close(s, how) ==
    /\ Goto(s, how)
    /\ mine' = [mine EXCEPT ![s] = {}]
    /\ touched' = [touched EXCEPT ![s] = {}]
    /\ op' = [op EXCEPT ![s] = Nobody]
    /\ i' = [i EXCEPT ![s] = 1]
    /\ variant' = [variant EXCEPT ![s] = Nobody]
    /\ seller' = [seller EXCEPT ![s] = Nobody]
    /\ row' = [row EXCEPT ![s] = NoRow]
    /\ next' = [next EXCEPT ![s] = "ready"]
    /\ UNCHANGED <<count, company>>

Taken(s) == \E k \in row[s].keys : Found(s, k) # {}

\* BaseRepository.add: the row is flushed once nobody else holds its keys.
Add(s) ==
    /\ pc[s] = "add"
    /\ ~Blocked(s)
    /\ ~Taken(s)
    /\ mine' = [mine EXCEPT ![s] = @ \cup {row[s]}]
    /\ row' = [row EXCEPT ![s] = NoRow]
    /\ next' = [next EXCEPT ![s] = "ready"]
    /\ Goto(s, next[s])
    /\ UNCHANGED <<db, touched, count, op, i, variant, seller, company>>

\* A unique key is violated: the transaction is lost, and with it the request
\* (get_db) or the run (the task's commit finds a dead session).
AddFails(s) ==
    /\ pc[s] = "add"
    /\ ~Blocked(s)
    /\ Taken(s)
    /\ Close(s, "failed")
    /\ UNCHANGED db

\* The database breaks a circle of waiting transactions.
DeadlockVictim(s) ==
    /\ \E C \in SUBSET Sessions :
          /\ s \in C
          /\ \A u \in C : (\E v \in C : WaitsFor(u, v)) /\ (\E v \in C : WaitsFor(v, u))
    /\ Close(s, "failed")
    /\ UNCHANGED db

\* get_db after the request, the task after its run.
Commit(s) ==
    /\ pc[s] = "ready"
    /\ db' = db \cup mine[s]
    /\ Close(s, "committed")

\* Whatever else ends a session early: an exception, a time limit, a crash.
Abandon(s) ==
    /\ Active(s)
    /\ Close(s, "rolled_back")
    /\ UNCHANGED db

Step(s) ==
    \/ Start(s)
    \/ UpsertBrand(s) \/ ResolveByIdentifier(s) \/ ResolveByListing(s)
    \/ NewProduct(s) \/ AttachIdentifier(s) \/ UpsertListing(s) \/ TouchListing(s)
    \/ UpsertSeller(s) \/ PersistSnapshot(s) \/ ShowHit(s)
    \/ ReadLatest(s) \/ CopyLatest(s)
    \/ Add(s) \/ AddFails(s) \/ DeadlockVictim(s) \/ Commit(s)

\* Nothing is left to do.
Idle ==
    /\ \A s \in Sessions : pc[s] \in {"committed", "failed", "rolled_back"}
    /\ UNCHANGED vars

Next == (\E s \in Sessions : Begin(s) \/ Step(s) \/ Abandon(s)) \/ Idle

Spec == Init /\ [][Next]_vars

\* An open session keeps executing statements; nothing opens or abandons one.
FairSpec == Spec /\ \A s \in Sessions : WF_vars(Step(s))

------------------------------------------------------------------------------
(* Properties                                                              *)

\* Type invariant; only an open session keeps others waiting.
TypeOK ==
    /\ \A s \in Sessions :
          /\ pc[s] \in Closed \cup {"ready", "brand", "resolve", "product", "attach",
                                     "touch", "seller", "snapshot", "hit", "latest",
                                     "copy", "add"}
          /\ count[s] \in 0..MaxOps[s]
          /\ op[s] \in Operations \cup {Nobody}
          /\ company[s] \in BOOLEAN
          /\ pc[s] \in Closed => HeldKeys(s) = {} /\ op[s] = Nobody /\ row[s] = NoRow
          /\ pc[s] \in {"add", "copy"} => row[s] # NoRow
    /\ \A x \in db : \A y \in db : x.keys \cap y.keys # {} => x = y

Snapshots == {x \in db : x.kind = "snapshot"}

\* The look-ups before each INSERT cover every unique key of the table: a
\* session that has the database to itself never violates one, so only a race
\* can cost a request or a run its work (_upsert_*, _unique_product_slug).
OnlyRacesFail == \A s \in Sessions : pc[s] = "failed" => company[s]

\* A product is created for a listing.  Unless another session was open as
\* well, the offer it was made for has a committed listing, and it is a listing
\* of this product, or the retailer's row was found by its name and the listing
\* was there before (_resolve_variant, _upsert_listing).
OnlyRacesOrphan ==
    \A p \in db :
      p.kind = "product" =>
        \/ company[p.id[2]]
        \/ \E x \in db : /\ ListingKey(p.sku) \in x.keys
                         /\ p.by.bySlug => x.of = p.id

\* "Never invents a price": a copied price was observed, at that time, on that
\* listing and from that seller (persist_availability_observation).
EveryPriceWasObserved ==
    \A x \in Snapshots :
      \E y \in Snapshots :
        /\ y.sku = x.sku /\ y.of = x.of /\ y.by = x.by
        /\ y.at = x.seen /\ y.seen = y.at

\* An observation of a seller that can be told apart is stored once, however
\* many sessions bring it (_persist_snapshot, uq_price_snapshots_dedupe).
StoredOnce ==
    \A x \in Snapshots : \A y \in Snapshots :
      /\ x.sku = y.sku /\ x.at = y.at /\ x.by = y.by
      /\ x.by # Nobody => x.by.external # Nobody \/ x.by.first
      => x = y

\* The sessions that are opened all end: waiting for keys comes to an end, a
\* circle of waits is broken, and no loop over identifiers goes on for ever.
SessionsEnd == <>[](\A s \in Sessions : ~Active(s))
==============================================================================
