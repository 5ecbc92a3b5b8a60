--------------------------- MODULE Catalog_proofs ---------------------------
(***************************************************************************)
(* What the identity of a product rests on: the rows that record it, and   *)
(* the matching engine that compares listings.                             *)
(*                                                                         *)
(* For any number of sessions and operations, the catalogue's unique keys  *)
(* hold, only a race costs a session its work or leaves a product without  *)
(* a listing, every price was observed, and an observation is stored once. *)
(*                                                                         *)
(* For all listings, similarities, thresholds and weights, the verdict on  *)
(* a pair does not depend on who is asked about whom, no similarity makes  *)
(* a merge, no identifier in common prevents one, and what one side alone  *)
(* states decides nothing.                                                 *)
(***************************************************************************)
EXTENDS Catalog, ListingMatch, WellFoundedInduction, TLAPS

Labels == Closed \cup {"ready", "brand", "resolve", "product", "attach", "touch",
                       "seller", "snapshot", "hit", "latest", "copy", "add"}

\* The variables of the sessions are functions.
Functions ==
    /\ pc \in [Sessions -> Labels]
    /\ count \in [Sessions -> Nat]
    /\ company \in [Sessions -> BOOLEAN]
    /\ mine = [s \in Sessions |-> mine[s]] /\ touched = [s \in Sessions |-> touched[s]]
    /\ op = [s \in Sessions |-> op[s]] /\ i = [s \in Sessions |-> i[s]]
    /\ variant = [s \in Sessions |-> variant[s]] /\ seller = [s \in Sessions |-> seller[s]]
    /\ row = [s \in Sessions |-> row[s]] /\ next = [s \in Sessions |-> next[s]]

SessionOK(s) ==
    /\ count[s] \in 0..MaxOps[s]
    /\ op[s] \in Operations \cup {Nobody}
    /\ next[s] \in {"ready", "resolve", "attach", "seller", "snapshot", "hit"}
    /\ pc[s] \in Closed => mine[s] = {} /\ touched[s] = {} /\ op[s] = Nobody
    /\ pc[s] \notin {"add", "copy"} => row[s] = NoRow
    /\ pc[s] \notin Closed \cup {"ready"} => op[s] # Nobody
    /\ pc[s] \in {"add", "copy"} => row[s].kind # "none"
    /\ pc[s] = "copy" => row[s].kind = "snapshot"

\* The unique keys: no two rows share one, committed or not.
UniqueIn(S) == \A x, y \in S : x.keys \cap y.keys # {} => x = y
KeyInv ==
    /\ UniqueIn(db)
    /\ \A s \in Sessions : UniqueIn(Visible(s))
    /\ \A s, u \in Sessions : s # u =>
         \A x \in mine[s], y \in mine[u] : x.keys \cap y.keys = {}

\* A session without company found all the keys free that it is about to
\* insert, and nobody has taken them since.
CompanyInv ==
    /\ \A s, u \in Sessions : s # u /\ Active(s) /\ Active(u) => company[s]
    /\ \A s \in Sessions : pc[s] = "add" /\ ~company[s] => ~Taken(s)
    /\ OnlyRacesFail

\* Where the price of a snapshot comes from.
Observed(x, S) ==
    \E y \in S : /\ y.kind = "snapshot" /\ y.sku = x.sku /\ y.of = x.of /\ y.by = x.by
                 /\ y.at = x.seen /\ y.seen = y.at
PriceInv ==
    /\ \A x \in db : x.kind = "snapshot" => Observed(x, db)
    /\ \A s \in Sessions :
         /\ \A x \in mine[s] : x.kind = "snapshot" => Observed(x, Visible(s))
         /\ row[s].kind = "snapshot" =>
              row[s].seen = row[s].at \/ Observed(row[s], Visible(s))

\* A product without a listing is the one its session is making, on the way
\* from _resolve_variant to _upsert_listing.
Listed(p, S) ==
    \E x \in S : ListingKey(p.sku) \in x.keys /\ (p.by.bySlug => x.of = p.id)
Unlisted(s) == Found(s, ListingKey(op[s].sku)) = {}
Making(s) ==
    \/ pc[s] = "attach" /\ Unlisted(s)
    \/ pc[s] = "add" /\ next[s] = "attach" /\ row[s].kind = "identifier" /\ Unlisted(s)
    \/ /\ pc[s] = "add" /\ row[s].kind = "listing" /\ row[s].of = variant[s]
       /\ ListingKey(op[s].sku) \in row[s].keys
Makes(p, s) == variant[s] = p.id /\ op[s].sku = p.sku /\ Making(s)
OrphanOK(s) ==
    /\ \A p \in mine[s] : p.kind = "product" => p.id[2] = s
    /\ row[s].kind = "product" =>
         /\ row[s].id[2] = s /\ row[s].id = variant[s] /\ next[s] = "attach"
         /\ row[s].sku = op[s].sku /\ row[s].by = op[s]
    /\ pc[s] = "add" /\ row[s].kind \in {"product", "identifier"} =>
         ListingKey(op[s].sku) \notin row[s].keys
    /\ ~company[s] =>
         /\ pc[s] = "product" => (op[s].bySlug => Unlisted(s))
         /\ pc[s] = "add" /\ row[s].kind = "product" => (op[s].bySlug => Unlisted(s))
         /\ \A p \in mine[s] : p.kind = "product" => Listed(p, Visible(s)) \/ Makes(p, s)
OrphanInv ==
    /\ OnlyRacesOrphan
    /\ \A p \in db : p.kind = "product" => p.id[2] \in Sessions
    /\ \A s \in Sessions : OrphanOK(s)

IInv ==
    /\ Functions /\ (\A s \in Sessions : SessionOK(s))
    /\ KeyInv /\ CompanyInv /\ PriceInv /\ OrphanInv

-----------------------------------------------------------------------------
(* Observations of a seller that can be told apart.                        *)

\* No external id is that of the retailer itself and of somebody else.
SellersAreConsistent ==
    \A o, p \in Operations :
      /\ o.seller # Nobody /\ p.seller # Nobody
      /\ o.seller.external # Nobody /\ o.seller.external = p.seller.external
      => o.seller.first = p.seller.first

Identified(d) == d # Nobody /\ (d.external # Nobody \/ d.first)

\* The key under which the seller is found whatever else is known of it.
KeyOf(d) == IF d.first THEN <<"first_party">> ELSE <<"seller", d.external>>

Coherent(x) ==
    \A o \in Operations :
      o.seller # Nobody /\ o.seller.first /\ <<"seller", o.seller.external>> \in x.keys
        => <<"first_party">> \in x.keys

SoldBy(d, id, S) == /\ d = Nobody => id = Nobody
                    /\ Identified(d) => \E y \in S : y.id = id /\ KeyOf(d) \in y.keys

Traced(x, S) ==
    x.kind = "snapshot" => x.keys = {SnapKey(x.sku, x.at, x.of)} /\ SoldBy(x.by, x.of, S)

\* Before _upsert_seller no seller is known.
BeforeSeller(s) ==
    \/ pc[s] \in {"brand", "resolve", "product", "attach", "touch", "seller", "latest"}
    \/ pc[s] = "add" /\ next[s] \in {"resolve", "attach", "seller"}

SellerOK(s) ==
    /\ \A x \in mine[s] : Coherent(x) /\ Traced(x, Visible(s))
    /\ Coherent(row[s]) /\ Traced(row[s], Visible(s))
    /\ BeforeSeller(s) => seller[s] = Nobody
    /\ pc[s] = "snapshot" => SoldBy(op[s].seller, seller[s], Visible(s))
    /\ pc[s] = "add" /\ next[s] = "snapshot" =>
         /\ op[s].seller # Nobody /\ row[s].id = seller[s]
         /\ row[s].keys = SellerKeys(op[s].seller)

SellerInv ==
    /\ \A x \in db : Coherent(x) /\ Traced(x, db)
    /\ \A s \in Sessions : SellerOK(s)

-----------------------------------------------------------------------------
\* What a step of one session leaves alone: everything of the others, but that
\* they may have company now.
LEMMA OthersStay ==
    ASSUME Functions, NEW s \in Sessions, Begin(s) \/ Step(s) \/ Abandon(s),
           NEW u \in Sessions, u # s
    PROVE  /\ pc'[u] = pc[u] /\ count'[u] = count[u] /\ mine'[u] = mine[u]
           /\ touched'[u] = touched[u] /\ op'[u] = op[u] /\ i'[u] = i[u]
           /\ variant'[u] = variant[u] /\ seller'[u] = seller[u]
           /\ row'[u] = row[u] /\ next'[u] = next[u]
<1> USE DEF Functions, Goto, Insert, Close, locals
<1>1. CASE Begin(s)
  BY <1>1 DEF Begin
<1>2. CASE Abandon(s) \/ Commit(s) \/ DeadlockVictim(s) \/ AddFails(s)
  BY <1>2 DEF Abandon, Commit, DeadlockVictim, AddFails
<1>3. CASE Start(s)
  BY <1>3 DEF Start
<1>4. CASE UpsertBrand(s) \/ ResolveByIdentifier(s) \/ ResolveByListing(s)
  BY <1>4 DEF UpsertBrand, ResolveByIdentifier, ResolveByListing
<1>5. CASE NewProduct(s) \/ AttachIdentifier(s) \/ UpsertListing(s) \/ TouchListing(s)
  BY <1>5 DEF NewProduct, AttachIdentifier, UpsertListing, TouchListing
<1>6. CASE UpsertSeller(s) \/ PersistSnapshot(s) \/ ShowHit(s) \/ ReadLatest(s)
  BY <1>6 DEF UpsertSeller, PersistSnapshot, ShowHit, ReadLatest
<1>7. CASE CopyLatest(s) \/ Add(s)
  BY <1>7 DEF CopyLatest, Add
<1> QED  BY <1>1, <1>2, <1>3, <1>4, <1>5, <1>6, <1>7 DEF Step

\* The database grows by the rows of the session that commits.
LEMMA DatabaseGrows ==
    ASSUME Functions, NEW s \in Sessions, Begin(s) \/ Step(s) \/ Abandon(s)
    PROVE  \/ db' = db
           \/ db' = db \cup mine[s] /\ Commit(s)
BY DEF Step, Begin, Abandon, Commit, DeadlockVictim, AddFails, Start, UpsertBrand,
       ResolveByIdentifier, ResolveByListing, NewProduct, AttachIdentifier, UpsertListing,
       TouchListing, UpsertSeller, PersistSnapshot, ShowHit, ReadLatest, CopyLatest, Add

\* What an end of a session leaves of it.
LEMMA Ends ==
    ASSUME Functions, NEW s \in Sessions, NEW how \in Closed, Close(s, how)
    PROVE  /\ pc'[s] = how /\ mine'[s] = {} /\ touched'[s] = {} /\ op'[s] = Nobody
           /\ row'[s] = NoRow /\ next'[s] = "ready" /\ count' = count /\ company' = company
BY DEF Functions, Close, Goto

\* The look-ups: what a session has flushed stays as it is.
LookUp(s) ==
    \/ UpsertBrand(s) \/ ResolveByIdentifier(s) \/ ResolveByListing(s) \/ NewProduct(s)
    \/ AttachIdentifier(s) \/ UpsertListing(s) \/ UpsertSeller(s) \/ PersistSnapshot(s)
    \/ ShowHit(s) \/ ReadLatest(s) \/ CopyLatest(s)

LEMMA LookUpsRead ==
    ASSUME NEW s \in Sessions, LookUp(s)
    PROVE  /\ db' = db /\ mine' = mine /\ touched' = touched /\ count' = count /\ op' = op
           /\ company' = company
           /\ pc[s] \notin Closed \cup {"ready", "add", "touch"}
BY DEF LookUp, UpsertBrand, ResolveByIdentifier, ResolveByListing, NewProduct,
       AttachIdentifier, UpsertListing, UpsertSeller, PersistSnapshot, ShowHit, ReadLatest,
       CopyLatest, Closed, locals

\* Every step is a look-up or one of these.
LEMMA Steps ==
    ASSUME NEW s \in Sessions, Step(s)
    PROVE  \/ Start(s) \/ LookUp(s) \/ TouchListing(s) \/ Add(s)
           \/ AddFails(s) \/ DeadlockVictim(s) \/ Commit(s)
BY DEF Step, LookUp

\* Where a look-up leads.
LEMMA LookUpsLead ==
    ASSUME Functions, NEW s \in Sessions, SessionOK(s), LookUp(s)
    PROVE  /\ pc' \in [Sessions -> Labels]
           /\ i' = [u \in Sessions |-> i'[u]]
           /\ variant' = [u \in Sessions |-> variant'[u]]
           /\ seller' = [u \in Sessions |-> seller'[u]]
           /\ row' = [u \in Sessions |-> row'[u]] /\ next' = [u \in Sessions |-> next'[u]]
           /\ next'[s] \in {"ready", "resolve", "attach", "seller", "snapshot", "hit"}
           /\ pc'[s] \notin Closed
           /\ pc'[s] = "add" => row'[s].kind # "none"
           /\ pc'[s] = "copy" => row'[s].kind = "snapshot"
           /\ pc'[s] \notin {"add", "copy"} => row'[s] = NoRow
<1> USE DEF Functions, SessionOK, Goto, Insert, Labels, Closed
<1>1. CASE UpsertBrand(s)
  BY <1>1 DEF UpsertBrand, Row
<1>2. CASE ResolveByIdentifier(s) \/ ResolveByListing(s) \/ ShowHit(s)
  BY <1>2 DEF ResolveByIdentifier, ResolveByListing, ShowHit, locals
<1>3. CASE NewProduct(s)
  BY <1>3 DEF NewProduct, Product, Row
<1>4. CASE AttachIdentifier(s)
  <2>1. \/ pc' = pc /\ row' = row /\ next' = next
        \/ \E x : x.kind = "identifier" /\ Insert(s, x, "attach")
    BY <1>4 DEF AttachIdentifier, Row
  <2>2. /\ i' = [i EXCEPT ![s] = @ + 1] /\ variant' = variant /\ seller' = seller
        /\ pc[s] = "attach"
    BY <1>4 DEF AttachIdentifier
  <2> QED  BY SMTT(30), <2>1, <2>2
<1>5. CASE UpsertListing(s)
  <2>1. \/ Goto(s, "touch") /\ row' = row /\ next' = next
        \/ \E x : x.kind = "listing" /\ Insert(s, x, "seller")
    BY <1>5 DEF UpsertListing, Row
  <2>2. i' = i /\ variant' = variant /\ seller' = seller /\ pc[s] = "attach"
    BY <1>5 DEF UpsertListing
  <2> QED  BY <2>1, <2>2
<1>6. CASE UpsertSeller(s)
  BY <1>6 DEF UpsertSeller, Row
<1>7. CASE PersistSnapshot(s)
  BY <1>7 DEF PersistSnapshot, AfterSnapshot, Snapshot
<1>8. CASE ReadLatest(s)
  BY <1>8 DEF ReadLatest, Snapshot
<1>9. CASE CopyLatest(s)
  BY <1>9 DEF CopyLatest
<1> QED  BY <1>1, <1>2, <1>3, <1>4, <1>5, <1>6, <1>7, <1>8, <1>9 DEF LookUp

LEMMA FunctionsStep ==
    ASSUME Functions, NEW s \in Sessions, SessionOK(s), Begin(s) \/ Step(s) \/ Abandon(s)
    PROVE  Functions'
<1>1. CASE LookUp(s)
  BY <1>1, LookUpsLead, LookUpsRead DEF Functions
<1>2. CASE Begin(s)
  BY <1>2 DEF Begin, Functions, Goto, locals, Labels, Active
<1>3. CASE Start(s)
  <2>1. pc' \in [Sessions -> Labels]
    <3>1. \E label \in Labels : Goto(s, label)
      BY <1>3, OperationAssumption DEF Start, Labels
    <3> QED  BY <3>1 DEF Functions, Goto
  <2>2. /\ count' \in [Sessions -> Nat] /\ company' = company /\ mine' = mine
        /\ touched' = touched /\ row' = row /\ next' = next
    BY <1>3 DEF Start, Functions
  <2>3. /\ op' = [u \in Sessions |-> op'[u]] /\ i' = [u \in Sessions |-> i'[u]]
        /\ variant' = [u \in Sessions |-> variant'[u]]
        /\ seller' = [u \in Sessions |-> seller'[u]]
    BY <1>3 DEF Start, Functions
  <2> QED  BY <2>1, <2>2, <2>3 DEF Functions
<1>4. CASE TouchListing(s)
  BY <1>4 DEF TouchListing, Functions, Goto, locals, Labels
<1>5. CASE Add(s)
  BY <1>5 DEF Add, Functions, SessionOK, Goto, Labels
<1>6. CASE \E how \in Closed : Close(s, how)
  <2>1. pc' \in [Sessions -> Labels] /\ count' = count /\ company' = company
    BY <1>6 DEF Functions, Close, Goto, Labels
  <2>2. /\ mine' = [u \in Sessions |-> mine'[u]]
        /\ touched' = [u \in Sessions |-> touched'[u]]
        /\ op' = [u \in Sessions |-> op'[u]] /\ i' = [u \in Sessions |-> i'[u]]
    BY <1>6 DEF Functions, Close
  <2>3. /\ variant' = [u \in Sessions |-> variant'[u]]
        /\ seller' = [u \in Sessions |-> seller'[u]]
        /\ row' = [u \in Sessions |-> row'[u]] /\ next' = [u \in Sessions |-> next'[u]]
    BY <1>6 DEF Functions, Close
  <2> QED  BY <2>1, <2>2, <2>3 DEF Functions
<1>7. AddFails(s) \/ DeadlockVictim(s) \/ Commit(s) \/ Abandon(s) =>
        \E how \in Closed : Close(s, how)
  BY DEF AddFails, DeadlockVictim, Commit, Abandon, Closed
<1> QED  BY <1>1, <1>2, <1>3, <1>4, <1>5, <1>6, <1>7, Steps

LEMMA SessionStep ==
    ASSUME Functions, \A q \in Sessions : SessionOK(q),
           NEW s \in Sessions, Begin(s) \/ Step(s) \/ Abandon(s), NEW u \in Sessions
    PROVE  SessionOK(u)'
<1>0. MaxOps[u] \in Nat /\ Nobody \notin Operations
  BY BoundAssumption, OperationAssumption
<1>1. CASE u # s
  BY <1>1, OthersStay DEF SessionOK
<1>2. CASE u = s /\ LookUp(s)
  BY <1>2, LookUpsLead, LookUpsRead DEF SessionOK
<1>3. CASE u = s /\ Begin(s)
  BY <1>3 DEF Begin, SessionOK, Functions, Goto, locals, Closed
<1>4. CASE u = s /\ Start(s)
  <2>1. PICK o \in Operations : op' = [op EXCEPT ![s] = o]
    BY <1>4 DEF Start
  <2>2. op'[s] = o /\ o # Nobody
    BY <1>0, <2>1 DEF Functions
  <2>3. pc'[s] \in {"brand", "seller", "latest"}
    BY <1>4, OperationAssumption DEF Start, Functions, Goto
  <2>4. count'[s] \in 0..MaxOps[s]
    BY <1>0, <1>4 DEF Start, Functions
  <2> QED  BY <1>4, <2>2, <2>3, <2>4 DEF SessionOK, Start, Closed
<1>5. CASE u = s /\ TouchListing(s)
  BY <1>5 DEF TouchListing, SessionOK, Functions, Goto, locals, Closed
<1>6. CASE u = s /\ Add(s)
  BY <1>6 DEF Add, SessionOK, Functions, Goto, Closed
<1>7. CASE u = s /\ \E how \in Closed : Close(s, how)
  BY <1>7, Ends DEF SessionOK, Closed
<1>8. AddFails(s) \/ DeadlockVictim(s) \/ Commit(s) \/ Abandon(s) =>
        \E how \in Closed : Close(s, how)
  BY DEF AddFails, DeadlockVictim, Commit, Abandon, Closed
<1> QED  BY <1>1, <1>2, <1>3, <1>4, <1>5, <1>6, <1>7, <1>8, Steps

-----------------------------------------------------------------------------
(* Unique keys.                                                            *)

\* What a session has flushed changes at an INSERT and at its end.
LEMMA RowsFlushed ==
    ASSUME Functions, NEW s \in Sessions, Begin(s) \/ Step(s) \/ Abandon(s)
    PROVE  \/ mine'[s] = mine[s]
           \/ Add(s) /\ mine'[s] = mine[s] \cup {row[s]}
           \/ mine'[s] = {} /\ \E how \in Closed : Close(s, how)
<1>1. CASE LookUp(s)
  BY <1>1, LookUpsRead
<1>2. CASE Begin(s) \/ Start(s) \/ TouchListing(s)
  BY <1>2 DEF Begin, Start, TouchListing
<1>3. CASE Add(s)
  BY <1>3 DEF Add, Functions
<1>4. CASE AddFails(s) \/ DeadlockVictim(s) \/ Commit(s) \/ Abandon(s)
  <2>1. \E how \in Closed : Close(s, how)
    BY <1>4 DEF AddFails, DeadlockVictim, Commit, Abandon, Closed
  <2> QED  BY <2>1, Ends
<1> QED  BY <1>1, <1>2, <1>3, <1>4, Steps

\* A row is flushed when nobody has any of its keys.
LEMMA AddedIsNew ==
    ASSUME NEW s \in Sessions, Add(s)
    PROVE  /\ \A x \in Visible(s) : x.keys \cap row[s].keys = {}
           /\ \A u \in Sessions : u # s =>
                \A x \in mine[u] : x.keys \cap row[s].keys = {}
<1>1. \A k \in row[s].keys : Found(s, k) = {}
  BY DEF Add, Taken
<1>2. \A u \in Sessions : u # s => row[s].keys \cap HeldKeys(u) = {}
  BY DEF Add, Blocked, WaitsFor, Wanted
<1>3. \A x \in Visible(s) : x.keys \cap row[s].keys = {}
  BY <1>1 DEF Found
<1>4. \A u \in Sessions : \A x \in mine[u] : x.keys \subseteq HeldKeys(u)
  BY DEF HeldKeys
<1> QED  BY <1>2, <1>3, <1>4

LEMMA KeyStep ==
    ASSUME Functions, KeyInv, NEW s \in Sessions, Begin(s) \/ Step(s) \/ Abandon(s)
    PROVE  KeyInv'
<1> USE DEF KeyInv, UniqueIn, Visible
<1>0. \A u \in Sessions : u # s => mine'[u] = mine[u]
  BY OthersStay
<1>1. CASE db' = db /\ mine'[s] \subseteq mine[s]
  BY <1>0, <1>1
<1>2. CASE Add(s) /\ mine'[s] = mine[s] \cup {row[s]}
  <2>1. db' = db
    BY <1>2 DEF Add
  <2>2. /\ \A x \in db \cup mine[s] : x.keys \cap row[s].keys = {}
        /\ \A u \in Sessions : u # s => \A x \in mine[u] : x.keys \cap row[s].keys = {}
    BY <1>2, AddedIsNew
  <2>3. UniqueIn(Visible(s))'
    BY <1>2, <2>1, <2>2
  <2>4. \A u \in Sessions : UniqueIn(Visible(u))'
    BY <1>0, <2>1, <2>3
  <2>5. \A u, v \in Sessions : u # v =>
          \A x \in mine'[u], y \in mine'[v] : x.keys \cap y.keys = {}
    BY <1>0, <1>2, <2>2
  <2> QED  BY <2>1, <2>4, <2>5
<1>3. CASE Commit(s) /\ db' = db \cup mine[s] /\ mine'[s] = {}
  <2>1. UniqueIn(db)' /\ UniqueIn(Visible(s))'
    BY <1>3
  <2>2. ASSUME NEW u \in Sessions, u # s PROVE UniqueIn(Visible(u))'
    <3>1. Visible(u)' = (db \cup mine[s]) \cup mine[u]
      BY <1>0, <1>3, <2>2
    <3>2. \A x \in mine[s], y \in mine[u] : x.keys \cap y.keys = {} /\ y.keys \cap x.keys = {}
      BY <2>2
    <3> QED  BY <3>1, <3>2
  <2>3. \A u, v \in Sessions : u # v =>
          \A x \in mine'[u], y \in mine'[v] : x.keys \cap y.keys = {}
    BY <1>0, <1>3
  <2> QED  BY <2>1, <2>2, <2>3
<1>4. Commit(s) => mine'[s] = {}
  BY Ends DEF Commit, Closed
<1> QED  BY <1>1, <1>2, <1>3, <1>4, DatabaseGrows, RowsFlushed DEF Add

-----------------------------------------------------------------------------
(* Races.                                                                  *)

\* What a look-up is going to insert it has looked for: _upsert_brand,
\* _unique_product_slug, _attach_identifiers, _upsert_listing, _upsert_seller,
\* _persist_snapshot and persist_availability_observation cover every unique
\* key of their tables.
LEMMA LookUpsCover ==
    ASSUME Functions, NEW s \in Sessions, LookUp(s), pc'[s] = "add"
    PROVE  \A k \in row'[s].keys : Found(s, k) = {}
<1> USE DEF Functions, Goto, Insert
<1>1. CASE UpsertBrand(s)
  BY <1>1 DEF UpsertBrand, Row
<1>2. CASE ResolveByIdentifier(s) \/ ResolveByListing(s) \/ ShowHit(s) \/ ReadLatest(s)
  BY <1>2 DEF ResolveByIdentifier, ResolveByListing, ShowHit, ReadLatest
<1>3. CASE NewProduct(s)
  <2>1. row'[s].keys = FreeSlug(s)
    BY <1>3 DEF NewProduct, Product, Row
  <2>2. \A k \in FreeSlug(s) : Found(s, k) = {}
    BY DEF FreeSlug
  <2> QED  BY <2>1, <2>2
<1>4. CASE AttachIdentifier(s)
  <2>1. Found(s, IdentKey(op[s].idents[i[s]])) = {}
        /\ row'[s].keys = {IdentKey(op[s].idents[i[s]])}
    BY <1>4 DEF AttachIdentifier, Row
  <2> QED  BY <2>1
<1>5. CASE UpsertListing(s)
  <2>1. Found(s, ListingKey(op[s].sku)) = {} /\ row'[s].keys = {ListingKey(op[s].sku)}
    BY <1>5 DEF UpsertListing, Row
  <2> QED  BY <2>1
<1>6. CASE UpsertSeller(s)
  <2> DEFINE d == op[s].seller
  <2>1. /\ row'[s].keys = SellerKeys(d)
        /\ d.external # Nobody => Found(s, <<"seller", d.external>>) = {}
        /\ d.first => Found(s, <<"first_party">>) = {}
    BY <1>6 DEF UpsertSeller, Row
  <2> QED  BY <2>1 DEF SellerKeys
<1>7. CASE PersistSnapshot(s)
  BY <1>7 DEF PersistSnapshot, Snapshot, AfterSnapshot
<1>8. CASE CopyLatest(s)
  BY <1>8 DEF CopyLatest
<1> QED  BY <1>1, <1>2, <1>3, <1>4, <1>5, <1>6, <1>7, <1>8 DEF LookUp

\* Who has had company is known to have had it.
LEMMA CompanyStays ==
    ASSUME Functions, NEW s \in Sessions, Begin(s) \/ Step(s) \/ Abandon(s)
    PROVE  /\ ~Begin(s) => company' = company
           /\ \A u \in Sessions : company[u] => company'[u]
<1>1. CASE Begin(s)
  BY <1>1 DEF Begin, Step, LookUp, Functions
<1>2. CASE LookUp(s)
  BY <1>2, LookUpsRead
<1>3. CASE \E how \in Closed : Close(s, how)
  BY <1>3, Ends
<1>4. CASE Start(s) \/ TouchListing(s) \/ Add(s)
  BY <1>4 DEF Start, TouchListing, Add
<1>5. AddFails(s) \/ DeadlockVictim(s) \/ Commit(s) \/ Abandon(s) =>
        \E how \in Closed : Close(s, how)
  BY DEF AddFails, DeadlockVictim, Commit, Abandon, Closed
<1> QED  BY <1>1, <1>2, <1>3, <1>4, <1>5, Steps

\* Only an open session takes a step, other than to open.
LEMMA OpenStep ==
    ASSUME Functions, \A q \in Sessions : SessionOK(q), NEW s \in Sessions,
           Step(s) \/ Abandon(s)
    PROVE  Active(s)
<1>1. CASE LookUp(s)
  BY <1>1, LookUpsRead DEF Active
<1>2. CASE DeadlockVictim(s)
  <2>1. PICK C \in SUBSET Sessions :
          /\ s \in C
          /\ \A u \in C : (\E v \in C : WaitsFor(u, v)) /\ (\E v \in C : WaitsFor(v, u))
    BY <1>2 DEF DeadlockVictim
  <2>2. Wanted(s) # {}
    BY <2>1 DEF WaitsFor
  <2> QED  BY <2>2 DEF Wanted, Active, Closed
<1>3. CASE Start(s) \/ TouchListing(s) \/ Add(s) \/ AddFails(s) \/ Commit(s) \/ Abandon(s)
  BY <1>3 DEF Start, TouchListing, Add, AddFails, Commit, Abandon, Active, Closed
<1> QED  BY <1>1, <1>2, <1>3, Steps

\* A session that waits has company, for somebody holds a key it wants.
LEMMA WaitersMeet ==
    ASSUME Functions, \A q \in Sessions : SessionOK(q), CompanyInv,
           NEW s \in Sessions, Active(s), NEW u \in Sessions, WaitsFor(s, u)
    PROVE  company[s]
<1>1. s # u /\ HeldKeys(u) # {}
  BY DEF WaitsFor
<1>2. Active(u)
  BY <1>1 DEF HeldKeys, SessionOK, Active
<1> QED  BY <1>1, <1>2 DEF CompanyInv

LEMMA CompanyStep ==
    ASSUME Functions, \A q \in Sessions : SessionOK(q), CompanyInv,
           NEW s \in Sessions, Begin(s) \/ Step(s) \/ Abandon(s)
    PROVE  CompanyInv'
<1>1. ASSUME NEW u \in Sessions, NEW v \in Sessions, u # v, Active(u)', Active(v)'
      PROVE  company'[u]
  <2>1. CASE Begin(s)
    <3>1. \A q \in Sessions : q # s => (Active(q)' <=> Active(q))
      BY OthersStay DEF Active
    <3> QED  BY <1>1, <2>1, <3>1 DEF Begin
  <2>2. CASE ~Begin(s)
    <3>1. Active(u) /\ Active(v)
      BY <1>1, <2>2, OthersStay, OpenStep DEF Active
    <3> QED  BY <1>1, <3>1, CompanyStays DEF CompanyInv
  <2> QED  BY <2>1, <2>2
<1>2. ASSUME NEW u \in Sessions, pc'[u] = "add", ~company'[u]
      PROVE  ~Taken(u)'
  <2>0. ~company[u]
    BY <1>2, CompanyStays
  <2>1. CASE u # s
    <3>1. pc[u] = "add" /\ row'[u] = row[u] /\ mine'[u] = mine[u]
      BY <1>2, <2>1, OthersStay
    <3>2. Active(u)
      BY <3>1 DEF Active, Closed
    <3>3. ~Commit(s)
      BY <2>0, <2>1, <3>2 DEF CompanyInv, Commit, Active, Closed
    <3>4. db' = db
      BY <3>3, DatabaseGrows
    <3> QED  BY <2>0, <3>1, <3>4 DEF CompanyInv, Taken, Found, Visible
  <2>2. CASE u = s /\ LookUp(s)
    <3>1. \A k \in row'[s].keys : Found(s, k) = {}
      BY <1>2, <2>2, LookUpsCover
    <3>2. db' = db /\ mine' = mine
      BY <2>2, LookUpsRead
    <3> QED  BY <2>2, <3>1, <3>2 DEF Taken, Found, Visible
  <2>3. CASE u = s /\ (Begin(s) \/ Start(s) \/ TouchListing(s) \/ Add(s))
    BY <1>2, <2>3, OperationAssumption
       DEF Begin, Start, TouchListing, Add, Functions, SessionOK, Goto
  <2>4. CASE u = s /\ \E how \in Closed : Close(s, how)
    BY <1>2, <2>4, Ends DEF Closed
  <2>5. AddFails(s) \/ DeadlockVictim(s) \/ Commit(s) \/ Abandon(s) =>
          \E how \in Closed : Close(s, how)
    BY DEF AddFails, DeadlockVictim, Commit, Abandon, Closed
  <2> QED  BY <2>1, <2>2, <2>3, <2>4, <2>5, Steps
<1>3. ASSUME NEW u \in Sessions, pc'[u] = "failed"
      PROVE  company'[u]
  <2>1. CASE u # s
    BY <1>3, <2>1, OthersStay, CompanyStays DEF CompanyInv, OnlyRacesFail
  <2>2. CASE u = s /\ AddFails(s)
    <3>1. company[s]
      BY <2>2 DEF CompanyInv, AddFails
    <3> QED  BY <2>2, <3>1, CompanyStays
  <2>3. CASE u = s /\ DeadlockVictim(s)
    <3>1. Active(s)
      BY <2>3, OpenStep DEF Step
    <3>2. PICK v \in Sessions : WaitsFor(s, v)
      BY <2>3 DEF DeadlockVictim
    <3>3. company[s]
      BY <3>1, <3>2, WaitersMeet
    <3> QED  BY <2>3, <3>3, CompanyStays
  <2>4. CASE u = s /\ (Commit(s) \/ Abandon(s))
    <3>1. pc'[s] \in {"committed", "rolled_back"}
      BY <2>4, Ends DEF Commit, Abandon, Closed
    <3> QED  BY <1>3, <2>4, <3>1
  <2>5. CASE u = s /\ LookUp(s)
    BY <1>3, <2>5, LookUpsLead DEF Closed
  <2>6. CASE u = s /\ (Begin(s) \/ Start(s) \/ TouchListing(s) \/ Add(s))
    BY <1>3, <2>6, OperationAssumption
       DEF Begin, Start, TouchListing, Add, Functions, SessionOK, Goto
  <2> QED  BY <2>1, <2>2, <2>3, <2>4, <2>5, <2>6, Steps
<1> QED  BY <1>1, <1>2, <1>3 DEF CompanyInv, OnlyRacesFail

-----------------------------------------------------------------------------
(* Prices.                                                                 *)

LEMMA VisibleGrows ==
    ASSUME Functions, NEW s \in Sessions, Begin(s) \/ Step(s) \/ Abandon(s),
           NEW u \in Sessions, u # s
    PROVE  db \subseteq db' /\ Visible(u) \subseteq Visible(u)'
BY OthersStay, DatabaseGrows DEF Visible

LEMMA ObservedStays ==
    ASSUME NEW x, NEW S, NEW T, S \subseteq T, Observed(x, S)
    PROVE  Observed(x, T)
BY DEF Observed

\* A new snapshot's price is observed now, or copied from one that is there.
LEMMA SnapshotsFrom ==
    ASSUME Functions, NEW s \in Sessions, LookUp(s), row'[s].kind = "snapshot"
    PROVE  \/ row'[s] = row[s] \/ row'[s].seen = row'[s].at
           \/ \E x \in Visible(s) :
                /\ x.kind = "snapshot" /\ x.sku = row'[s].sku /\ x.of = row'[s].of
                /\ x.by = row'[s].by /\ x.seen = row'[s].seen
<1> USE DEF Functions, Goto, Insert
<1>1. CASE UpsertBrand(s) \/ NewProduct(s)
  <2>1. UpsertBrand(s) => row' = row \/ \E x : x.kind = "brand" /\ Insert(s, x, "resolve")
    BY DEF UpsertBrand, Row
  <2>2. NewProduct(s) => \E x : x.kind = "product" /\ Insert(s, x, "attach")
    BY DEF NewProduct, Product, Row
  <2> QED  BY <1>1, <2>1, <2>2
<1>2. CASE ResolveByIdentifier(s) \/ ResolveByListing(s) \/ ShowHit(s)
  BY <1>2 DEF ResolveByIdentifier, ResolveByListing, ShowHit, locals
<1>3. CASE AttachIdentifier(s)
  <2>1. row' = row \/ \E x : x.kind = "identifier" /\ Insert(s, x, "attach")
    BY <1>3 DEF AttachIdentifier, Row
  <2> QED  BY <2>1
<1>4. CASE UpsertListing(s)
  <2>1. row' = row \/ \E x : x.kind = "listing" /\ Insert(s, x, "seller")
    BY <1>4 DEF UpsertListing, Row
  <2> QED  BY <2>1
<1>5. CASE UpsertSeller(s)
  <2>1. row' = row \/ \E x : x.kind = "seller" /\ Insert(s, x, "snapshot")
    BY <1>5 DEF UpsertSeller, Row
  <2> QED  BY <2>1
<1>6. CASE PersistSnapshot(s)
  <2>1. row' = row \/ \E x : x.seen = x.at /\ Insert(s, x, AfterSnapshot(s))
    BY <1>6 DEF PersistSnapshot, Snapshot
  <2> QED  BY <2>1
<1>7. CASE ReadLatest(s)
  <2>1. CASE row' = row
    BY <2>1
  <2>2. CASE row' # row
    <3>1. PICK x \in LatestOf(s, op[s].sku) :
            row' = [row EXCEPT ![s] = Snapshot(NewId(s, "snapshot"), op[s].sku,
                                               op[s].at, x.of, x.seen, x.by)]
      BY <1>7, <2>2 DEF ReadLatest
    <3>2. /\ row'[s].sku = op[s].sku /\ row'[s].of = x.of
          /\ row'[s].seen = x.seen /\ row'[s].by = x.by
      BY <3>1 DEF Snapshot
    <3> QED  BY <3>1, <3>2 DEF LatestOf
  <2> QED  BY <2>1, <2>2
<1>8. CASE CopyLatest(s)
  BY <1>8 DEF CopyLatest, NoRow, Row
<1> QED  BY <1>1, <1>2, <1>3, <1>4, <1>5, <1>6, <1>7, <1>8 DEF LookUp

LEMMA PriceStep ==
    ASSUME Functions, \A q \in Sessions : SessionOK(q), PriceInv,
           NEW s \in Sessions, Begin(s) \/ Step(s) \/ Abandon(s)
    PROVE  PriceInv'
<1>1. ASSUME NEW x \in db', x.kind = "snapshot"
      PROVE  Observed(x, db')
  <2>1. CASE x \in db
    BY <1>1, <2>1, DatabaseGrows, ObservedStays DEF PriceInv
  <2>2. CASE x \in mine[s] /\ db' = db \cup mine[s]
    BY <1>1, <2>2 DEF PriceInv, Visible
  <2> QED  BY <2>1, <2>2, DatabaseGrows
<1>2. ASSUME NEW u \in Sessions, u # s
      PROVE  /\ \A x \in mine'[u] : x.kind = "snapshot" => Observed(x, Visible(u)')
             /\ row'[u].kind = "snapshot" =>
                  row'[u].seen = row'[u].at \/ Observed(row'[u], Visible(u)')
  <2>1. mine'[u] = mine[u] /\ row'[u] = row[u] /\ Visible(u) \subseteq Visible(u)'
    BY <1>2, OthersStay, VisibleGrows
  <2> QED  BY <2>1, ObservedStays DEF PriceInv
<1>3. ASSUME db' = db, mine'[s] = mine[s]
      PROVE  \A x \in mine'[s] : x.kind = "snapshot" => Observed(x, Visible(s)')
  BY <1>3 DEF PriceInv, Visible
<1>4. /\ \A x \in mine'[s] : x.kind = "snapshot" => Observed(x, Visible(s)')
      /\ row'[s].kind = "snapshot" =>
           row'[s].seen = row'[s].at \/ Observed(row'[s], Visible(s)')
  <2>1. CASE LookUp(s)
    <3>1. db' = db /\ mine' = mine /\ Visible(s)' = Visible(s)
      BY <2>1, LookUpsRead DEF Visible
    <3>2. ASSUME row'[s].kind = "snapshot", row'[s].seen # row'[s].at
          PROVE  Observed(row'[s], Visible(s))
      <4>1. CASE row'[s] = row[s]
        BY <3>2, <4>1 DEF PriceInv
      <4>2. ASSUME NEW x \in Visible(s),
                   x.kind = "snapshot", x.sku = row'[s].sku, x.of = row'[s].of,
                   x.by = row'[s].by, x.seen = row'[s].seen
            PROVE  Observed(row'[s], Visible(s))
        <5>1. Observed(x, Visible(s))
          BY <4>2, ObservedStays DEF PriceInv, Visible
        <5> QED  BY <4>2, <5>1 DEF Observed
      <4> QED  BY <2>1, <3>2, <4>1, <4>2, SnapshotsFrom
    <3> QED  BY <1>3, <3>1, <3>2
  <2>2. CASE Begin(s) \/ Start(s) \/ TouchListing(s)
    <3>1. db' = db /\ mine' = mine /\ row' = row
      BY <2>2 DEF Begin, Start, TouchListing, locals
    <3> QED  BY <1>3, <3>1 DEF PriceInv, Visible
  <2>3. CASE Add(s)
    <3>1. /\ db' = db /\ mine'[s] = mine[s] \cup {row[s]} /\ row'[s] = NoRow
      BY <2>3 DEF Add, Functions
    <3>2. Visible(s) \subseteq Visible(s)' /\ row[s] \in Visible(s)'
      BY <3>1 DEF Visible
    <3>3. ASSUME NEW x \in mine'[s], x.kind = "snapshot"
          PROVE  Observed(x, Visible(s)')
      <4>1. CASE x \in mine[s]
        BY <3>2, <3>3, <4>1, ObservedStays DEF PriceInv
      <4>2. CASE x = row[s] /\ row[s].seen = row[s].at
        BY <3>2, <3>3, <4>2 DEF Observed
      <4>3. CASE x = row[s] /\ row[s].seen # row[s].at
        BY <3>2, <3>3, <4>3, ObservedStays DEF PriceInv
      <4> QED  BY <3>1, <4>1, <4>2, <4>3
    <3> QED  BY <3>1, <3>3 DEF NoRow, Row
  <2>4. CASE \E how \in Closed : Close(s, how)
    BY <2>4, Ends DEF NoRow, Row
  <2>5. AddFails(s) \/ DeadlockVictim(s) \/ Commit(s) \/ Abandon(s) =>
          \E how \in Closed : Close(s, how)
    BY DEF AddFails, DeadlockVictim, Commit, Abandon, Closed
  <2> QED  BY <2>1, <2>2, <2>3, <2>4, <2>5, Steps
<1> QED  BY <1>1, <1>2, <1>4 DEF PriceInv

-----------------------------------------------------------------------------
(* Products without a listing.                                             *)

LEMMA ListedStays ==
    ASSUME NEW p, NEW S, NEW T, S \subseteq T, Listed(p, S)
    PROVE  Listed(p, T)
BY DEF Listed

\* A look-up but for the four of the way from _resolve_variant to
\* _upsert_listing, which follow.
LEMMA OrphansElsewhere ==
    ASSUME Functions, NEW s \in Sessions, SessionOK(s), OrphanOK(s),
           \/ UpsertBrand(s) \/ ResolveByIdentifier(s) \/ UpsertSeller(s)
           \/ PersistSnapshot(s) \/ ShowHit(s) \/ ReadLatest(s) \/ CopyLatest(s)
    PROVE  OrphanOK(s)'
<1> USE DEF Functions, Goto, Insert
<1>1. /\ mine' = mine /\ company' = company /\ Visible(s)' = Visible(s)
      /\ pc[s] \notin {"attach", "add", "product"}
  <2>1. LookUp(s)
    BY DEF LookUp
  <2>2. pc[s] \notin {"attach", "add", "product"}
    BY DEF UpsertBrand, ResolveByIdentifier, UpsertSeller, PersistSnapshot, ShowHit,
           ReadLatest, CopyLatest
  <2> QED  BY <2>1, <2>2, LookUpsRead DEF Visible
<1>2. pc'[s] # "product" /\ row'[s].kind \notin {"product", "identifier"}
  <2>1. row[s].kind \notin {"product", "identifier"}
    BY <1>1 DEF SessionOK, NoRow, Row
  <2>2. CASE UpsertBrand(s)
    <3>1. \/ row' = row /\ pc'[s] = "resolve"
          \/ \E x : x.kind = "brand" /\ Insert(s, x, "resolve")
      BY <2>2 DEF UpsertBrand, Row
    <3> QED  BY <2>1, <3>1
  <2>3. CASE ResolveByIdentifier(s) \/ ShowHit(s)
    BY <2>1, <2>3 DEF ResolveByIdentifier, ShowHit, locals
  <2>4. CASE UpsertSeller(s)
    <3>1. \/ row' = row /\ pc'[s] = "snapshot"
          \/ \E x : x.kind = "seller" /\ Insert(s, x, "snapshot")
      BY <2>4 DEF UpsertSeller, Row
    <3> QED  BY <2>1, <3>1
  <2>5. CASE PersistSnapshot(s)
    <3>1. \/ row' = row /\ \E label \in {"ready", "hit"} : Goto(s, label)
          \/ \E x, label : x.kind = "snapshot" /\ Insert(s, x, label)
      BY <2>5 DEF PersistSnapshot, Snapshot, AfterSnapshot
    <3> QED  BY <2>1, <3>1
  <2>6. CASE ReadLatest(s)
    <3>1. row' = row \/ \E x : x.kind = "snapshot" /\ row' = [row EXCEPT ![s] = x]
      BY <2>6 DEF ReadLatest, Snapshot
    <3>2. \E label \in {"seller", "ready", "copy"} : Goto(s, label)
      BY <2>6 DEF ReadLatest
    <3> QED  BY <2>1, <3>1, <3>2
  <2>7. CASE CopyLatest(s)
    BY <2>1, <2>7 DEF CopyLatest, NoRow, Row
  <2> QED  BY <2>2, <2>3, <2>4, <2>5, <2>6, <2>7
<1>3. ~company[s] => \A p \in mine[s] : p.kind = "product" => Listed(p, Visible(s))
  BY <1>1 DEF OrphanOK, Making, Makes
<1>4. ~company'[s] => \A p \in mine'[s] : p.kind = "product" => Listed(p, Visible(s)')
  BY <1>1, <1>3
<1> QED  BY <1>1, <1>2, <1>4 DEF OrphanOK

LEMMA OrphansOnTheWay ==
    ASSUME Functions, NEW s \in Sessions, SessionOK(s), OrphanOK(s),
           \/ ResolveByListing(s) \/ NewProduct(s) \/ AttachIdentifier(s) \/ UpsertListing(s)
    PROVE  OrphanOK(s)'
<1> USE DEF Functions, Goto, Insert
<1>1. /\ mine' = mine /\ company' = company /\ op' = op /\ Visible(s)' = Visible(s)
      /\ Unlisted(s)' = Unlisted(s) /\ pc[s] \in {"resolve", "product", "attach"}
      /\ row[s] = NoRow
  <2>1. LookUp(s)
    BY DEF LookUp
  <2>2. pc[s] \in {"resolve", "product", "attach"}
    BY DEF ResolveByListing, NewProduct, AttachIdentifier, UpsertListing
  <2> QED  BY <2>1, <2>2, LookUpsRead DEF Visible, Unlisted, Found, SessionOK
<1>2. NoRow.kind = "none"
  BY DEF NoRow, Row
<1>3. CASE ResolveByListing(s)
  <2>1. /\ row' = row /\ pc'[s] \in {"attach", "product"} /\ pc[s] = "resolve"
        /\ pc'[s] = "product" => (op[s].bySlug => Unlisted(s))
    BY <1>3 DEF ResolveByListing, Unlisted
  <2>2. ~company[s] => \A p \in mine[s] : p.kind = "product" => Listed(p, Visible(s))
    BY <2>1 DEF OrphanOK, Making, Makes
  <2>3. ~company'[s] => \A p \in mine'[s] : p.kind = "product" => Listed(p, Visible(s)')
    BY <1>1, <2>2
  <2> QED  BY <1>1, <1>2, <2>1, <2>3 DEF OrphanOK
<1>4. CASE NewProduct(s)
  <2>1. /\ pc[s] = "product" /\ pc'[s] = "add" /\ next'[s] = "attach"
        /\ row'[s].kind = "product" /\ row'[s].id = NewId(s, "variant")
        /\ row'[s].keys = FreeSlug(s) /\ variant'[s] = NewId(s, "variant")
        /\ row'[s].sku = op[s].sku /\ row'[s].by = op[s]
    BY <1>4 DEF NewProduct, Product, Row
  <2>2. NewId(s, "variant")[2] = s
    BY DEF NewId
  <2>3. ListingKey(op[s].sku) \notin FreeSlug(s)
    BY DEF ListingKey, FreeSlug, SlugKeys
  <2>4. ~company[s] => \A p \in mine[s] : p.kind = "product" => Listed(p, Visible(s))
    BY <2>1 DEF OrphanOK, Making, Makes
  <2>5. ~company'[s] => \A p \in mine'[s] : p.kind = "product" => Listed(p, Visible(s)')
    BY <1>1, <2>4
  <2>6. ~company[s] => (op[s].bySlug => Unlisted(s))
    BY <2>1 DEF OrphanOK
  <2> QED  BY <1>1, <2>1, <2>2, <2>3, <2>5, <2>6 DEF OrphanOK
<1>5. CASE AttachIdentifier(s)
  <2>1. /\ pc[s] = "attach" /\ variant' = variant
        /\ \/ pc' = pc /\ row' = row
           \/ /\ pc'[s] = "add" /\ next'[s] = "attach" /\ row'[s].kind = "identifier"
              /\ row'[s].keys = {IdentKey(op[s].idents[i[s]])}
    <3>1. \/ pc' = pc /\ row' = row
          \/ \E x : /\ x.kind = "identifier" /\ Insert(s, x, "attach")
                    /\ x.keys = {IdentKey(op[s].idents[i[s]])}
      BY <1>5 DEF AttachIdentifier, Row
    <3>2. pc[s] = "attach" /\ variant' = variant
      BY <1>5 DEF AttachIdentifier
    <3> QED  BY <3>1, <3>2
  <2>2. ListingKey(op[s].sku) # IdentKey(op[s].idents[i[s]])
    BY DEF ListingKey, IdentKey
  <2>3. ~company[s] => \A p \in mine[s] : p.kind = "product" =>
          Listed(p, Visible(s)) \/ (variant[s] = p.id /\ op[s].sku = p.sku /\ Unlisted(s))
    BY <2>1 DEF OrphanOK, Making, Makes
  <2>4. Unlisted(s) => Making(s)'
    BY <1>1, <2>1 DEF Making
  <2>5. ~company'[s] => \A p \in mine'[s] : p.kind = "product" =>
          Listed(p, Visible(s)') \/ Makes(p, s)'
    BY <1>1, <2>1, <2>3, <2>4 DEF Makes
  <2>6. row'[s].kind # "product" /\ pc'[s] # "product"
    BY <1>1, <1>2, <2>1
  <2>7. pc'[s] = "add" => ListingKey(op'[s].sku) \notin row'[s].keys
    BY <1>1, <2>1, <2>2
  <2> QED  BY <1>1, <2>5, <2>6, <2>7 DEF OrphanOK
<1>6. CASE UpsertListing(s)
  <2>1. /\ pc[s] = "attach" /\ variant' = variant
        /\ \/ pc'[s] = "touch" /\ row' = row /\ ~Unlisted(s)
           \/ /\ pc'[s] = "add" /\ row'[s].kind = "listing" /\ row'[s].of = variant[s]
              /\ ListingKey(op[s].sku) \in row'[s].keys
    <3>1. \/ Goto(s, "touch") /\ row' = row /\ ~Unlisted(s)
          \/ \E x : /\ x.kind = "listing" /\ x.of = variant[s]
                    /\ ListingKey(op[s].sku) \in x.keys /\ Insert(s, x, "seller")
      BY <1>6 DEF UpsertListing, Row, Unlisted
    <3>2. pc[s] = "attach" /\ variant' = variant
      BY <1>6 DEF UpsertListing
    <3> QED  BY <3>1, <3>2
  <2>2. ~company[s] => \A p \in mine[s] : p.kind = "product" =>
          Listed(p, Visible(s)) \/ (variant[s] = p.id /\ op[s].sku = p.sku /\ Unlisted(s))
    BY <2>1 DEF OrphanOK, Making, Makes
  <2>3. Unlisted(s) => Making(s)'
    BY <1>1, <2>1 DEF Making
  <2>4. ~company'[s] => \A p \in mine'[s] : p.kind = "product" =>
          Listed(p, Visible(s)') \/ Makes(p, s)'
    BY <1>1, <2>1, <2>2, <2>3 DEF Makes
  <2>5. row'[s].kind \notin {"product", "identifier"} /\ pc'[s] # "product"
    BY <1>1, <1>2, <2>1
  <2> QED  BY <1>1, <2>4, <2>5 DEF OrphanOK
<1> QED  BY <1>3, <1>4, <1>5, <1>6

\* The product is flushed, then its listing.
LEMMA OrphansAdded ==
    ASSUME Functions, NEW s \in Sessions, SessionOK(s), OrphanOK(s), Add(s)
    PROVE  OrphanOK(s)'
<1>1. /\ pc[s] = "add" /\ pc'[s] = next[s] /\ mine'[s] = mine[s] \cup {row[s]}
      /\ row'[s] = NoRow /\ db' = db /\ op' = op /\ variant' = variant
      /\ company' = company /\ Visible(s)' = Visible(s) \cup {row[s]}
  BY DEF Add, Functions, Goto, Visible
<1>2. NoRow.kind = "none" /\ next[s] \notin {"product", "add"}
  BY DEF NoRow, Row, SessionOK
<1>3. ListingKey(op[s].sku) \notin row[s].keys => (Unlisted(s) => Unlisted(s)')
  BY <1>1 DEF Unlisted, Found
<1>4. ASSUME ~company'[s], NEW p \in mine'[s], p.kind = "product"
      PROVE  Listed(p, Visible(s)') \/ Makes(p, s)'
  <2>1. CASE p \in mine[s] /\ Listed(p, Visible(s))
    BY <1>1, <2>1, ListedStays
  <2>2. CASE p \in mine[s] /\ Makes(p, s)
    <3>1. CASE /\ row[s].kind = "listing" /\ row[s].of = variant[s]
               /\ ListingKey(op[s].sku) \in row[s].keys
      BY <1>1, <2>2, <3>1 DEF Listed, Makes
    <3>2. CASE next[s] = "attach" /\ row[s].kind = "identifier" /\ Unlisted(s)
      <4>1. Unlisted(s)'
        BY <1>1, <1>3, <3>2 DEF OrphanOK
      <4> QED  BY <1>1, <2>2, <3>2, <4>1 DEF Making, Makes
    <3> QED  BY <1>1, <2>2, <3>1, <3>2 DEF Making, Makes
  <2>3. CASE p = row[s]
    <3>1. /\ row[s].id = variant[s] /\ next[s] = "attach"
          /\ row[s].sku = op[s].sku /\ row[s].by = op[s]
          /\ ListingKey(op[s].sku) \notin row[s].keys /\ (op[s].bySlug => Unlisted(s))
      BY <1>1, <1>4, <2>3 DEF OrphanOK
    <3>2. CASE Unlisted(s)
      BY <1>1, <1>3, <2>3, <3>1, <3>2 DEF Making, Makes
    <3>3. CASE ~Unlisted(s) /\ ~op[s].bySlug
      BY <1>1, <2>3, <3>1, <3>3 DEF Listed, Unlisted, Found
    <3> QED  BY <3>1, <3>2, <3>3
  <2> QED  BY <1>1, <1>4, <2>1, <2>2, <2>3 DEF OrphanOK
<1>5. \A p \in mine'[s] : p.kind = "product" => p.id[2] = s
  BY <1>1 DEF OrphanOK
<1> QED  BY <1>1, <1>2, <1>4, <1>5 DEF OrphanOK

LEMMA OrphansOfItself ==
    ASSUME Functions, NEW s \in Sessions, SessionOK(s), OrphanOK(s),
           Begin(s) \/ Step(s) \/ Abandon(s)
    PROVE  OrphanOK(s)'
<1>0. NoRow.kind = "none"
  BY DEF NoRow, Row
<1>1. CASE LookUp(s)
  BY <1>1, OrphansElsewhere, OrphansOnTheWay DEF LookUp
<1>2. CASE Begin(s)
  <2>1. pc[s] \in Closed /\ mine'[s] = mine[s] /\ row'[s] = row[s] /\ pc'[s] = "ready"
    BY <1>2 DEF Begin, Functions, Goto, locals, Closed
  <2>2. mine[s] = {} /\ row[s] = NoRow
    BY <2>1 DEF SessionOK, Closed
  <2> QED  BY <1>0, <2>1, <2>2 DEF OrphanOK
<1>3. CASE Start(s) \/ TouchListing(s)
  <2>1. /\ pc[s] \in {"ready", "touch"} /\ mine' = mine /\ row'[s] = row[s]
        /\ Visible(s)' = Visible(s) /\ company' = company
    BY <1>3 DEF Start, TouchListing, locals, Visible
  <2>2. pc'[s] \in {"brand", "seller", "latest"}
    BY <1>3, OperationAssumption DEF Start, TouchListing, Functions, Goto
  <2>3. row[s] = NoRow
    BY <2>1 DEF SessionOK
  <2>4. ~company[s] => \A p \in mine[s] : p.kind = "product" => Listed(p, Visible(s))
    BY <2>1 DEF OrphanOK, Making, Makes
  <2>5. ~company'[s] => \A p \in mine'[s] : p.kind = "product" => Listed(p, Visible(s)')
    BY <2>1, <2>4
  <2> QED  BY <1>0, <2>1, <2>2, <2>3, <2>5 DEF OrphanOK
<1>4. CASE Add(s)
  BY <1>4, OrphansAdded
<1>5. CASE \E how \in Closed : Close(s, how)
  <2>1. mine'[s] = {} /\ row'[s] = NoRow /\ pc'[s] \in Closed
    BY <1>5, Ends
  <2> QED  BY <1>0, <2>1 DEF OrphanOK, Closed
<1>6. AddFails(s) \/ DeadlockVictim(s) \/ Commit(s) \/ Abandon(s) =>
        \E how \in Closed : Close(s, how)
  BY DEF AddFails, DeadlockVictim, Commit, Abandon, Closed
<1> QED  BY <1>1, <1>2, <1>3, <1>4, <1>5, <1>6, Steps

\* Another session's step.  A commit that it could see would be company.
LEMMA OrphansOfOthers ==
    ASSUME Functions, \A q \in Sessions : SessionOK(q), CompanyInv,
           NEW s \in Sessions, Begin(s) \/ Step(s) \/ Abandon(s),
           NEW u \in Sessions, u # s, OrphanOK(u)
    PROVE  OrphanOK(u)'
<1>1. /\ mine'[u] = mine[u] /\ row'[u] = row[u] /\ pc'[u] = pc[u] /\ next'[u] = next[u]
      /\ op'[u] = op[u] /\ variant'[u] = variant[u]
  BY OthersStay
<1>2. ~company'[u] => ~company[u]
  BY CompanyStays
<1>3. CASE Active(u) /\ ~company'[u]
  <2>1. ~Commit(s)
    BY <1>2, <1>3 DEF CompanyInv, Commit, Active, Closed
  <2>2. Visible(u)' = Visible(u) /\ Unlisted(u)' = Unlisted(u)
    BY <1>1, <2>1, DatabaseGrows DEF Visible, Unlisted, Found
  <2>3. Making(u)' = Making(u)
    BY <1>1, <2>2 DEF Making
  <2>4. \A p : Makes(p, u)' = Makes(p, u)
    BY <1>1, <2>3 DEF Makes
  <2> QED  BY <1>1, <1>2, <2>2, <2>4 DEF OrphanOK
<1>4. CASE company'[u]
  BY <1>1, <1>4 DEF OrphanOK
<1>5. CASE ~Active(u)
  BY <1>1, <1>5 DEF OrphanOK, SessionOK, Active, Closed, NoRow, Row
<1> QED  BY <1>3, <1>4, <1>5

LEMMA OrphanStep ==
    ASSUME Functions, \A q \in Sessions : SessionOK(q), CompanyInv, OrphanInv,
           NEW s \in Sessions, Begin(s) \/ Step(s) \/ Abandon(s)
    PROVE  OrphanInv'
<1>1. \A u \in Sessions : OrphanOK(u)'
  BY OrphansOfItself, OrphansOfOthers DEF OrphanInv
<1>2. ASSUME NEW p \in db', p.kind = "product"
      PROVE  company'[p.id[2]] \/ Listed(p, db')
  <2>1. CASE p \in db
    <3>1. company[p.id[2]] \/ Listed(p, db)
      BY <1>2, <2>1 DEF OrphanInv, OnlyRacesOrphan, Listed
    <3>2. CASE Listed(p, db)
      BY <3>2, DatabaseGrows, ListedStays
    <3>3. CASE company[p.id[2]]
      BY <1>2, <2>1, <3>3, CompanyStays DEF OrphanInv
    <3> QED  BY <3>1, <3>2, <3>3
  <2>2. CASE p \in mine[s] /\ Commit(s) /\ db' = db \cup mine[s]
    <3>1. p.id[2] = s /\ Visible(s) = db' /\ pc[s] = "ready" /\ company' = company
      BY <1>2, <2>2 DEF OrphanInv, OrphanOK, Visible, Commit, Close
    <3>2. ~Making(s)
      BY <3>1 DEF Making
    <3>3. ~company[s] => Listed(p, Visible(s))
      BY <1>2, <2>2, <3>2 DEF OrphanInv, OrphanOK, Makes
    <3> QED  BY <3>1, <3>3
  <2> QED  BY <2>1, <2>2, DatabaseGrows
<1>3. \A p \in db' : p.kind = "product" => p.id[2] \in Sessions
  BY DatabaseGrows DEF OrphanInv, OrphanOK
<1> QED  BY <1>1, <1>2, <1>3 DEF OrphanInv, OnlyRacesOrphan, Listed

-----------------------------------------------------------------------------
LEMMA InitInv == Init => IInv
<1> SUFFICES ASSUME Init PROVE IInv
  OBVIOUS
<1> USE DEF Init
<1>1. Functions
  BY DEF Functions, Labels, Closed
<1>2. \A s \in Sessions : SessionOK(s)
  BY BoundAssumption DEF SessionOK, Closed
<1>3. KeyInv
  BY DEF KeyInv, UniqueIn, Visible
<1>4. CompanyInv
  BY DEF CompanyInv, Active, Closed, OnlyRacesFail
<1>5. PriceInv /\ OrphanInv
  BY DEF PriceInv, OrphanInv, OrphanOK, OnlyRacesOrphan, NoRow, Row
<1> QED  BY <1>1, <1>2, <1>3, <1>4, <1>5 DEF IInv

LEMMA InvStep ==
    ASSUME IInv, NEW s \in Sessions, Begin(s) \/ Step(s) \/ Abandon(s)
    PROVE  IInv'
<1>1. Functions' /\ \A u \in Sessions : SessionOK(u)'
  BY FunctionsStep, SessionStep DEF IInv
<1>2. KeyInv' /\ CompanyInv' /\ PriceInv' /\ OrphanInv'
  BY KeyStep, CompanyStep, PriceStep, OrphanStep DEF IInv
<1> QED  BY <1>1, <1>2 DEF IInv

LEMMA InvStutter == IInv /\ UNCHANGED vars => IInv'
<1> SUFFICES ASSUME IInv, UNCHANGED vars PROVE IInv'
  OBVIOUS
<1> USE DEF vars
<1>1. Functions' /\ \A s \in Sessions : SessionOK(s)'
  BY DEF IInv, Functions, SessionOK
<1>2. KeyInv' /\ PriceInv'
  BY DEF IInv, KeyInv, PriceInv, UniqueIn, Visible, Observed
<1>3. CompanyInv'
  BY DEF IInv, CompanyInv, Active, Taken, Found, Visible, OnlyRacesFail
<1>4. OrphanInv'
  BY DEF IInv, OrphanInv, OrphanOK, OnlyRacesOrphan, Listed, Unlisted, Making, Makes, Found,
         Visible
<1> QED  BY <1>1, <1>2, <1>3, <1>4 DEF IInv

\* The inductive invariant of the catalogue: keys are unique among committed
\* and flushed rows, a session without company finds the keys free that it
\* inserts, a copied price has a witness the session sees, and an unlisted
\* product is still being made.
THEOREM InductiveInvariant == Spec => []IInv
<1>1. IInv /\ [Next]_vars => IInv'
  BY InvStep, InvStutter DEF Next, Idle
<1> QED  BY <1>1, InitInv, PTL DEF Spec

\* The type invariant: sessions that are over hold no row and no key, and no
\* two committed rows share a unique key.
THEOREM TypesAndKeys == Spec => []TypeOK
<1>1. IInv => TypeOK
  <2> SUFFICES ASSUME IInv PROVE TypeOK
    OBVIOUS
  <2>1. ASSUME NEW s \in Sessions
        PROVE  /\ pc[s] \in Labels /\ count[s] \in 0..MaxOps[s]
               /\ op[s] \in Operations \cup {Nobody} /\ company[s] \in BOOLEAN
               /\ pc[s] \in Closed => HeldKeys(s) = {} /\ op[s] = Nobody /\ row[s] = NoRow
               /\ pc[s] \in {"add", "copy"} => row[s] # NoRow
    BY DEF IInv, Functions, SessionOK, HeldKeys, NoRow, Row, Closed
  <2> QED  BY <2>1 DEF TypeOK, Labels, IInv, KeyInv, UniqueIn
<1> QED  BY <1>1, InductiveInvariant, PTL

\* Only a race costs a session its work: the look-ups before each INSERT cover
\* every unique key of the table (product_discovery_service.py).
THEOREM FailuresAreRaces == Spec => []OnlyRacesFail
<1>1. IInv => OnlyRacesFail
  BY DEF IInv, CompanyInv
<1> QED  BY <1>1, InductiveInvariant, PTL

\* Only a race leaves a product without a listing.
THEOREM OrphansAreRaces == Spec => []OnlyRacesOrphan
<1>1. IInv => OnlyRacesOrphan
  BY DEF IInv, OrphanInv
<1> QED  BY <1>1, InductiveInvariant, PTL

\* No price is invented: every copied price was observed, at that time, on that
\* listing and from that seller (persist_availability_observation).
THEOREM PricesAreObserved == Spec => []EveryPriceWasObserved
<1>1. IInv => EveryPriceWasObserved
  BY DEF IInv, PriceInv, Observed, EveryPriceWasObserved, Snapshots
<1> QED  BY <1>1, InductiveInvariant, PTL

-----------------------------------------------------------------------------
(* Observations are stored once.                                           *)

LEMMA TracedStays ==
    ASSUME NEW x, NEW S, NEW T, S \subseteq T
    PROVE  /\ Traced(x, S) => Traced(x, T)
           /\ \A d, id : SoldBy(d, id, S) => SoldBy(d, id, T)
BY DEF Traced, SoldBy

\* No row but a seller's has a seller's key.
LEMMA OtherKeys ==
    /\ \A b, e : <<"seller", e>> \notin BrandKeys(b)
    /\ \A s, e : <<"seller", e>> \notin FreeSlug(s)
    /\ \A g, e : <<"seller", e>> # IdentKey(g)
    /\ \A k, e : <<"seller", e>> # ListingKey(k)
    /\ \A k, t, u, e : <<"seller", e>> # SnapKey(k, t, u)
<1>1. \A b, e : <<"seller", e>> \notin BrandKeys(b)
  BY DEF BrandKeys
<1>2. \A s, e : <<"seller", e>> \notin FreeSlug(s)
  BY DEF FreeSlug, SlugKeys
<1>3. \A g, e : <<"seller", e>> # IdentKey(g)
  BY DEF IdentKey
<1>4. \A k, e : <<"seller", e>> # ListingKey(k)
  BY DEF ListingKey
<1>5. \A k, t, u, e : <<"seller", e>> # SnapKey(k, t, u)
  BY DEF SnapKey
<1> QED  BY <1>1, <1>2, <1>3, <1>4, <1>5

LEMMA NewSeller ==
    ASSUME SellersAreConsistent, NEW o \in Operations, o.seller # Nobody
    PROVE  /\ \A x : x.keys = SellerKeys(o.seller) => Coherent(x)
           /\ Identified(o.seller) => KeyOf(o.seller) \in SellerKeys(o.seller)
<1>1. ASSUME NEW x, x.keys = SellerKeys(o.seller)
      PROVE  Coherent(x)
  <2>1. ASSUME NEW p \in Operations, p.seller # Nobody, p.seller.first,
               <<"seller", p.seller.external>> \in SellerKeys(o.seller)
        PROVE  <<"first_party">> \in SellerKeys(o.seller)
    <3>1. o.seller.external # Nobody /\ o.seller.external = p.seller.external
      BY <2>1 DEF SellerKeys
    <3>2. o.seller.first
      BY <2>1, <3>1, OperationAssumption DEF SellersAreConsistent
    <3> QED  BY <3>2 DEF SellerKeys
  <2> QED  BY <1>1, <2>1 DEF Coherent
<1>2. Identified(o.seller) => KeyOf(o.seller) \in SellerKeys(o.seller)
  BY DEF Identified, KeyOf, SellerKeys
<1> QED  BY <1>1, <1>2

\* The row that a look-up is going to insert.
LEMMA RowTraced ==
    ASSUME Functions, SellersAreConsistent, \A x \in db : Traced(x, db),
           NEW s \in Sessions, SessionOK(s), SellerOK(s), LookUp(s)
    PROVE  Coherent(row'[s]) /\ Traced(row'[s], Visible(s))
<1> USE DEF Functions, Goto, Insert
<1>0. /\ \A x : (\A e : <<"seller", e>> \notin x.keys) => Coherent(x)
      /\ \A x, S : x.kind # "snapshot" => Traced(x, S)
      /\ Coherent(row[s]) /\ Traced(row[s], Visible(s))
  BY DEF Coherent, Traced, SellerOK
<1>1. CASE UpsertBrand(s)
  <2>1. row' = row \/ \E x : /\ x.kind = "brand" /\ x.keys = BrandKeys(op[s].brand)
                             /\ Insert(s, x, "resolve")
    BY <1>1 DEF UpsertBrand, Row
  <2> QED  BY <1>0, <2>1, OtherKeys
<1>2. CASE ResolveByIdentifier(s) \/ ResolveByListing(s) \/ ShowHit(s)
  BY <1>0, <1>2 DEF ResolveByIdentifier, ResolveByListing, ShowHit, locals
<1>3. CASE NewProduct(s)
  <2>1. row'[s].kind = "product" /\ row'[s].keys = FreeSlug(s)
    BY <1>3 DEF NewProduct, Product, Row
  <2> QED  BY <1>0, <2>1, OtherKeys
<1>4. CASE AttachIdentifier(s)
  <2>1. row' = row \/ \E x : /\ x.kind = "identifier" /\ Insert(s, x, "attach")
                             /\ x.keys = {IdentKey(op[s].idents[i[s]])}
    BY <1>4 DEF AttachIdentifier, Row
  <2> QED  BY <1>0, <2>1, OtherKeys
<1>5. CASE UpsertListing(s)
  <2>1. row' = row \/ \E x : /\ x.kind = "listing" /\ Insert(s, x, "seller")
                             /\ x.keys = {ListingKey(op[s].sku)}
    BY <1>5 DEF UpsertListing, Row
  <2> QED  BY <1>0, <2>1, OtherKeys
<1>6. CASE UpsertSeller(s)
  <2>1. row' = row \/ \E x : /\ x.kind = "seller" /\ Insert(s, x, "snapshot")
                             /\ x.keys = SellerKeys(op[s].seller) /\ op[s].seller # Nobody
    BY <1>6 DEF UpsertSeller, Row
  <2>2. op[s] \in Operations
    BY <1>6 DEF UpsertSeller, SessionOK, Closed
  <2> QED  BY <1>0, <2>1, <2>2, NewSeller
<1>7. CASE PersistSnapshot(s)
  <2>1. \/ row' = row
        \/ \E x : /\ Insert(s, x, AfterSnapshot(s)) /\ x.keys = {SnapKey(x.sku, x.at, x.of)}
                  /\ x.of = seller[s] /\ x.by = op[s].seller
    BY <1>7 DEF PersistSnapshot, Snapshot
  <2>2. SoldBy(op[s].seller, seller[s], Visible(s))
    BY <1>7 DEF PersistSnapshot, SellerOK
  <2> QED  BY <1>0, <2>1, <2>2, OtherKeys DEF Traced
<1>8. CASE ReadLatest(s)
  <2>1. CASE row' = row
    BY <1>0, <2>1
  <2>2. CASE row' # row
    <3>1. PICK x \in LatestOf(s, op[s].sku) :
            row' = [row EXCEPT ![s] = Snapshot(NewId(s, "snapshot"), op[s].sku,
                                               op[s].at, x.of, x.seen, x.by)]
      BY <1>8, <2>2 DEF ReadLatest
    <3>2. /\ row'[s].keys = {SnapKey(row'[s].sku, row'[s].at, row'[s].of)}
          /\ row'[s].of = x.of /\ row'[s].by = x.by
      BY <3>1 DEF Snapshot
    <3>3. x \in Visible(s) /\ x.kind = "snapshot"
      BY <3>1 DEF LatestOf
    <3>4. Traced(x, Visible(s))
      BY <3>3, TracedStays DEF Visible, SellerOK
    <3>5. SoldBy(x.by, x.of, Visible(s))
      BY <3>3, <3>4 DEF Traced
    <3> QED  BY <1>0, <3>2, <3>5, OtherKeys DEF Traced
  <2> QED  BY <2>1, <2>2
<1>9. CASE CopyLatest(s)
  BY <1>0, <1>9 DEF CopyLatest, NoRow, Row
<1> QED  BY <1>1, <1>2, <1>3, <1>4, <1>5, <1>6, <1>7, <1>8, <1>9 DEF LookUp

\* The seller that a look-up finds for an operation.
LEMMA SellerFound ==
    ASSUME Functions, SellersAreConsistent, \A x \in db : Coherent(x),
           NEW s \in Sessions, SessionOK(s), SellerOK(s), LookUp(s)
    PROVE  /\ BeforeSeller(s)' => seller'[s] = Nobody
           /\ pc'[s] = "snapshot" => SoldBy(op[s].seller, seller'[s], Visible(s))
           /\ pc'[s] = "add" /\ next'[s] = "snapshot" =>
                /\ op[s].seller # Nobody /\ row'[s].id = seller'[s]
                /\ row'[s].keys = SellerKeys(op[s].seller)
<1> USE DEF Functions, Goto, Insert
<1>1. CASE UpsertSeller(s)
  <2> DEFINE d     == op[s].seller
             byId  == IF d.external = Nobody THEN {} ELSE Found(s, <<"seller", d.external>>)
             own   == IF d.first THEN Found(s, <<"first_party">>) ELSE {}
             found == IF byId # {} THEN byId ELSE own
  <2>0. op[s] \in Operations /\ pc[s] = "seller"
    BY <1>1 DEF UpsertSeller, SessionOK, Closed
  <2>1. CASE d = Nobody
    <3>1. pc'[s] = "snapshot" /\ seller' = seller
      BY <1>1, <2>1 DEF UpsertSeller
    <3>2. seller[s] = Nobody
      BY <2>0 DEF SellerOK, BeforeSeller
    <3> QED  BY <2>1, <3>1, <3>2 DEF SoldBy, Identified, BeforeSeller
  <2>2. CASE d # Nobody /\ found # {}
    <3>1. PICK x \in found : seller' = [seller EXCEPT ![s] = x.id]
      BY <1>1, <2>2 DEF UpsertSeller
    <3>2. pc'[s] = "snapshot" /\ seller'[s] = x.id
      BY <1>1, <2>2, <3>1 DEF UpsertSeller
    <3>3. x \in Visible(s) /\ Coherent(x)
      BY <3>1 DEF Found, SellerOK, Visible
    <3>4. Identified(d) => KeyOf(d) \in x.keys
      <4>1. CASE byId # {}
        <5>1. <<"seller", d.external>> \in x.keys
          BY <3>1, <4>1 DEF Found
        <5> QED  BY <2>0, <2>2, <3>3, <5>1 DEF Coherent, KeyOf
      <4>2. CASE byId = {}
        <5>1. d.first /\ <<"first_party">> \in x.keys
          BY <2>2, <3>1, <4>2 DEF Found
        <5> QED  BY <5>1 DEF KeyOf
      <4> QED  BY <4>1, <4>2
    <3> QED  BY <2>2, <3>2, <3>3, <3>4 DEF SoldBy, BeforeSeller
  <2>3. CASE d # Nobody /\ found = {}
    <3>1. /\ pc'[s] = "add" /\ next'[s] = "snapshot" /\ row'[s].keys = SellerKeys(d)
          /\ row'[s].id = NewId(s, "seller") /\ seller'[s] = NewId(s, "seller")
      BY <1>1, <2>3 DEF UpsertSeller, Row
    <3> QED  BY <2>3, <3>1 DEF BeforeSeller
  <2> QED  BY <2>1, <2>2, <2>3
<1>2. CASE PersistSnapshot(s) \/ ShowHit(s) \/ CopyLatest(s)
  BY <1>2 DEF PersistSnapshot, ShowHit, CopyLatest, AfterSnapshot, BeforeSeller, locals
<1>3. CASE UpsertBrand(s) \/ NewProduct(s)
  <2>1. BeforeSeller(s) /\ seller' = seller
    BY <1>3 DEF UpsertBrand, NewProduct, BeforeSeller
  <2>2. pc'[s] = "resolve" \/ (pc'[s] = "add" /\ next'[s] \in {"resolve", "attach"})
    BY <1>3 DEF UpsertBrand, NewProduct
  <2> QED  BY <2>1, <2>2 DEF SellerOK
<1>4. CASE ResolveByIdentifier(s) \/ ResolveByListing(s)
  <2>1. BeforeSeller(s) /\ seller' = seller
    BY <1>4 DEF ResolveByIdentifier, ResolveByListing, BeforeSeller
  <2>2. pc'[s] \in {"resolve", "attach", "product"}
    BY <1>4 DEF ResolveByIdentifier, ResolveByListing
  <2> QED  BY <2>1, <2>2 DEF SellerOK
<1>5. CASE AttachIdentifier(s) \/ UpsertListing(s)
  <2>1. BeforeSeller(s) /\ seller' = seller /\ pc[s] = "attach"
    BY <1>5 DEF AttachIdentifier, UpsertListing, BeforeSeller
  <2>2. \/ pc'[s] \in {"attach", "touch"}
        \/ (pc'[s] = "add" /\ next'[s] \in {"attach", "seller"})
    <3>1. \/ pc' = pc \/ Goto(s, "touch")
          \/ \E x : Insert(s, x, "attach") \/ Insert(s, x, "seller")
      BY <1>5 DEF AttachIdentifier, UpsertListing
    <3> QED  BY <2>1, <3>1
  <2> QED  BY <2>1, <2>2 DEF SellerOK
<1>6. CASE ReadLatest(s)
  <2>1. BeforeSeller(s) /\ seller' = seller
    BY <1>6 DEF ReadLatest, BeforeSeller
  <2>2. pc'[s] \in {"seller", "ready", "copy"}
    BY <1>6 DEF ReadLatest
  <2> QED  BY <2>1, <2>2 DEF SellerOK
<1> QED  BY <1>1, <1>2, <1>3, <1>4, <1>5, <1>6 DEF LookUp

LEMMA SellerOfItself ==
    ASSUME IInv, SellersAreConsistent, SellerInv,
           NEW s \in Sessions, Begin(s) \/ Step(s) \/ Abandon(s)
    PROVE  SellerOK(s)'
<1>0. /\ Functions /\ SessionOK(s) /\ SellerOK(s)
      /\ \A x \in db : Coherent(x) /\ Traced(x, db)
      /\ Coherent(NoRow) /\ \A S : Traced(NoRow, S)
  BY DEF IInv, SellerInv, NoRow, Row, Coherent, Traced
<1>1. CASE LookUp(s)
  <2>1. mine' = mine /\ op' = op /\ Visible(s)' = Visible(s)
    BY <1>1, LookUpsRead DEF Visible
  <2>2. Coherent(row'[s]) /\ Traced(row'[s], Visible(s))
    BY <1>0, <1>1, RowTraced
  <2>3. /\ BeforeSeller(s)' => seller'[s] = Nobody
        /\ pc'[s] = "snapshot" => SoldBy(op[s].seller, seller'[s], Visible(s))
        /\ pc'[s] = "add" /\ next'[s] = "snapshot" =>
             /\ op[s].seller # Nobody /\ row'[s].id = seller'[s]
             /\ row'[s].keys = SellerKeys(op[s].seller)
    BY <1>0, <1>1, SellerFound
  <2> QED  BY <1>0, <2>1, <2>2, <2>3 DEF SellerOK
<1>2. CASE Begin(s)
  <2>1. /\ mine' = mine /\ row' = row /\ pc'[s] = "ready" /\ Visible(s)' = Visible(s)
    BY <1>0, <1>2 DEF Begin, Functions, Goto, locals, Visible
  <2> QED  BY <1>0, <2>1 DEF SellerOK, BeforeSeller
<1>3. CASE Start(s)
  <2>1. /\ mine' = mine /\ row' = row /\ Visible(s)' = Visible(s)
        /\ seller'[s] = Nobody /\ pc'[s] \in {"brand", "seller", "latest"}
    BY <1>0, <1>3, OperationAssumption DEF Start, Functions, Goto, Visible
  <2> QED  BY <1>0, <2>1 DEF SellerOK
<1>4. CASE TouchListing(s)
  <2>1. /\ mine' = mine /\ row' = row /\ Visible(s)' = Visible(s) /\ seller' = seller
        /\ pc'[s] = "seller" /\ pc[s] = "touch"
    BY <1>0, <1>4 DEF TouchListing, Functions, Goto, locals, Visible
  <2> QED  BY <1>0, <2>1 DEF SellerOK, BeforeSeller
<1>5. CASE Add(s)
  <2>1. /\ pc[s] = "add" /\ pc'[s] = next[s] /\ mine'[s] = mine[s] \cup {row[s]}
        /\ row'[s] = NoRow /\ op' = op /\ seller' = seller
        /\ Visible(s)' = Visible(s) \cup {row[s]}
    BY <1>0, <1>5 DEF Add, Functions, Goto, Visible
  <2>2. next[s] \in {"ready", "resolve", "attach", "seller", "snapshot", "hit"}
    BY <1>0 DEF SessionOK
  <2>3. \A x \in mine'[s] : Coherent(x) /\ Traced(x, Visible(s)')
    BY <1>0, <2>1, TracedStays DEF SellerOK
  <2>4. ASSUME next[s] = "snapshot"
        PROVE  SoldBy(op[s].seller, seller[s], Visible(s)')
    <3>1. /\ op[s].seller # Nobody /\ row[s].id = seller[s] /\ row[s] \in Visible(s)'
          /\ row[s].keys = SellerKeys(op[s].seller)
      BY <1>0, <2>1, <2>4 DEF SellerOK
    <3>2. op[s] \in Operations
      BY <1>0, <2>1 DEF SessionOK, Closed
    <3>3. Identified(op[s].seller) => KeyOf(op[s].seller) \in row[s].keys
      BY <3>1, <3>2, NewSeller
    <3> QED  BY <3>1, <3>3 DEF SoldBy
  <2>5. BeforeSeller(s)' => seller[s] = Nobody
    BY <1>0, <2>1, <2>2 DEF SellerOK, BeforeSeller
  <2> QED  BY <1>0, <2>1, <2>2, <2>3, <2>4, <2>5 DEF SellerOK
<1>6. CASE \E how \in Closed : Close(s, how)
  <2>1. mine'[s] = {} /\ row'[s] = NoRow /\ pc'[s] \in Closed
    BY <1>0, <1>6, Ends
  <2> QED  BY <1>0, <2>1 DEF SellerOK, BeforeSeller, Closed
<1>7. AddFails(s) \/ DeadlockVictim(s) \/ Commit(s) \/ Abandon(s) =>
        \E how \in Closed : Close(s, how)
  BY DEF AddFails, DeadlockVictim, Commit, Abandon, Closed
<1> QED  BY <1>1, <1>2, <1>3, <1>4, <1>5, <1>6, <1>7, Steps

LEMMA SellerStep ==
    ASSUME IInv, SellersAreConsistent, SellerInv,
           NEW s \in Sessions, Begin(s) \/ Step(s) \/ Abandon(s)
    PROVE  SellerInv'
<1>0. Functions /\ \A q \in Sessions : SellerOK(q)
  BY DEF IInv, SellerInv
<1>1. ASSUME NEW x \in db'
      PROVE  Coherent(x) /\ Traced(x, db')
  <2>1. CASE x \in db
    BY <1>0, <2>1, DatabaseGrows, TracedStays DEF SellerInv
  <2>2. CASE x \in mine[s] /\ db' = db \cup mine[s]
    BY <1>0, <2>2 DEF SellerOK, Visible
  <2> QED  BY <1>0, <2>1, <2>2, DatabaseGrows
<1>2. ASSUME NEW u \in Sessions, u # s
      PROVE  SellerOK(u)'
  <2>1. /\ mine'[u] = mine[u] /\ row'[u] = row[u] /\ pc'[u] = pc[u] /\ next'[u] = next[u]
        /\ op'[u] = op[u] /\ seller'[u] = seller[u]
        /\ Visible(u) \subseteq Visible(u)'
    BY <1>0, <1>2, OthersStay, VisibleGrows
  <2>2. /\ \A x \in mine'[u] : Coherent(x) /\ Traced(x, Visible(u)')
        /\ Coherent(row'[u]) /\ Traced(row'[u], Visible(u)')
    BY <1>0, <2>1, TracedStays DEF SellerOK
  <2>3. pc'[u] = "snapshot" => SoldBy(op'[u].seller, seller'[u], Visible(u)')
    BY <1>0, <2>1, TracedStays DEF SellerOK
  <2> QED  BY <1>0, <2>1, <2>2, <2>3 DEF SellerOK, BeforeSeller
<1>3. SellerOK(s)'
  BY SellerOfItself
<1> QED  BY <1>1, <1>2, <1>3 DEF SellerInv

LEMMA StoredOnceFromSellers == IInv /\ SellerInv => StoredOnce
<1> SUFFICES ASSUME IInv, SellerInv, NEW x \in Snapshots, NEW y \in Snapshots,
                    x.sku = y.sku, x.at = y.at, x.by = y.by,
                    x.by # Nobody => x.by.external # Nobody \/ x.by.first
             PROVE  x = y
  BY DEF StoredOnce
<1>1. /\ x \in db /\ y \in db /\ Traced(x, db) /\ Traced(y, db)
      /\ x.kind = "snapshot" /\ y.kind = "snapshot"
  BY DEF Snapshots, SellerInv
<1>2. \A v, w \in db : v.keys \cap w.keys # {} => v = w
  BY DEF IInv, KeyInv, UniqueIn
<1>3. SoldBy(x.by, x.of, db) /\ SoldBy(x.by, y.of, db)
  BY <1>1 DEF Traced
<1>4. x.of = y.of
  <2>1. CASE x.by = Nobody
    BY <1>3, <2>1 DEF SoldBy
  <2>2. CASE x.by # Nobody
    <3>1. Identified(x.by)
      BY <2>2 DEF Identified
    <3>2. PICK v \in db : v.id = x.of /\ KeyOf(x.by) \in v.keys
      BY <1>3, <3>1 DEF SoldBy
    <3>3. PICK w \in db : w.id = y.of /\ KeyOf(x.by) \in w.keys
      BY <1>3, <3>1 DEF SoldBy
    <3>4. v = w
      BY <1>2, <3>2, <3>3
    <3> QED  BY <3>2, <3>3, <3>4
  <2> QED  BY <2>1, <2>2
<1>5. x.keys = {SnapKey(x.sku, x.at, x.of)} /\ y.keys = {SnapKey(x.sku, x.at, x.of)}
  BY <1>1, <1>4 DEF Traced
<1> QED  BY <1>1, <1>2, <1>5

\* An observation of a seller that can be told apart is stored once, however
\* many sessions bring it, as long as no external seller id is given both to
\* the retailer itself and to somebody else (_upsert_seller, _persist_snapshot).
THEOREM ObservationsAreStoredOnce == SellersAreConsistent => (Spec => []StoredOnce)
<1> SUFFICES ASSUME SellersAreConsistent PROVE Spec => []StoredOnce
  OBVIOUS
<1>1. Init => SellerInv
  BY DEF Init, SellerInv, SellerOK, Coherent, Traced, BeforeSeller, NoRow, Row
<1>2. IInv /\ SellerInv /\ [Next]_vars => SellerInv'
  <2> SUFFICES ASSUME IInv, SellerInv, [Next]_vars PROVE SellerInv'
    OBVIOUS
  <2>1. CASE UNCHANGED vars
    BY <2>1 DEF vars, SellerInv, SellerOK, Coherent, Traced, SoldBy, BeforeSeller, Visible
  <2> QED  BY <2>1, SellerStep DEF Next, Idle
<1> QED  BY <1>1, <1>2, InductiveInvariant, StoredOnceFromSellers, PTL DEF Spec

-----------------------------------------------------------------------------
(* Listings compared.                                                      *)

Compared == /\ left \in Listings
            /\ right # None => right \in Listings

\* The pair compared is one of two listings.
THEOREM PairsAreListings == MatchSpec => []Compared
<1>1. MatchInit => Compared
  BY DEF MatchInit, Compared
<1>2. Compared /\ [MatchNext]_pair => Compared'
  BY DEF Compared, MatchNext, Compare, pair
<1> QED  BY <1>1, <1>2, PTL DEF MatchSpec

-----------------------------------------------------------------------------
(* The evidence.                                                           *)

LEMMA MatchesAreSymmetric ==
    ASSUME NEW l, NEW r
    PROVE  IdentifierMatches(l, r) = IdentifierMatches(r, l)
BY DEF IdentifierMatches

LEMMA ConflictsAreSymmetric ==
    ASSUME NEW l, NEW r
    PROVE  IdentifierConflicts(l, r) = IdentifierConflicts(r, l)
BY DEF IdentifierConflicts

LEMMA OverlapIsSymmetric ==
    ASSUME NEW l, NEW r
    PROVE  Overlapping(l, r) = Overlapping(r, l)
BY DEF Overlapping

\* The stated and derived variants and the accessory do not depend on the order.
LEMMA VariantsAreSymmetric ==
    ASSUME NEW l, NEW r
    PROVE  /\ VariantConflicts(l, r) = VariantConflicts(r, l)
           /\ AccessoryMismatch(l, r) = AccessoryMismatch(r, l)
<1>1. \A key, a, b : ValuesAgree(key, a, b) <=> ValuesAgree(key, b, a)
  BY DEF ValuesAgree, ColorsAgree
<1> QED  BY <1>1, OverlapIsSymmetric DEF VariantConflicts, AccessoryMismatch

LEMMA AttributesAreSymmetric ==
    ASSUME NEW l, NEW r, TextsCompareAlike(l, r)
    PROVE  CompareAttributes(l, r) = CompareAttributes(r, l)
BY VariantsAreSymmetric, OverlapIsSymmetric, Zenon DEF TextsCompareAlike, CompareAttributes

-----------------------------------------------------------------------------
(* The decision.                                                           *)

\* The branch of decide, which no similarity has a part in.
Basis(matches, conflicts, attr) ==
    IF conflicts # {} THEN "conflict"
    ELSE IF matches # {} /\ (attr.variants # {} \/ attr.brand = FALSE) THEN "review"
    ELSE IF attr.accessory THEN "differ"
    ELSE IF attr.variants # {} THEN "differ"
    ELSE IF matches # {} THEN "identified"
    ELSE IF attr.model = FALSE THEN "differ"
    ELSE IF attr.brand = FALSE THEN "differ"
    ELSE IF attr.brand = TRUE /\ attr.model = TRUE THEN "described"
    ELSE "similar"

BasisOf(l, r) ==
    Basis(IdentifierMatches(l, r), IdentifierConflicts(l, r), CompareAttributes(l, r))

\* What a branch decides, up to the confidence and the score.
Outcome(basis, result) ==
    /\ basis = "conflict"   => /\ result.class = "DIFFERENT_PRODUCT"
                               /\ result.method = "exact_identifier"
    /\ basis = "review"     => /\ result.class = "NEEDS_REVIEW"
                               /\ result.method = "conflicting_evidence"
    /\ basis = "differ"     => /\ result.class = "DIFFERENT_PRODUCT"
                               /\ result.method = "normalized_attributes"
    /\ basis = "identified" => /\ result.class = "SAME_PRODUCT"
                               /\ result.method = "exact_identifier"
    /\ basis = "described"  => /\ result.class = "SAME_PRODUCT"
                               /\ result.method = "normalized_attributes"
    /\ basis = "similar"    => /\ result.class \in {"POSSIBLE_MATCH", "NEEDS_REVIEW",
                                                    "DIFFERENT_PRODUCT"}
                               /\ result.method = "combined"

LEMMA ResultIs ==
    ASSUME NEW class, NEW method, NEW confidence, NEW score
    PROVE  /\ Result(class, method, confidence, score).class = class
           /\ Result(class, method, confidence, score).method = method
BY DEF Result

LEMMA SimilarityDecides ==
    ASSUME NEW brand, NEW title, NEW embedding, NEW composite
    PROVE  LET result == DecideBySimilarity(brand, title, embedding, composite) IN
           /\ result.class \in {"POSSIBLE_MATCH", "NEEDS_REVIEW", "DIFFERENT_PRODUCT"}
           /\ result.method = "combined"
<1> DEFINE high == title >= TitleHigh /\ embedding >= EmbeddingHigh
           some == title >= TitleMedium \/ embedding >= EmbeddingMedium
           more == composite >= PossibleMin
           enough == composite >= ReviewMin
           result == DecideBySimilarity(brand, title, embedding, composite)
<1>1. \/ result = Result("POSSIBLE_MATCH", "combined", "medium", Greatest(composite, PossibleMin))
      \/ result = Result("NEEDS_REVIEW", "combined", "low", Greatest(composite, ReviewMin))
      \/ result = Result("POSSIBLE_MATCH", "combined", "low", composite)
      \/ result = Result("NEEDS_REVIEW", "combined", "low", composite)
      \/ result = Result("DIFFERENT_PRODUCT", "combined", "medium", composite)
  <2>1. result =
          CASE high /\ brand = TRUE ->
                 Result("POSSIBLE_MATCH", "combined", "medium", Greatest(composite, PossibleMin))
            [] high /\ brand = None ->
                 Result("NEEDS_REVIEW", "combined", "low", Greatest(composite, ReviewMin))
            [] more /\ some /\ ~high ->
                 Result("POSSIBLE_MATCH", "combined", "low", composite)
            [] enough /\ ~high /\ ~(more /\ some) ->
                 Result("NEEDS_REVIEW", "combined", "low", composite)
            [] OTHER -> Result("DIFFERENT_PRODUCT", "combined", "medium", composite)
    BY Zenon DEF DecideBySimilarity
  <2> HIDE DEF high, some, more, enough, result
  <2> QED  BY <2>1
<1> HIDE DEF result
<1> QED  BY <1>1, ResultIs DEF result

LEMMA DecideByBasis ==
    ASSUME NEW l, NEW r, NEW title, NEW embedding
    PROVE  Outcome(BasisOf(l, r), Decide(l, r, title, embedding))
<1> DEFINE m == IdentifierMatches(l, r)
           c == IdentifierConflicts(l, r)
           attr == CompareAttributes(l, r)
           composite == Composite(IdentifierScore(m, c), AttributeScore(attr), title, embedding)
           noBrand == attr.brand = FALSE
           noModel == attr.model = FALSE
           both == attr.brand = TRUE /\ attr.model = TRUE
           review == Result("NEEDS_REVIEW", "conflicting_evidence", "medium",
                            Least(Greatest(composite, 4500), 7000))
           differ(method, cap) == Result("DIFFERENT_PRODUCT", method, "high",
                                         Least(composite, cap))
           described == Result("SAME_PRODUCT", "normalized_attributes",
                               IF title >= TitleMedium THEN "high" ELSE "medium",
                               Greatest(composite, SameMin))
           similar == DecideBySimilarity(attr.brand, title, embedding, composite)
           result == Decide(l, r, title, embedding)
<1>1. result =
        IF c # {} THEN differ("exact_identifier", 2000)
        ELSE IF m # {} /\ (attr.variants # {} \/ noBrand) THEN review
        ELSE IF attr.accessory THEN differ("normalized_attributes", 2500)
        ELSE IF attr.variants # {} THEN differ("normalized_attributes", 4500)
        ELSE IF m # {}
             THEN Result("SAME_PRODUCT", "exact_identifier", "high", Greatest(composite, 9000))
        ELSE IF noModel THEN differ("normalized_attributes", 4000)
        ELSE IF noBrand THEN differ("normalized_attributes", 3500)
        ELSE IF both THEN described
        ELSE similar
  BY DEF Decide
<1>2. /\ similar.class \in {"POSSIBLE_MATCH", "NEEDS_REVIEW", "DIFFERENT_PRODUCT"}
      /\ similar.method = "combined"
  BY SimilarityDecides
<1>3. \A class, method, confidence, score :
         /\ Result(class, method, confidence, score).class = class
         /\ Result(class, method, confidence, score).method = method
  BY DEF Result
<1>4. described.class = "SAME_PRODUCT" /\ described.method = "normalized_attributes"
  BY <1>3
<1> DEFINE basis ==
        IF c # {} THEN "conflict"
        ELSE IF m # {} /\ (attr.variants # {} \/ noBrand) THEN "review"
        ELSE IF attr.accessory THEN "differ"
        ELSE IF attr.variants # {} THEN "differ"
        ELSE IF m # {} THEN "identified"
        ELSE IF noModel THEN "differ"
        ELSE IF noBrand THEN "differ"
        ELSE IF both THEN "described"
        ELSE "similar"
<1>5. BasisOf(l, r) = basis
  BY Zenon DEF BasisOf, Basis
<1> SUFFICES Outcome(basis, result)
  BY <1>5
<1> HIDE DEF m, c, attr, noBrand, noModel, both, composite, described, similar, result
<1>6. CASE c # {}
  BY <1>1, <1>3, <1>6 DEF Outcome
<1>7. CASE c = {} /\ m # {} /\ (attr.variants # {} \/ noBrand)
  BY <1>1, <1>3, <1>7 DEF Outcome
<1>8. CASE c = {} /\ ~(m # {} /\ (attr.variants # {} \/ noBrand))
  <2>1. CASE attr.accessory
    BY <1>1, <1>3, <1>8, <2>1 DEF Outcome
  <2>2. CASE ~attr.accessory /\ attr.variants # {}
    BY <1>1, <1>3, <1>8, <2>2 DEF Outcome
  <2>3. CASE ~attr.accessory /\ attr.variants = {} /\ m # {}
    BY <1>1, <1>3, <1>8, <2>3 DEF Outcome
  <2>4. CASE ~attr.accessory /\ attr.variants = {} /\ m = {}
    <3>1. CASE noModel
      BY <1>1, <1>3, <1>8, <2>4, <3>1 DEF Outcome
    <3>2. CASE ~noModel /\ noBrand
      BY <1>1, <1>3, <1>8, <2>4, <3>2 DEF Outcome
    <3>3. CASE ~noModel /\ ~noBrand /\ both
      BY <1>1, <1>4, <1>8, <2>4, <3>3 DEF Outcome
    <3>4. CASE ~noModel /\ ~noBrand /\ ~both
      BY <1>1, <1>2, <1>8, <2>4, <3>4 DEF Outcome
    <3> QED  BY <3>1, <3>2, <3>3, <3>4
  <2> QED  BY <2>1, <2>2, <2>3, <2>4, <1>8
<1> QED  BY <1>6, <1>7, <1>8

LEMMA BasisType ==
    ASSUME NEW l, NEW r
    PROVE  BasisOf(l, r) \in {"conflict", "review", "differ", "identified", "described",
                              "similar"}
BY Zenon DEF BasisOf, Basis

\* What an identifier decides, it decides in both orders, but for the brand.
LEMMA IdentifiedInBothOrders ==
    ASSUME NEW l, NEW r
    PROVE  /\ BasisOf(l, r) = "conflict" => BasisOf(r, l) = "conflict"
           /\ BasisOf(l, r) = "identified" => BasisOf(r, l) \in {"identified", "review"}
<1> DEFINE m == IdentifierMatches(l, r)
           c == IdentifierConflicts(l, r)
           attr(x, y) == CompareAttributes(x, y)
           basis(x, y) ==
             IF c # {} THEN "conflict"
             ELSE IF m # {} /\ (attr(x, y).variants # {} \/ attr(x, y).brand = FALSE)
                  THEN "review"
             ELSE IF attr(x, y).accessory THEN "differ"
             ELSE IF attr(x, y).variants # {} THEN "differ"
             ELSE IF m # {} THEN "identified"
             ELSE IF attr(x, y).model = FALSE THEN "differ"
             ELSE IF attr(x, y).brand = FALSE THEN "differ"
             ELSE IF attr(x, y).brand = TRUE /\ attr(x, y).model = TRUE THEN "described"
             ELSE "similar"
<1>1. BasisOf(l, r) = basis(l, r) /\ BasisOf(r, l) = basis(r, l)
  BY MatchesAreSymmetric, ConflictsAreSymmetric, Zenon DEF BasisOf, Basis
<1>2. attr(l, r).variants = attr(r, l).variants /\ attr(l, r).accessory = attr(r, l).accessory
  BY VariantsAreSymmetric DEF CompareAttributes
<1> HIDE DEF m, c, attr
<1> QED  BY <1>1, <1>2

-----------------------------------------------------------------------------
(* Theorems.                                                               *)

\* Where the fuzzy comparisons of brands and models give one answer in both
\* orders, so does decide; where they do not, it reviews at most what an
\* identifier decided.
THEOREM VerdictSymmetric == MatchSpec => []VerdictIsSymmetric
<1>1. VerdictIsSymmetric
  <2>1. /\ IdentifierMatches(right, left) = IdentifierMatches(left, right)
        /\ IdentifierConflicts(right, left) = IdentifierConflicts(left, right)
    BY MatchesAreSymmetric, ConflictsAreSymmetric
  <2>2. ASSUME TextsCompareAlike(left, right)
        PROVE  Decide(right, left, titleScore, embeddingScore) = Verdict
    <3>1. CompareAttributes(right, left) = CompareAttributes(left, right)
      BY <2>2, AttributesAreSymmetric
    <3> QED  BY <2>1, <3>1 DEF Decide, Verdict
  <2>3. ASSUME Verdict.method = "exact_identifier", NEW title \in Scores
        PROVE  Decide(right, left, title, embeddingScore).class
                  \in {Verdict.class, "NEEDS_REVIEW"}
    <3> DEFINE here == BasisOf(left, right)
               there == BasisOf(right, left)
               other == Decide(right, left, title, embeddingScore)
    <3>1. Outcome(here, Verdict) /\ Outcome(there, other)
      BY DecideByBasis DEF Verdict
    <3>2. /\ here \in {"conflict", "review", "differ", "identified", "described", "similar"}
          /\ here = "conflict" => there = "conflict"
          /\ here = "identified" => there \in {"identified", "review"}
      BY <2>1, BasisType, IdentifiedInBothOrders
    <3> HIDE DEF here, there, other
    <3>3. other.class \in {Verdict.class, "NEEDS_REVIEW"}
      BY <2>3, <3>1, <3>2 DEF Outcome
    <3> QED  BY <3>3 DEF other
  <2> QED  BY <2>2, <2>3 DEF VerdictIsSymmetric
<1> QED  BY <1>1, PTL

\* A pair is the same product at every similarity or at none, and what decided
\* without the similarities decides alike at all of them.
THEOREM SimilarityMergesNothing == MatchSpec => []SimilarityNeverMerges
<1>1. SimilarityNeverMerges
  <2> SUFFICES ASSUME NEW title \in Scores, NEW embedding \in Scores
               PROVE  LET other == Decide(left, right, title, embedding) IN
                      /\ (Verdict.class = "SAME_PRODUCT") = (other.class = "SAME_PRODUCT")
                      /\ Verdict.method \in {"exact_identifier", "normalized_attributes"}
                            => other.class = Verdict.class
    BY DEF SimilarityNeverMerges
  <2> DEFINE basis == BasisOf(left, right)
             other == Decide(left, right, title, embedding)
  <2>1. Outcome(basis, Verdict) /\ Outcome(basis, other)
    BY DecideByBasis DEF Verdict
  <2>2. basis \in {"conflict", "review", "differ", "identified", "described", "similar"}
    BY BasisType
  <2> HIDE DEF basis, other
  <2>3. /\ (Verdict.class = "SAME_PRODUCT") <=> (other.class = "SAME_PRODUCT")
        /\ Verdict.method \in {"exact_identifier", "normalized_attributes"}
              => other.class = Verdict.class
    BY <2>1, <2>2 DEF Outcome
  <2> QED  BY <2>3 DEF other
<1> QED  BY <1>1, PTL

\* An identifier adds to the values of its own families, if anything is left of
\* it, and to nothing else.
Counts(id, f) ==
    /\ id[2] \notin Unusable
    /\ \/ FamilyOf(id[1]) = f
       \/ id[1] = "isbn" /\ f = "barcode" /\ id[2] \notin ShortIsbns

LEMMA OtherIdentifiers ==
    ASSUME NEW l \in Listings, NEW ids
    PROVE  LET new == [l EXCEPT !.identifiers = ids] IN
           /\ new.brand = l.brand /\ new.accessoryCategory = l.accessoryCategory
           /\ new.attributes = l.attributes /\ new.title = l.title
           /\ \A f : FamilyValues(new, f) =
                 {id[2] : id \in {n \in ids \cup ModelIdentifiers(l) : Counts(n, f)}}
<1> DEFINE new == [l EXCEPT !.identifiers = ids]
<1>1. /\ new.identifiers = ids
      /\ new.brand = l.brand /\ new.accessoryCategory = l.accessoryCategory
      /\ new.attributes = l.attributes /\ new.title = l.title
  BY ListingAssumption
<1> HIDE DEF new
<1>2. Identifiers(new) = ids \cup ModelIdentifiers(l)
  BY <1>1 DEF Identifiers, ModelIdentifiers
<1>3. ASSUME NEW f
      PROVE  FamilyValues(new, f) =
                {id[2] : id \in {n \in ids \cup ModelIdentifiers(l) : Counts(n, f)}}
  BY <1>2, Zenon DEF FamilyValues, Counts
<1> QED  BY <1>1, <1>3 DEF new

LEMMA OneMore ==
    ASSUME NEW ids, NEW models, NEW id, NEW f
    PROVE  {n[2] : n \in {j \in (ids \cup {id}) \cup models : Counts(j, f)}}
             = {n[2] : n \in {j \in ids \cup models : Counts(j, f)}}
                 \cup (IF Counts(id, f) THEN {id[2]} ELSE {})
<1>1. CASE Counts(id, f)
  <2>1. {j \in (ids \cup {id}) \cup models : Counts(j, f)}
          = {j \in ids \cup models : Counts(j, f)} \cup {id}
    BY <1>1
  <2> DEFINE old == {j \in ids \cup models : Counts(j, f)}
  <2> HIDE DEF old
  <2>2. {n[2] : n \in old \cup {id}} = {n[2] : n \in old} \cup {id[2]}
    OBVIOUS
  <2> QED  BY <1>1, <2>1, <2>2 DEF old
<1>2. CASE ~Counts(id, f)
  <2>1. {j \in (ids \cup {id}) \cup models : Counts(j, f)}
          = {j \in ids \cup models : Counts(j, f)}
    BY <1>2
  <2> QED  BY <1>2, <2>1
<1> QED  BY <1>1, <1>2

\* The other evidence does not look at identifiers.
LEMMA AttributesIgnoreIdentifiers ==
    ASSUME NEW l, NEW l1, NEW r, NEW r1,
           l1.brand = l.brand, l1.accessoryCategory = l.accessoryCategory,
           l1.attributes = l.attributes, l1.title = l.title,
           r1.brand = r.brand, r1.accessoryCategory = r.accessoryCategory,
           r1.attributes = r.attributes, r1.title = r.title
    PROVE  CompareAttributes(l1, r1) = CompareAttributes(l, r)
<1>1. /\ \A key : AttributeOf(l1, key) = AttributeOf(l, key)
      /\ \A key : AttributeOf(r1, key) = AttributeOf(r, key)
  BY Zenon DEF AttributeOf, Positions
<1>2. StatedKeys(l1) = StatedKeys(l) /\ StatedKeys(r1) = StatedKeys(r)
  BY <1>1 DEF StatedKeys
<1>3. Overlapping(l1, r1) = Overlapping(l, r)
  BY <1>2 DEF Overlapping
<1>4. VariantConflicts(l1, r1) = VariantConflicts(l, r)
  BY <1>1, <1>3 DEF VariantConflicts
<1>5. ModelHint(l1) = ModelHint(l) /\ ModelHint(r1) = ModelHint(r)
  BY <1>1 DEF ModelHint
<1>6. AccessoryMismatch(l1, r1) = AccessoryMismatch(l, r)
  BY DEF AccessoryMismatch, IsAccessory
<1> QED  BY <1>3, <1>4, <1>5, <1>6 DEF CompareAttributes

\* More matches and fewer conflicts, all else equal, tell two listings apart in
\* no branch that did not tell them apart before.
LEMMA BasisJoins ==
    ASSUME NEW m, NEW c, NEW attr, NEW m1, NEW c1, m \subseteq m1, c1 \subseteq c
    PROVE  \/ Basis(m, c, attr) \in {"conflict", "differ"}
           \/ Basis(m1, c1, attr) = "identified"
           \/ Basis(m1, c1, attr) = "review" /\ Basis(m, c, attr) = "review"
           \/ Basis(m1, c1, attr) = "described" /\ Basis(m, c, attr) = "described"
           \/ Basis(m1, c1, attr) = "similar" /\ m1 = m /\ c1 = c
<1> DEFINE noBrand == attr.brand = FALSE
           noModel == attr.model = FALSE
           both == attr.brand = TRUE /\ attr.model = TRUE
           branch(ms, cs) ==
              IF cs # {} THEN "conflict"
              ELSE IF ms # {} /\ (attr.variants # {} \/ noBrand) THEN "review"
              ELSE IF attr.accessory THEN "differ"
              ELSE IF attr.variants # {} THEN "differ"
              ELSE IF ms # {} THEN "identified"
              ELSE IF noModel THEN "differ"
              ELSE IF noBrand THEN "differ"
              ELSE IF both THEN "described"
              ELSE "similar"
<1>1. Basis(m, c, attr) = branch(m, c) /\ Basis(m1, c1, attr) = branch(m1, c1)
  BY Zenon DEF Basis
<1> HIDE DEF noBrand, noModel, both
<1>2. CASE c # {}
  BY <1>1, <1>2
<1>3. CASE c = {} /\ c1 = {} /\ m # {} /\ m1 # {}
  BY <1>1, <1>3
<1>4. CASE c = {} /\ c1 = {} /\ m = {} /\ m1 # {}
  <2>1. CASE attr.variants # {} \/ noBrand \/ attr.accessory
    BY <1>1, <1>4, <2>1
  <2>2. CASE ~(attr.variants # {} \/ noBrand) /\ ~attr.accessory
    BY <1>1, <1>4, <2>2
  <2> QED  BY <2>1, <2>2
<1>5. CASE c = {} /\ c1 = {} /\ m = {} /\ m1 = {}
  <2>1. CASE attr.variants # {} \/ noBrand \/ attr.accessory \/ noModel
    BY <1>1, <1>5, <2>1
  <2>2. CASE ~(attr.variants # {} \/ noBrand \/ attr.accessory \/ noModel)
    BY <1>1, <1>5, <2>2
  <2> QED  BY <2>1, <2>2
<1> QED  BY <1>2, <1>3, <1>4, <1>5

LEMMA Ranks ==
    /\ Rank("DIFFERENT_PRODUCT") = 0 /\ Rank("NEEDS_REVIEW") = 1 /\ Rank("SAME_PRODUCT") = 3
    /\ \A class : Rank(class) \in 0..3
BY DEF Rank

\* One more identifier in common never drives two listings apart.
THEOREM SharedIdentifiersJoin == MatchSpec => []SharedIdentifierNeverSeparates
<1>1. Compared => SharedIdentifierNeverSeparates
  <2> SUFFICES ASSUME left \in Listings, right \in Listings,
                      NEW id \in left.identifiers \cup right.identifiers
               PROVE  LET both(listing) == [listing EXCEPT !.identifiers = @ \cup {id}] IN
                      Rank(Decide(both(left), both(right), titleScore, embeddingScore).class)
                         >= Rank(Verdict.class)
    BY DEF Compared, SharedIdentifierNeverSeparates
  <2> DEFINE l == [left EXCEPT !.identifiers = @ \cup {id}]
             r == [right EXCEPT !.identifiers = @ \cup {id}]
             new == Decide(l, r, titleScore, embeddingScore)
  <2>1. CompareAttributes(l, r) = CompareAttributes(left, right)
    <3>1. /\ l.brand = left.brand /\ l.accessoryCategory = left.accessoryCategory
          /\ l.attributes = left.attributes /\ l.title = left.title
          /\ r.brand = right.brand /\ r.accessoryCategory = right.accessoryCategory
          /\ r.attributes = right.attributes /\ r.title = right.title
      BY OtherIdentifiers
    <3> HIDE DEF l, r
    <3> QED  BY <3>1, AttributesIgnoreIdentifiers
  <2>2. \A f : /\ FamilyValues(l, f) = FamilyValues(left, f)
                                         \cup (IF Counts(id, f) THEN {id[2]} ELSE {})
               /\ FamilyValues(r, f) = FamilyValues(right, f)
                                         \cup (IF Counts(id, f) THEN {id[2]} ELSE {})
    <3>1. \A x \in Listings : \A f :
             FamilyValues(x, f) =
                {n[2] : n \in {j \in x.identifiers \cup ModelIdentifiers(x) : Counts(j, f)}}
      BY Zenon DEF FamilyValues, Identifiers, Counts
    <3>2. /\ \A f : FamilyValues(l, f) = {n[2] : n \in {j \in
                       (left.identifiers \cup {id}) \cup ModelIdentifiers(left) : Counts(j, f)}}
          /\ \A f : FamilyValues(r, f) = {n[2] : n \in {j \in
                       (right.identifiers \cup {id}) \cup ModelIdentifiers(right) : Counts(j, f)}}
      BY OtherIdentifiers
    <3> TAKE f
    <3>3. FamilyValues(l, f) = FamilyValues(left, f)
                                 \cup (IF Counts(id, f) THEN {id[2]} ELSE {})
      <4> DEFINE models == ModelIdentifiers(left)
                 ids == left.identifiers
      <4>1. FamilyValues(left, f) =
               {n[2] : n \in {j \in ids \cup models : Counts(j, f)}}
        BY <3>1
      <4>2. FamilyValues(l, f) =
               {n[2] : n \in {j \in (ids \cup {id}) \cup models : Counts(j, f)}}
        BY <3>2
      <4> HIDE DEF models, ids, l
      <4>3. {n[2] : n \in {j \in (ids \cup {id}) \cup models : Counts(j, f)}}
              = {n[2] : n \in {j \in ids \cup models : Counts(j, f)}}
                  \cup (IF Counts(id, f) THEN {id[2]} ELSE {})
        BY OneMore
      <4> QED  BY <4>1, <4>2, <4>3
    <3>4. FamilyValues(r, f) = FamilyValues(right, f)
                                 \cup (IF Counts(id, f) THEN {id[2]} ELSE {})
      <4> DEFINE models == ModelIdentifiers(right)
                 ids == right.identifiers
      <4>1. FamilyValues(right, f) =
               {n[2] : n \in {j \in ids \cup models : Counts(j, f)}}
        BY <3>1
      <4>2. FamilyValues(r, f) =
               {n[2] : n \in {j \in (ids \cup {id}) \cup models : Counts(j, f)}}
        BY <3>2
      <4> HIDE DEF models, ids, r
      <4>3. {n[2] : n \in {j \in (ids \cup {id}) \cup models : Counts(j, f)}}
              = {n[2] : n \in {j \in ids \cup models : Counts(j, f)}}
                  \cup (IF Counts(id, f) THEN {id[2]} ELSE {})
        BY OneMore
      <4> QED  BY <4>1, <4>2, <4>3
    <3> QED  BY <3>3, <3>4
  <2> HIDE DEF l, r
  <2>3. IdentifierMatches(left, right) \subseteq IdentifierMatches(l, r)
    BY <2>2 DEF IdentifierMatches
  <2>4. IdentifierConflicts(l, r) \subseteq IdentifierConflicts(left, right)
    BY <2>2 DEF IdentifierConflicts
  <2>5. Outcome(BasisOf(left, right), Verdict) /\ Outcome(BasisOf(l, r), new)
    BY DecideByBasis DEF Verdict
  <2>6. \/ BasisOf(left, right) \in {"conflict", "differ"}
        \/ BasisOf(l, r) = "identified"
        \/ BasisOf(l, r) = BasisOf(left, right)
             /\ BasisOf(l, r) \in {"review", "described"}
        \/ /\ IdentifierMatches(l, r) = IdentifierMatches(left, right)
           /\ IdentifierConflicts(l, r) = IdentifierConflicts(left, right)
    BY <2>1, <2>3, <2>4, BasisJoins DEF BasisOf
  <2>7. CASE BasisOf(left, right) \in {"conflict", "differ"}
    <3>1. Verdict.class = "DIFFERENT_PRODUCT"
      BY <2>5, <2>7 DEF Outcome
    <3> QED  BY <3>1, Ranks DEF l, r
  <2>8. CASE BasisOf(l, r) = "identified"
    <3>1. new.class = "SAME_PRODUCT"
      BY <2>5, <2>8 DEF Outcome
    <3> QED  BY <3>1, Ranks DEF l, r
  <2>9. CASE BasisOf(l, r) = BasisOf(left, right) /\ BasisOf(l, r) \in {"review", "described"}
    <3>1. new.class = Verdict.class
      BY <2>5, <2>9 DEF Outcome
    <3> QED  BY <3>1, Ranks DEF l, r
  <2>10. CASE /\ IdentifierMatches(l, r) = IdentifierMatches(left, right)
              /\ IdentifierConflicts(l, r) = IdentifierConflicts(left, right)
    <3>1. new = Verdict
      BY <2>1, <2>10 DEF Decide, Verdict
    <3> QED  BY <3>1, Ranks DEF l, r
  <2> QED  BY <2>6, <2>7, <2>8, <2>9, <2>10
<1> QED  BY <1>1, PairsAreListings, PTL

\* An identifier that only one listing has, in families of which the other has
\* none, changes nothing.
THEOREM UnilateralIdentifiersDoNothing == MatchSpec => []UnilateralIdentifiersAreNeutral
<1>1. Compared => UnilateralIdentifiersAreNeutral
  <2> DEFINE without(id) == WithoutIdentifier(left, id)
  <2> SUFFICES ASSUME left \in Listings, NEW id \in left.identifiers,
                      \A f \in Families : FamilyValues(right, f) # {} =>
                          FamilyValues(without(id), f) = FamilyValues(left, f)
               PROVE  Decide(without(id), right, titleScore, embeddingScore) = Verdict
    BY DEF Compared, UnilateralIdentifiersAreNeutral
  <2>1. CompareAttributes(without(id), right) = CompareAttributes(left, right)
    <3> DEFINE l == WithoutIdentifier(left, id)
    <3>1. /\ l.brand = left.brand /\ l.accessoryCategory = left.accessoryCategory
          /\ l.attributes = left.attributes /\ l.title = left.title
      BY OtherIdentifiers DEF WithoutIdentifier
    <3> HIDE DEF l
    <3>2. CompareAttributes(l, right) = CompareAttributes(left, right)
      BY <3>1, AttributesIgnoreIdentifiers
    <3> QED  BY <3>2 DEF l
  <2>2. IdentifierMatches(without(id), right) = IdentifierMatches(left, right)
    BY DEF IdentifierMatches
  <2>3. IdentifierConflicts(without(id), right) = IdentifierConflicts(left, right)
    BY DEF IdentifierConflicts
  <2> HIDE DEF without
  <2> QED  BY <2>1, <2>2, <2>3 DEF Decide, Verdict
<1> QED  BY <1>1, PairsAreListings, PTL

-----------------------------------------------------------------------------
(* What only one listing says of itself.                                   *)

LEMMA BelowIsWellFounded == IsWellFoundedOn(OpToRel(<, Nat), Nat)
BY NatLessThanWellFounded

LEMMA MinimalNumber ==
    ASSUME NEW R, IsWellFoundedOn(R, Nat), NEW S \in SUBSET Nat, S # {}
    PROVE  \E m \in S : \A n \in S : ~(<<n, m>> \in R)
BY WFMin

LEMMA BelowIsRelated ==
    ASSUME NEW x \in Nat, NEW y \in Nat, y < x
    PROVE  <<y, x>> \in OpToRel(<, Nat)
BY Zenon DEF OpToRel

\* A set of positions has a last one.
LEMMA MaxIsThere ==
    ASSUME NEW n \in Nat, NEW S \in SUBSET (1..n), S # {}
    PROVE  Max(S) \in S
<1> DEFINE T == {n - x : x \in S}
<1>1. T \in SUBSET Nat /\ T # {}
  <2>1. \A x \in S : x \in 1..n /\ n - x \in Nat
    OBVIOUS
  <2> QED  BY <2>1
<1>2. PICK d \in T : \A y \in T : ~(<<y, d>> \in OpToRel(<, Nat))
  BY <1>1, BelowIsWellFounded, MinimalNumber
<1>3. \A y \in T : y \in Nat /\ ~(y < d)
  BY <1>1, <1>2, BelowIsRelated
<1>4. PICK m \in S : d = n - m
  OBVIOUS
<1>5. \A x \in S : n - x \in T /\ x \in 1..n
  OBVIOUS
<1>6. \A x \in S : m >= x
  <2> SUFFICES ASSUME NEW x \in S PROVE m >= x
    OBVIOUS
  <2>1. ~(n - x < n - m) /\ x \in Nat /\ m \in Nat
    BY <1>3, <1>4, <1>5
  <2> QED  BY <2>1
<1> QED  BY <1>4, <1>6 DEF Max

\* Leaving out what a listing says under one key leaves the rest.
LEMMA OtherAttributes ==
    ASSUME NEW l \in Listings, NEW key
    PROVE  LET new == WithoutAttribute(l, key) IN
           /\ new.identifiers = l.identifiers /\ new.brand = l.brand
           /\ new.accessoryCategory = l.accessoryCategory /\ new.title = l.title
           /\ new.attributes = [n \in DOMAIN l.attributes \ Positions(l, key)
                                  |-> l.attributes[n]]
BY ListingAssumption DEF WithoutAttribute

LEMMA SamePositions ==
    ASSUME NEW l \in Listings, NEW key, NEW k, k # key
    PROVE  LET new == WithoutAttribute(l, key) IN
           /\ Positions(new, k) = Positions(l, k)
           /\ \A n \in Positions(l, k) : new.attributes[n] = l.attributes[n]
<1> DEFINE new == WithoutAttribute(l, key)
<1>1. new.attributes = [n \in DOMAIN l.attributes \ Positions(l, key) |-> l.attributes[n]]
  BY OtherAttributes
<1> HIDE DEF new
<1>2. \A n \in DOMAIN l.attributes :
         n \in Positions(l, key) <=> CanonicalKey(l.attributes[n][1]) = key
  BY Zenon DEF Positions
<1>3. DOMAIN new.attributes = DOMAIN l.attributes \ Positions(l, key)
  BY <1>1
<1>4. \A n \in DOMAIN new.attributes : new.attributes[n] = l.attributes[n]
  BY <1>1
<1>5. \A n : n \in Positions(new, k) <=> n \in DOMAIN new.attributes
                                        /\ CanonicalKey(new.attributes[n][1]) = k
  BY Zenon DEF Positions
<1>6. \A n : n \in Positions(l, k) <=> n \in DOMAIN l.attributes
                                      /\ CanonicalKey(l.attributes[n][1]) = k
  BY Zenon DEF Positions
<1>7. \A n : n \in Positions(l, k) <=> n \in Positions(new, k)
  BY <1>2, <1>3, <1>4, <1>5, <1>6
<1>8. Positions(new, k) = Positions(l, k)
  BY <1>7, Zenon DEF Positions
<1> QED  BY <1>4, <1>5, <1>8, Zenon DEF new

LEMMA SameAttribute ==
    ASSUME NEW l \in Listings, NEW key, NEW k, k # key
    PROVE  AttributeOf(WithoutAttribute(l, key), k) = AttributeOf(l, k)
<1> DEFINE new == WithoutAttribute(l, key)
<1>1. /\ Positions(new, k) = Positions(l, k) /\ new.title = l.title
      /\ \A n \in Positions(l, k) : new.attributes[n] = l.attributes[n]
  <2>1. /\ Positions(new, k) = Positions(l, k)
        /\ \A n \in Positions(l, k) : new.attributes[n] = l.attributes[n]
    BY SamePositions
  <2>2. new.title = l.title
    BY OtherAttributes
  <2> QED  BY <2>1, <2>2
<1>2. Positions(l, k) # {} => Max(Positions(l, k)) \in Positions(l, k)
  <2>1. PICK n \in Nat : DOMAIN l.attributes = 1..n
    <3>1. l.attributes \in Seq(ToSet(l.attributes))
      BY ListingAssumption
    <3> QED  BY <3>1
  <2>2. Positions(l, k) \in SUBSET (1..n)
    BY <2>1 DEF Positions
  <2> QED  BY <2>2, MaxIsThere
<1> HIDE DEF new
<1>3. ASSUME Positions(l, k) = {}
      PROVE  AttributeOf(new, k) = AttributeOf(l, k)
  <2> DEFINE said(x) == IF k \in DOMAIN TitleAttributes(x.title)
                        THEN TitleAttributes(x.title)[k] ELSE None
  <2>1. AttributeOf(new, k) = said(new) /\ AttributeOf(l, k) = said(l)
    BY <1>1, <1>3, Zenon DEF AttributeOf
  <2>2. said(new) = said(l)
    BY <1>1
  <2> QED  BY <2>1, <2>2
<1>4. ASSUME Positions(l, k) # {}
      PROVE  AttributeOf(new, k) = AttributeOf(l, k)
  <2>1. /\ AttributeOf(new, k) = new.attributes[Max(Positions(l, k))][2]
        /\ AttributeOf(l, k) = l.attributes[Max(Positions(l, k))][2]
    BY <1>1, <1>4, Zenon DEF AttributeOf
  <2> QED  BY <1>1, <1>2, <1>4, <2>1
<1> QED  BY <1>3, <1>4 DEF new

\* Keys of which one listing says nothing are compared with nothing.
LEMMA SameComparison ==
    ASSUME NEW l \in Listings, NEW r,
           NEW key, key \notin StatedKeys(r), key # "model"
    PROVE  CompareAttributes(WithoutAttribute(l, key), r) = CompareAttributes(l, r)
<1> DEFINE new == WithoutAttribute(l, key)
<1>1. /\ new.brand = l.brand /\ new.title = l.title
      /\ new.accessoryCategory = l.accessoryCategory
  BY OtherAttributes
<1>2. \A k : k # key => /\ AttributeOf(new, k) = AttributeOf(l, k)
                        /\ Positions(new, k) = Positions(l, k)
  BY SameAttribute, SamePositions
<1> HIDE DEF new
<1>3. \A x : \A k : k \in {CanonicalKey(a[1]) : a \in ToSet(x.attributes)}
                        <=> Positions(x, k) # {}
  BY DEF Positions, ToSet
<1>4. \A x : \A k : k \in StatedKeys(x) <=>
         /\ k \in VariantKeys \/ Positions(x, k) # {}
         /\ AttributeOf(x, k) # None
  <2> TAKE x
  <2> DEFINE own == {CanonicalKey(a[1]) : a \in ToSet(x.attributes)}
  <2>1. StatedKeys(x) = {k \in VariantKeys \cup own : AttributeOf(x, k) # None}
    BY Zenon DEF StatedKeys
  <2>2. \A k : k \in own <=> Positions(x, k) # {}
    BY <1>3
  <2> HIDE DEF own
  <2> QED  BY <2>1, <2>2
<1>5. \A k : k # key => (k \in StatedKeys(new) <=> k \in StatedKeys(l))
  BY <1>2, <1>4
<1>6. Overlapping(new, r) = Overlapping(l, r) /\ key \notin Overlapping(l, r)
  BY <1>5 DEF Overlapping
<1>7. VariantConflicts(new, r) = VariantConflicts(l, r)
  BY <1>2, <1>6 DEF VariantConflicts
<1>8. ModelHint(new) = ModelHint(l)
  BY <1>1, <1>2 DEF ModelHint
<1>9. AccessoryMismatch(new, r) = AccessoryMismatch(l, r)
  BY <1>1 DEF AccessoryMismatch, IsAccessory
<1>10. CompareAttributes(new, r) = CompareAttributes(l, r)
  BY <1>1, <1>6, <1>7, <1>8, <1>9 DEF CompareAttributes
<1> QED  BY <1>10 DEF new

\* Only a model number is an attribute and an identifier.
LEMMA SameIdentifiers ==
    ASSUME NEW l \in Listings, NEW key, key \notin {"model", "model_no"}
    PROVE  \A f : FamilyValues(WithoutAttribute(l, key), f) = FamilyValues(l, f)
<1> DEFINE new == WithoutAttribute(l, key)
           own(x) == {a \in ToSet(x.attributes) : a[1] \in {"model_number", "model_no"}}
<1>1. new.identifiers = l.identifiers
  BY OtherAttributes
<1>2. new.attributes = [n \in DOMAIN l.attributes \ Positions(l, key) |-> l.attributes[n]]
  BY OtherAttributes
<1> HIDE DEF new
<1>3. CanonicalKey("model_number") = "model" /\ CanonicalKey("model_no") = "model_no"
  BY DEF CanonicalKey
<1>4. \A n \in DOMAIN l.attributes : l.attributes[n][1] \in {"model_number", "model_no"}
                                         => n \notin Positions(l, key)
  BY <1>3 DEF Positions
<1>5. own(new) = own(l)
  <2>1. DOMAIN new.attributes = DOMAIN l.attributes \ Positions(l, key)
    BY <1>2
  <2>2. \A n \in DOMAIN new.attributes : new.attributes[n] = l.attributes[n]
    BY <1>2
  <2>3. \A x : \A a : a \in own(x) <=>
           /\ \E n \in DOMAIN x.attributes : a = x.attributes[n]
           /\ a[1] \in {"model_number", "model_no"}
    BY DEF ToSet
  <2>4. \A a : a \in own(new) <=> a \in own(l)
    <3> HIDE DEF own
    <3> QED  BY <1>4, <2>1, <2>2, <2>3
  <2> QED  BY <2>4
<1>6. ModelIdentifiers(new) = ModelIdentifiers(l)
  <2>1. /\ ModelIdentifiers(new) = {<<"model_number", a[2]>> : a \in own(new)}
        /\ ModelIdentifiers(l) = {<<"model_number", a[2]>> : a \in own(l)}
    BY Zenon DEF ModelIdentifiers
  <2> QED  BY <1>5, <2>1
<1>7. Identifiers(new) = Identifiers(l)
  BY <1>1, <1>6 DEF Identifiers
<1>8. \A f : FamilyValues(new, f) = FamilyValues(l, f)
  BY <1>7 DEF FamilyValues
<1> QED  BY <1>8 DEF new

\* What only one listing states is no evidence: an identifier changes nothing,
\* an attribute nothing but the similarity of the embeddings, and so neither
\* the evidence that decides nor a verdict that rests on other evidence.
THEOREM UnilateralEvidenceDecidesNothing == MatchSpec => []UnilateralEvidenceIsNeutral
<1>1. Compared => UnilateralAttributesAreNeutral
  <2> SUFFICES ASSUME left \in Listings,
                      NEW key \in StatedKeys(left)
                                   \ (StatedKeys(right) \cup IdentityKeys \cup {"model_no"}),
                      NEW embedding \in Scores
               PROVE  LET without == Decide(WithoutAttribute(left, key), right, titleScore,
                                            embedding) IN
                      /\ without.method = Verdict.method
                      /\ without.method # "combined" => without.class = Verdict.class
                      /\ embedding = embeddingScore => without = Verdict
    BY DEF Compared, UnilateralAttributesAreNeutral
  <2> DEFINE new == WithoutAttribute(left, key)
             without == Decide(new, right, titleScore, embedding)
             basis == BasisOf(left, right)
  <2>1. key \notin StatedKeys(right) /\ key \notin {"model", "model_no"}
    BY DEF IdentityKeys
  <2>2. CompareAttributes(new, right) = CompareAttributes(left, right)
    BY <2>1, SameComparison
  <2>3. \A f : FamilyValues(new, f) = FamilyValues(left, f)
    BY <2>1, SameIdentifiers
  <2> HIDE DEF new
  <2>4. /\ IdentifierMatches(new, right) = IdentifierMatches(left, right)
        /\ IdentifierConflicts(new, right) = IdentifierConflicts(left, right)
    BY <2>3 DEF IdentifierMatches, IdentifierConflicts
  <2>5. embedding = embeddingScore => without = Verdict
    BY <2>2, <2>4 DEF Decide, Verdict
  <2>6. Outcome(basis, without) /\ Outcome(basis, Verdict)
    BY <2>2, <2>4, DecideByBasis DEF BasisOf, Verdict
  <2>7. basis \in {"conflict", "review", "differ", "identified", "described", "similar"}
    BY BasisType
  <2> HIDE DEF without, basis
  <2>8. /\ without.method = Verdict.method
        /\ without.method # "combined" => without.class = Verdict.class
    BY <2>6, <2>7 DEF Outcome
  <2> QED  BY <2>5, <2>8 DEF new, without
<1>2. MatchSpec => []UnilateralAttributesAreNeutral
  BY <1>1, PairsAreListings, PTL
<1> QED  BY <1>2, UnilateralIdentifiersDoNothing, PTL DEF UnilateralEvidenceIsNeutral
=============================================================================
