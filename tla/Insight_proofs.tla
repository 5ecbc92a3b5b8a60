--------------------------- MODULE Insight_proofs ---------------------------
(***************************************************************************)
(* What the readers of a product may rely on, for all catalogues, prices,  *)
(* events, thresholds and bounds: the explanation of the cheapest offer,   *)
(* the freshness of a product, the current price, and the reasons of an    *)
(* advice.                                                                 *)
(***************************************************************************)
EXTENDS Insight, FiniteSetTheorems, TLAPS

-----------------------------------------------------------------------------
(* Least and greatest.                                                     *)

LEMMA BelowIsWellFounded == IsWellFoundedOn(OpToRel(<, Nat), Nat)
BY NatLessThanWellFounded

LEMMA MinimalNumber ==
    ASSUME NEW R, IsWellFoundedOn(R, Nat), NEW S \in SUBSET Nat, S # {}
    PROVE  \E m \in S : \A n \in S : ~(<<n, m>> \in R)
BY WFMin

LEMMA BelowIsRelated ==
    ASSUME NEW x \in Nat, NEW y \in Nat, y < x
    PROVE  <<y, x>> \in OpToRel(<, Nat)
BY Zenon DEF OpToRel

\* A set of naturals has a least one.
LEMMA LeastNumber ==
    ASSUME NEW S \in SUBSET Nat, S # {}
    PROVE  \E m \in S : \A n \in S : m <= n
<1>1. PICK m \in S : \A n \in S : ~(<<n, m>> \in OpToRel(<, Nat))
  BY BelowIsWellFounded, MinimalNumber
<1>2. \A n \in S : ~(n < m)
  BY <1>1, BelowIsRelated
<1>3. m \in Nat /\ \A n \in S : n \in Nat
  OBVIOUS
<1> QED  BY <1>2, <1>3

Ordered(S, R) ==
    /\ \A x \in S : <<x, x>> \notin R
    /\ \A x, y \in S : x = y \/ <<x, y>> \in R \/ <<y, x>> \in R
    /\ \A x, y, z \in S : <<x, y>> \in R /\ <<y, z>> \in R => <<x, z>> \in R

\* A finite set has a first element in every order: the one with the fewest
\* before it.
LEMMA FirstOfOrder ==
    ASSUME NEW S, IsFiniteSet(S), S # {}, NEW R, Ordered(S, R)
    PROVE  \E x \in S : \A y \in S : y = x \/ <<x, y>> \in R
<1> DEFINE before(x) == {y \in S : <<y, x>> \in R}
           T == {Cardinality(before(x)) : x \in S}
<1>1. \A x \in S : IsFiniteSet(before(x)) /\ Cardinality(before(x)) \in Nat
  <2>1. \A x \in S : before(x) \subseteq S
    OBVIOUS
  <2> QED  BY <2>1, FS_Subset, FS_CardinalityType
<1>2. T \in SUBSET Nat /\ T # {}
  BY <1>1
<1>3. PICK m \in T : \A n \in T : m <= n
  BY <1>2, LeastNumber
<1>4. PICK x \in S : m = Cardinality(before(x))
  OBVIOUS
<1>5. ASSUME NEW y \in S, <<y, x>> \in R PROVE FALSE
  <2>1. before(y) \subseteq before(x) /\ y \in before(x) /\ y \notin before(y)
    BY <1>5 DEF Ordered
  <2>2. Cardinality(before(y)) < Cardinality(before(x))
    <3> HIDE DEF before
    <3>1. /\ Cardinality(before(y)) <= Cardinality(before(x))
          /\ Cardinality(before(y)) = Cardinality(before(x)) => before(y) = before(x)
      BY <1>1, <2>1, FS_Subset
    <3> QED  BY <1>1, <2>1, <3>1
  <2>3. Cardinality(before(x)) <= Cardinality(before(y))
    BY <1>3, <1>4
  <2> QED  BY <1>1, <2>2, <2>3
<1> QED  BY <1>5 DEF Ordered

\* So has First.
LEMMA FirstIs ==
    ASSUME NEW S, NEW R, NEW x \in S, \A y \in S : y = x \/ <<x, y>> \in R
    PROVE  LET f == CHOOSE z \in S : \A y \in S : y = z \/ <<z, y>> \in R IN
           f \in S /\ \A y \in S : y = f \/ <<f, y>> \in R
OBVIOUS

-----------------------------------------------------------------------------
(* The rows.                                                               *)

Same(s, t) == /\ s.listing = t.listing /\ s.sellerId = t.sellerId
              /\ s.observedAt = t.observedAt

RowOf(s, l) == /\ s.listing = l.id /\ s.variant = l.variant /\ s.retailer = l.retailer
               /\ s.id = SnapshotId(l, s.sellerId, s.observedAt)

\* What a stored observation says, and when.
Said(s, then) ==
    /\ {"displayed", "effective"} \subseteq DOMAIN s
    /\ s.sellerId \in 0..MaxSeller
    /\ s.observedAt \in 0..then /\ s.createdAt \in 0..then
    /\ s.displayed \in Nat
    /\ {s.effective, s.mrp, s.delivery, s.platform} \subseteq Amounts
    /\ IsFiniteSet(s.promotions)
    /\ \A adj \in s.promotions : adj.amount \in Amounts

RowsInv ==
    /\ now \in 0..MaxTime
    /\ listings \subseteq Catalogue
    /\ IsFiniteSet(snapshots)
    /\ \A s \in snapshots : Said(s, now) /\ \E l \in listings : RowOf(s, l)
    /\ \A s, t \in snapshots : Same(s, t) => s = t

LEMMA ObserveKeeps ==
    ASSUME RowsInv, NEW listing \in listings, NEW seen \in Observed, NEW at \in {now - 1, now} \cap Nat,
           Observe(listing, seen, at)
    PROVE  RowsInv'
<1> DEFINE new == [id |-> SnapshotId(listing, seen.sellerId, at), listing |-> listing.id,
            variant |-> listing.variant, retailer |-> listing.retailer,
            observedAt |-> at, createdAt |-> now, sellerId |-> seen.sellerId,
            displayed |-> seen.displayed, effective |-> seen.effective, mrp |-> seen.mrp,
            delivery |-> seen.delivery, platform |-> seen.platform,
            availability |-> seen.availability, confidence |-> seen.confidence,
            seller |-> seen.seller, promotions |-> seen.promotions]
<1>1. /\ snapshots' = snapshots \cup {new} /\ UNCHANGED <<listings, now>>
      /\ ~\E s \in snapshots : /\ s.listing = listing.id
                               /\ s.sellerId = seen.sellerId
                               /\ s.observedAt = at
  BY Zenon DEF Observe
<1>2. RowOf(new, listing) /\ new.listing = listing.id /\ new.sellerId = seen.sellerId
      /\ new.observedAt = at
  BY DEF RowOf
<1>3. Said(new, now)
  <2>1. now \in Nat /\ at \in 0..now /\ now \in 0..now
    BY RowsAssumption DEF RowsInv
  <2> QED  BY <2>1, RowsAssumption DEF Said
<1> HIDE DEF new
<1>4. \A s \in snapshots' : Said(s, now) /\ \E l \in listings : RowOf(s, l)
  BY <1>1, <1>2, <1>3 DEF RowsInv
<1>5. \A s, t \in snapshots' : Same(s, t) => s = t
  BY <1>1, <1>2 DEF RowsInv, Same
<1>6. IsFiniteSet(snapshots')
  BY <1>1, FS_AddElement DEF RowsInv
<1> QED  BY <1>1, <1>4, <1>5, <1>6 DEF RowsInv

\* Every observation is of a listing, in the past, and the only one of its
\* listing and seller at its instant.
THEOREM RowsAreSound == Spec => []RowsInv
<1>1. Init => RowsInv
  BY FS_EmptySet, RowsAssumption DEF Init, RowsInv
<1>2. ASSUME RowsInv, [Next]_vars PROVE RowsInv'
  <2>1. ASSUME NEW listing \in Catalogue, DiscoverListing(listing) PROVE RowsInv'
    BY <1>2, <2>1 DEF DiscoverListing, RowsInv
  <2>2. ASSUME NEW listing \in listings, NEW seen \in Observed, NEW at \in {now - 1, now} \cap Nat,
               Observe(listing, seen, at)
        PROVE  RowsInv'
    BY <1>2, <2>2, ObserveKeeps
  <2>3. ASSUME Tick PROVE RowsInv'
    <3>1. now' = now + 1 /\ now < MaxTime /\ UNCHANGED <<listings, snapshots>>
      BY <2>3 DEF Tick
    <3>2. now' \in 0..MaxTime /\ 0..now \subseteq 0..now'
      BY <1>2, <3>1, RowsAssumption DEF RowsInv
    <3>3. \A s : Said(s, now) => Said(s, now')
      BY <3>2 DEF Said
    <3>4. \A s \in snapshots' : Said(s, now') /\ \E l \in listings' : RowOf(s, l)
      BY <1>2, <3>1, <3>3 DEF RowsInv
    <3> QED  BY <1>2, <3>1, <3>2, <3>4 DEF RowsInv
  <2>4. ASSUME UNCHANGED vars PROVE RowsInv'
    BY <1>2, <2>4 DEF RowsInv, vars
  <2> QED  BY <1>2, <2>1, <2>2, <2>3, <2>4 DEF Next
<1> QED  BY <1>1, <1>2, PTL DEF Spec

-----------------------------------------------------------------------------
(* Freshness.                                                              *)

Statuses == {"fresh", "aging", "stale", "missing"}

LEMMA AggregateIs ==
    ASSUME NEW items, \A i \in items : i.status \in Statuses
    PROVE  LET all == AggregateFreshness(items) IN
           /\ all.status \in Statuses
           /\ all.status = "fresh" => items # {} /\ \A i \in items : i.status = "fresh"
           /\ all.status = "stale" =>
                 \E i \in items : i.status = "stale" \/ i.anyStale \/ i.status = "missing"
           /\ (\E i \in items : i.status = "stale") /\ (\E i \in items : i.observedAt # None)
                 => all.status = "stale"
           /\ all.status = "missing" => items = {} \/ \E i \in items : i.status = "missing"
           /\ all.anyStale <=> \E i \in items : i.anyStale
<1> DEFINE seen     == {i \in items : i.observedAt # None}
           statuses == {i.status : i \in items}
           anyStale == \E i \in items : i.anyStale
           status   == IF items = {}                                   THEN "missing"
                       ELSE IF "missing" \in statuses /\ seen = {}     THEN "missing"
                       ELSE IF "stale" \in statuses \/ anyStale        THEN "stale"
                       ELSE IF "missing" \in statuses                  THEN "stale"
                       ELSE IF "aging" \in statuses                    THEN "aging"
                       ELSE "fresh"
<1>1. /\ AggregateFreshness(items).status = status
      /\ AggregateFreshness(items).anyStale = anyStale
  BY DEF AggregateFreshness
<1>2. status \in Statuses
  BY DEF Statuses
<1>3. status = "fresh" => items # {} /\ {"missing", "stale", "aging"} \cap statuses = {}
  OBVIOUS
<1>4. {"missing", "stale", "aging"} \cap statuses = {} => \A i \in items : i.status = "fresh"
  BY DEF Statuses
<1>5. status = "stale" => "stale" \in statuses \/ anyStale \/ "missing" \in statuses
  OBVIOUS
<1>6. /\ "stale" \in statuses /\ seen # {} => status = "stale"
      /\ status = "missing" => items = {} \/ "missing" \in statuses
  OBVIOUS
<1> QED  BY <1>1, <1>2, <1>3, <1>4, <1>5, <1>6

LEMMA OfferFreshnessIs ==
    ASSUME NEW at \in Int \cup {None}, NEW asOf \in Int
    PROVE  /\ OfferFreshness(at, asOf).status \in Statuses
           /\ OfferFreshness(at, asOf).observedAt = at
           /\ OfferFreshness(at, asOf).status = "missing" <=> at = None
           /\ OfferFreshness(at, asOf).status = "fresh" <=> at # None /\ asOf - at <= FreshWithin
           /\ OfferFreshness(at, asOf).status = "stale" <=> at # None /\ asOf - at > StaleAfter
           /\ OfferFreshness(at, asOf).anyStale <=> OfferFreshness(at, asOf).status = "stale"
<1>1. FreshWithin \in Nat /\ StaleAfter \in Nat /\ FreshWithin <= StaleAfter
  BY WindowsAreOrdered
<1> DEFINE status == ClassifyFreshness(at, asOf)
<1>2. /\ status \in Statuses
      /\ status = "missing" <=> at = None
      /\ status = "fresh" <=> at # None /\ asOf - at <= FreshWithin
      /\ status = "stale" <=> at # None /\ asOf - at > StaleAfter
  BY <1>1 DEF ClassifyFreshness, Statuses
<1>3. /\ OfferFreshness(at, asOf).status = status /\ OfferFreshness(at, asOf).observedAt = at
      /\ OfferFreshness(at, asOf).anyStale = (status = "stale")
  BY DEF OfferFreshness
<1> HIDE DEF status
<1> QED  BY <1>2, <1>3

\* Of every listing and seller the newest observation is read.
LEMMA NewestIsRead ==
    ASSUME RowsInv, NEW s \in snapshots
    PROVE  \E t \in LatestPerSeller(snapshots) :
              t.listing = s.listing /\ t.sellerId = s.sellerId /\ s.observedAt <= t.observedAt
<1> DEFINE series == {t \in snapshots : t.listing = s.listing /\ t.sellerId = s.sellerId}
           T == {now - t.observedAt : t \in series}
<1>1. \A t \in snapshots : t.observedAt \in 0..now
  BY DEF RowsInv, Said
<1>2. now \in Nat
  BY RowsAssumption DEF RowsInv
<1>3. T \in SUBSET Nat /\ T # {}
  BY <1>1, <1>2
<1>4. PICK m \in T : \A n \in T : m <= n
  BY <1>3, LeastNumber
<1>5. PICK t \in series : m = now - t.observedAt
  OBVIOUS
<1>6. \A u \in series : u.observedAt <= t.observedAt
  BY <1>1, <1>2, <1>4, <1>5
<1>7. t \in LatestPerSeller(snapshots)
  <2>1. ~\E u \in snapshots : /\ u.listing = t.listing /\ u.sellerId = t.sellerId
                              /\ u.observedAt > t.observedAt
    BY <1>1, <1>6
  <2> QED  BY <2>1, <1>5, Zenon DEF LatestPerSeller
<1> QED  BY <1>6, <1>7

LEMMA LatestIsStored == LatestPerSeller(snapshots) \subseteq snapshots
BY DEF LatestPerSeller

LatestOf(l) == {s \in LatestPerSeller(snapshots) : s.listing = l.id}

OffersOf(l) == IF LatestOf(l) = {} THEN {ListingWithoutSnapshot(l)}
               ELSE {OfferFromSnapshot(l, s) : s \in LatestOf(l)}

LEMMA OffersAre ==
    ASSUME NEW v
    PROVE  VariantOffers(v, listings, snapshots) =
             UNION {OffersOf(l) : l \in {m \in listings : m.variant = v}}
BY DEF VariantOffers, OffersOf, LatestOf

\* The freshness of a variant is that of its listings.
FreshnessOf(v) == AggregateFreshness({OfferFreshness(o.observedAt, now) :
                                         o \in VariantOffers(v, listings, snapshots)})

LEMMA ComparisonIs ==
    /\ \A v \in Variants : Comparison.variant[v] = CompareVariant(VariantOffers(v, listings, snapshots), now)
    /\ Comparison.freshness = AggregateFreshness({FreshnessOf(v) : v \in Variants})
<1> DEFINE offersOf == [v \in Variants |-> VariantOffers(v, listings, snapshots)]
           compared == [v \in Variants |-> CompareVariant(offersOf[v], now)]
<1>1. \A v \in Variants : compared[v] = CompareVariant(VariantOffers(v, listings, snapshots), now)
  OBVIOUS
<1>2. Comparison = [variant |-> compared,
                    freshness |-> AggregateFreshness({compared[v].freshness : v \in Variants})]
  BY DEF Comparison, CompareProduct
<1>3. \A offers : CompareVariant(offers, now).freshness =
                    AggregateFreshness({OfferFreshness(o.observedAt, now) : o \in offers})
  <2> TAKE offers
  <2> DEFINE built == {BuildOffer(o, now) : o \in offers}
  <2>1. CompareVariant(offers, now).freshness = AggregateFreshness({b.freshness : b \in built})
    BY DEF CompareVariant
  <2>2. \A o : BuildOffer(o, now).freshness = OfferFreshness(o.observedAt, now)
    BY DEF BuildOffer
  <2>3. {b.freshness : b \in built} = {OfferFreshness(o.observedAt, now) : o \in offers}
    BY <2>2
  <2> QED  BY <2>1, <2>3
<1> HIDE DEF compared
<1>4. \A v \in Variants : compared[v].freshness = FreshnessOf(v)
  BY <1>1, <1>3 DEF FreshnessOf
<1>5. {compared[v].freshness : v \in Variants} = {FreshnessOf(v) : v \in Variants}
  BY <1>4
<1> QED  BY <1>1, <1>2, <1>5

\* When a variant is fresh its listings are.
LEMMA FreshVariant ==
    ASSUME RowsInv, NEW v, FreshnessOf(v).status = "fresh"
    PROVE  /\ \E l \in listings : l.variant = v
           /\ \A l \in {m \in listings : m.variant = v} :
                 /\ \E s \in snapshots : s.listing = l.id
                 /\ \A s \in snapshots : s.listing = l.id =>
                       \E t \in snapshots : /\ t.listing = l.id /\ t.sellerId = s.sellerId
                                            /\ now - t.observedAt <= FreshWithin
<1> DEFINE offers == VariantOffers(v, listings, snapshots)
<1>0. now \in Int /\ None \notin Int /\ \A s \in snapshots : s.observedAt \in Int
  BY RowsAssumption DEF RowsInv, Said
<1>1. \A l : \A o \in OffersOf(l) :
         \/ o.observedAt = None /\ LatestOf(l) = {}
         \/ \E s \in LatestOf(l) : o.observedAt = s.observedAt
  BY DEF OffersOf, ListingWithoutSnapshot, OfferFromSnapshot
<1>2. \A o \in offers : o.observedAt \in Int \cup {None}
  BY <1>0, <1>1, OffersAre, LatestIsStored DEF LatestOf
<1> DEFINE items == {OfferFreshness(o.observedAt, now) : o \in offers}
<1>3. \A i \in items : i.status \in Statuses
  <2>1. \A o \in offers : OfferFreshness(o.observedAt, now).status \in Statuses
    <3> HIDE DEF offers
    <3> QED  BY <1>0, <1>2, OfferFreshnessIs
  <2> QED  BY <2>1
<1>4. items # {} /\ \A i \in items : i.status = "fresh"
  <2> HIDE DEF items
  <2>1. AggregateFreshness(items).status = "fresh"
    BY DEF FreshnessOf, items
  <2> QED  BY <1>3, <2>1, AggregateIs
<1>5. offers # {}
  BY <1>4
<1>6. \A o \in offers : o.observedAt # None /\ now - o.observedAt <= FreshWithin
  <2>1. \A o \in offers : OfferFreshness(o.observedAt, now).status = "fresh"
    BY <1>4
  <2> HIDE DEF offers
  <2> QED  BY <1>0, <1>2, <2>1, OfferFreshnessIs
<1>7. \E l \in listings : l.variant = v
  BY <1>5, OffersAre
<1>8. ASSUME NEW l \in listings, l.variant = v
      PROVE  /\ LatestOf(l) # {}
             /\ \A s \in LatestOf(l) : now - s.observedAt <= FreshWithin
  <2>1. OffersOf(l) \subseteq offers
    BY <1>8, OffersAre
  <2>2. LatestOf(l) # {}
    <3> SUFFICES ASSUME LatestOf(l) = {} PROVE FALSE
      OBVIOUS
    <3>1. ListingWithoutSnapshot(l) \in offers
      BY <2>1 DEF OffersOf
    <3> QED  BY <1>6, <3>1 DEF ListingWithoutSnapshot
  <2>3. \A s \in LatestOf(l) : OfferFromSnapshot(l, s) \in offers
    BY <2>1, <2>2 DEF OffersOf
  <2> HIDE DEF offers
  <2> QED  BY <1>6, <2>2, <2>3 DEF OfferFromSnapshot
<1>9. ASSUME NEW l \in listings, l.variant = v
      PROVE  /\ \E s \in snapshots : s.listing = l.id
             /\ \A s \in snapshots : s.listing = l.id =>
                   \E t \in snapshots : /\ t.listing = l.id /\ t.sellerId = s.sellerId
                                        /\ now - t.observedAt <= FreshWithin
  <2>1. \A t \in LatestPerSeller(snapshots) : t \in snapshots /\ (t.listing = l.id => t \in LatestOf(l))
    BY LatestIsStored DEF LatestOf
  <2> QED  BY <1>8, <1>9, <2>1, NewestIsRead DEF LatestOf
<1> QED  BY <1>7, <1>9

(* A product shown as fresh is fresh everywhere: every variant has a listing,
   every listing an observation, and of every seller of a listing the newest is
   inside the fresh window (aggregate_freshness over offers, then variants). *)
THEOREM FreshIsFresh == Spec => []FreshMeansAllFresh
<1>1. ASSUME RowsInv PROVE FreshMeansAllFresh
  <2> SUFFICES ASSUME Comparison.freshness.status = "fresh" PROVE \A v \in Variants : FreshnessOf(v).status = "fresh"
    BY <1>1, FreshVariant DEF FreshMeansAllFresh
  <2> DEFINE items == {FreshnessOf(v) : v \in Variants}
  <2>1. now \in Int /\ None \notin Int
    BY <1>1, RowsAssumption DEF RowsInv
  <2>2. \A v : \A o \in VariantOffers(v, listings, snapshots) : o.observedAt \in Int \cup {None}
    <3>1. \A l : \A o \in OffersOf(l) :
             \/ o.observedAt = None
             \/ \E s \in LatestOf(l) : o.observedAt = s.observedAt
      BY DEF OffersOf, ListingWithoutSnapshot, OfferFromSnapshot
    <3>2. \A s \in snapshots : s.observedAt \in Int
      BY <1>1, <2>1 DEF RowsInv, Said
    <3> QED  BY <3>1, <3>2, OffersAre, LatestIsStored DEF LatestOf
  <2>3. \A v : FreshnessOf(v).status \in Statuses
    <3> TAKE v
    <3> DEFINE shown == {OfferFreshness(o.observedAt, now) : o \in VariantOffers(v, listings, snapshots)}
    <3>1. \A o \in VariantOffers(v, listings, snapshots) : OfferFreshness(o.observedAt, now).status \in Statuses
      BY <2>1, <2>2, OfferFreshnessIs
    <3>2. \A i \in shown : i.status \in Statuses
      BY <3>1
    <3> HIDE DEF shown
    <3>3. AggregateFreshness(shown).status \in Statuses
      BY <3>2, AggregateIs
    <3> QED  BY <3>3 DEF FreshnessOf, shown
  <2>4. AggregateFreshness(items).status = "fresh"
    BY ComparisonIs
  <2> QED  BY <2>3, <2>4, AggregateIs
<1> QED  BY <1>1, RowsAreSound, PTL

-----------------------------------------------------------------------------
(* A history that is stale.                                                *)

TooOld(points, asOf) == \E p \in points : asOf - p.observedAt > StaleAfter

\* A set of numbers up to a bound has a greatest.
LEMMA MaxIsThere ==
    ASSUME NEW n \in Nat, NEW S \in SUBSET (0..n), S # {}
    PROVE  Max(S) \in S
<1> DEFINE T == {n - x : x \in S}
<1>1. T \in SUBSET Nat /\ T # {}
  <2>1. \A x \in S : x \in 0..n /\ n - x \in Nat
    OBVIOUS
  <2> QED  BY <2>1
<1>2. PICK d \in T : \A y \in T : d <= y
  BY <1>1, LeastNumber
<1>3. PICK m \in S : d = n - m
  OBVIOUS
<1>4. \A x \in S : n - x \in T /\ x \in 0..n
  OBVIOUS
<1>5. \A x \in S : n - m <= n - x
  BY <1>2, <1>3, <1>4
<1>6. \A x \in S : m >= x
  BY <1>3, <1>4, <1>5
<1> QED  BY <1>6 DEF Max

LEMMA HistoryIs ==
    ASSUME NEW asOf \in Nat, None \notin Int, NEW points,
           \A p \in points : p.observedAt \in 0..asOf
    PROVE  /\ HistoryFreshness(points, asOf).status \in Statuses
           /\ HistoryFreshness(points, asOf).status = "stale" <=> TooOld(points, asOf)
           /\ HistoryFreshness(points, asOf).anyStale <=> TooOld(points, asOf)
           /\ points # {} => /\ HistoryFreshness(points, asOf).status # "missing"
                             /\ HistoryFreshness(points, asOf).observedAt # None
<1>1. ASSUME points = {}
      PROVE  /\ HistoryFreshness(points, asOf).status = "missing"
             /\ HistoryFreshness(points, asOf).anyStale = FALSE
  BY <1>1 DEF HistoryFreshness, OfferFreshness, ClassifyFreshness
<1> DEFINE items == {OfferFreshness(p.observedAt, asOf) : p \in points}
           all == AggregateFreshness(items)
<1>2. ASSUME points # {} PROVE HistoryFreshness(points, asOf) = all
  BY <1>2 DEF HistoryFreshness
<1>3. ASSUME NEW p \in points
      PROVE  /\ OfferFreshness(p.observedAt, asOf).status \in Statuses \ {"missing"}
             /\ OfferFreshness(p.observedAt, asOf).observedAt = p.observedAt
             /\ OfferFreshness(p.observedAt, asOf).status = "stale" <=> asOf - p.observedAt > StaleAfter
             /\ OfferFreshness(p.observedAt, asOf).anyStale <=> asOf - p.observedAt > StaleAfter
  <2>1. p.observedAt \in Int /\ p.observedAt # None /\ asOf \in Int
    OBVIOUS
  <2> QED  BY <2>1, OfferFreshnessIs
<1>4. \A i \in items : i.status \in Statuses \ {"missing"} /\ i.observedAt \in 0..asOf
  BY <1>3
<1>5. (\E i \in items : i.status = "stale") <=> TooOld(points, asOf)
  BY <1>3 DEF TooOld
<1>6. (\E i \in items : i.anyStale) <=> TooOld(points, asOf)
  BY <1>3 DEF TooOld
<1>7. points # {} => items # {}
  OBVIOUS
<1> HIDE DEF items
<1>8. /\ all.status \in Statuses
      /\ all.anyStale <=> TooOld(points, asOf)
      /\ all.status = "stale" => TooOld(points, asOf)
      /\ all.status = "missing" => items = {}
      /\ TooOld(points, asOf) => all.status = "stale"
  <2>1. \A i \in items : i.status \in Statuses /\ i.status # "missing" /\ i.observedAt # None
    BY <1>4
  <2> QED  BY <1>5, <1>6, <2>1, AggregateIs
<1>9. items # {} => all.observedAt # None
  <2> SUFFICES ASSUME items # {} PROVE all.observedAt # None
    OBVIOUS
  <2> DEFINE seen == {i \in items : i.observedAt # None}
             T == {i.observedAt : i \in seen}
  <2>1. seen = items /\ T \in SUBSET (0..asOf) /\ T # {}
    BY <1>4
  <2>2. Max(T) \in 0..asOf
    BY <2>1, MaxIsThere
  <2>3. all.observedAt = Max(T)
    BY <2>1 DEF AggregateFreshness
  <2> QED  BY <2>2, <2>3
<1>10. points = {} => ~TooOld(points, asOf)
  BY DEF TooOld
<1> HIDE DEF all
<1> QED  BY <1>1, <1>2, <1>7, <1>8, <1>9, <1>10 DEF Statuses

(* The history of a variant, once stale, stays stale, and so does that of a
   product all of whose variants were observed: all stored points count, of
   which one is too old for ever (variant_freshness). *)
THEOREM StaleStays == Spec => HistoryStaysStale
<1> DEFINE Stays ==
      /\ \A v \in Variants :
            \A points \in {PointsOf(v)}, later \in {PointsOf(v)'} :
                HistoryFreshness(points, now).status = "stale"
                => HistoryFreshness(later, now').status = "stale"
      /\ \A points \in {ProductPoints}, later \in {ProductPoints'} :
            ComputeProduct(points, now).status = "stale" /\ {} \notin points
            => ComputeProduct(later, now').status = "stale"
<1>1. ASSUME RowsInv, RowsInv', [Next]_vars PROVE Stays
  <2>1. /\ snapshots \subseteq snapshots' /\ now \in Nat /\ now' \in Nat /\ now <= now'
        /\ None \notin Int /\ StaleAfter \in Nat
    <3>1. snapshots \subseteq snapshots' /\ (now' = now \/ now' = now + 1)
      BY <1>1 DEF Next, DiscoverListing, Observe, Tick, vars
    <3>2. now \in Nat
      BY <1>1, RowsAssumption DEF RowsInv
    <3> QED  BY <3>1, <3>2, RowsAssumption, WindowsAreOrdered
  <2>2. \A v : /\ PointsOf(v) \subseteq PointsOf(v)'
               /\ \A p \in PointsOf(v) : p.observedAt \in 0..now
               /\ \A p \in PointsOf(v)' : p.observedAt \in 0..now'
    BY <1>1, <2>1 DEF PointsOf, RowsInv, Said
  <2>3. \A v : TooOld(PointsOf(v), now) => TooOld(PointsOf(v)', now')
    BY <2>1, <2>2 DEF TooOld
  <2>4. \A v : /\ HistoryFreshness(PointsOf(v), now).status \in Statuses
               /\ HistoryFreshness(PointsOf(v), now).status = "stale" <=> TooOld(PointsOf(v), now)
               /\ HistoryFreshness(PointsOf(v), now).anyStale <=> TooOld(PointsOf(v), now)
               /\ PointsOf(v) # {} => HistoryFreshness(PointsOf(v), now).status # "missing"
    BY <2>1, <2>2, HistoryIs
  <2>5. \A v : /\ HistoryFreshness(PointsOf(v)', now').status \in Statuses
               /\ HistoryFreshness(PointsOf(v)', now').status = "stale" <=> TooOld(PointsOf(v)', now')
               /\ PointsOf(v)' # {} => HistoryFreshness(PointsOf(v)', now').observedAt # None
    BY <2>1, <2>2, HistoryIs
  <2>6. ASSUME ComputeProduct(ProductPoints, now).status = "stale", {} \notin ProductPoints
        PROVE  ComputeProduct(ProductPoints', now').status = "stale"
    <3> DEFINE items == {HistoryFreshness(points, now) : points \in ProductPoints}
               later == {HistoryFreshness(points, now') : points \in ProductPoints'}
    <3>1. /\ items = {HistoryFreshness(PointsOf(v), now) : v \in Variants}
          /\ later = {HistoryFreshness(PointsOf(v)', now') : v \in Variants}
      BY DEF ProductPoints
    <3>2. PICK i \in items : i.status = "stale" \/ i.anyStale \/ i.status = "missing"
      <4>1. \A i \in items : i.status \in Statuses
        BY <2>4, <3>1
      <4>2. AggregateFreshness(items).status = "stale"
        BY <2>6 DEF ComputeProduct
      <4> HIDE DEF items
      <4> QED  BY <4>1, <4>2, AggregateIs
    <3>3. PICK v \in Variants : i = HistoryFreshness(PointsOf(v), now)
      BY <3>1
    <3>4. PointsOf(v) # {}
      BY <2>6 DEF ProductPoints
    <3>5. TooOld(PointsOf(v)', now')
      BY <2>3, <2>4, <3>2, <3>3, <3>4
    <3>6. HistoryFreshness(PointsOf(v)', now') \in later
      BY <3>1
    <3>7. PointsOf(v)' # {}
      BY <2>2, <3>4
    <3>8. \A j \in later : j.status \in Statuses
      BY <2>5, <3>1
    <3>9. AggregateFreshness(later).status = "stale"
      <4>1. /\ \E j \in later : j.status = "stale"
            /\ \E j \in later : j.observedAt # None
        BY <2>5, <3>5, <3>6, <3>7
      <4> HIDE DEF later
      <4> QED  BY <3>8, <4>1, AggregateIs
    <3> QED  BY <3>9 DEF ComputeProduct
  <2>7. \A v : HistoryFreshness(PointsOf(v), now).status = "stale"
               => HistoryFreshness(PointsOf(v)', now').status = "stale"
    BY <2>3, <2>4, <2>5
  <2> QED  BY <2>6, <2>7
<1>2. RowsInv /\ RowsInv' /\ [Next]_vars => [Stays]_vars
  BY <1>1
<1> QED  BY <1>2, RowsAreSound, PTL DEF Spec, HistoryStaysStale

-----------------------------------------------------------------------------
(* The order of the points, and the current one.                           *)

\* Two numbers are determined by the position in a table of rows of one length.
LEMMA SamePosition ==
    ASSUME NEW m \in Nat, NEW a \in Nat, NEW b \in Nat, NEW x \in 0..m, NEW y \in 0..m,
           (m + 1) * a + x = (m + 1) * b + y
    PROVE  a = b /\ x = y
<1>1. ASSUME NEW c \in Nat, NEW d \in Nat, NEW u \in 0..m, NEW v \in 0..m, c < d
      PROVE  (m + 1) * c + u < (m + 1) * d + v
  <2>1. PICK k \in Nat : d = c + 1 + k
    <3>1. d - c - 1 \in Nat /\ d = c + 1 + (d - c - 1)
      BY <1>1
    <3> QED  BY <3>1
  <2>2. (m + 1) * d = (m + 1) * c + (m + 1) + (m + 1) * k
    BY <2>1
  <2>3. (m + 1) * k \in Nat /\ (m + 1) * c \in Nat
    OBVIOUS
  <2> QED  BY <2>2, <2>3
<1>2. ~(a < b) /\ ~(b < a)
  BY <1>1
<1> QED  BY <1>2

\* A row number belongs to one observation.
LEMMA RowNumbers ==
    ASSUME RowsInv
    PROVE  /\ \A s \in snapshots : s.id \in Nat \ {0}
           /\ \A s, t \in snapshots : s.id = t.id => s = t
<1>0. MaxTime \in Nat /\ MaxSeller \in Nat /\ now \in 0..MaxTime
  BY RowsAssumption DEF RowsInv
<1>1. ASSUME NEW s \in snapshots
      PROVE  \E l \in Catalogue :
                /\ l.id \in Nat \ {0} /\ s.sellerId \in 0..MaxSeller
                /\ MaxTime - s.observedAt \in 0..MaxTime /\ s.observedAt \in Nat
                /\ (MaxSeller + 1) * l.id + s.sellerId \in Nat \ {0}
                /\ s.listing = l.id
                /\ s.id = (MaxTime + 1) * ((MaxSeller + 1) * l.id + s.sellerId)
                            + (MaxTime - s.observedAt)
  <2>1. PICK l \in listings : RowOf(s, l)
    BY DEF RowsInv
  <2>2. l \in Catalogue /\ l.id \in Nat \ {0}
    BY RowsAssumption DEF RowsInv
  <2>3. s.sellerId \in 0..MaxSeller /\ s.observedAt \in 0..now
    BY DEF RowsInv, Said
  <2>4. MaxTime - s.observedAt \in 0..MaxTime /\ s.observedAt \in Nat
    BY <1>0, <2>3
  <2>5. PICK k \in Nat : l.id = k + 1
    <3>1. l.id - 1 \in Nat /\ l.id = (l.id - 1) + 1
      BY <2>2
    <3> QED  BY <3>1
  <2>6. (MaxSeller + 1) * l.id = (MaxSeller + 1) * k + (MaxSeller + 1)
    BY <1>0, <2>5
  <2>7. (MaxSeller + 1) * k \in Nat
    BY <1>0
  <2>8. (MaxSeller + 1) * l.id + s.sellerId \in Nat \ {0}
    BY <1>0, <2>3, <2>6, <2>7
  <2> QED  BY <2>1, <2>2, <2>3, <2>4, <2>8 DEF RowOf, SnapshotId
<1>2. ASSUME NEW s \in snapshots PROVE s.id \in Nat \ {0}
  <2>1. PICK l \in Catalogue :
          /\ MaxTime - s.observedAt \in 0..MaxTime
          /\ (MaxSeller + 1) * l.id + s.sellerId \in Nat \ {0}
          /\ s.id = (MaxTime + 1) * ((MaxSeller + 1) * l.id + s.sellerId)
                      + (MaxTime - s.observedAt)
    BY <1>1
  <2> DEFINE a == (MaxSeller + 1) * l.id + s.sellerId
             x == MaxTime - s.observedAt
  <2>2. a \in Nat \ {0} /\ x \in Nat /\ s.id = (MaxTime + 1) * a + x
    BY <2>1
  <2> HIDE DEF a, x
  <2>3. PICK k \in Nat : a = k + 1
    <3>1. a - 1 \in Nat /\ a = (a - 1) + 1
      BY <2>2
    <3> QED  BY <3>1
  <2>4. (MaxTime + 1) * a = (MaxTime + 1) * k + (MaxTime + 1) /\ (MaxTime + 1) * k \in Nat
    BY <1>0, <2>3
  <2> QED  BY <1>0, <2>2, <2>4
<1>3. ASSUME NEW s \in snapshots, NEW t \in snapshots, s.id = t.id PROVE s = t
  <2>1. PICK l \in Catalogue :
          /\ l.id \in Nat \ {0} /\ s.sellerId \in 0..MaxSeller
          /\ MaxTime - s.observedAt \in 0..MaxTime /\ s.observedAt \in Nat
          /\ (MaxSeller + 1) * l.id + s.sellerId \in Nat \ {0}
          /\ s.listing = l.id
          /\ s.id = (MaxTime + 1) * ((MaxSeller + 1) * l.id + s.sellerId)
                      + (MaxTime - s.observedAt)
    BY <1>1
  <2>2. PICK m \in Catalogue :
          /\ m.id \in Nat \ {0} /\ t.sellerId \in 0..MaxSeller
          /\ MaxTime - t.observedAt \in 0..MaxTime /\ t.observedAt \in Nat
          /\ (MaxSeller + 1) * m.id + t.sellerId \in Nat \ {0}
          /\ t.listing = m.id
          /\ t.id = (MaxTime + 1) * ((MaxSeller + 1) * m.id + t.sellerId)
                      + (MaxTime - t.observedAt)
    BY <1>1
  <2> DEFINE a == (MaxSeller + 1) * l.id + s.sellerId
             b == (MaxSeller + 1) * m.id + t.sellerId
             x == MaxTime - s.observedAt
             y == MaxTime - t.observedAt
  <2>3. /\ a \in Nat /\ b \in Nat /\ x \in 0..MaxTime /\ y \in 0..MaxTime
        /\ (MaxTime + 1) * a + x = (MaxTime + 1) * b + y
    BY <1>3, <2>1, <2>2
  <2>4. a = b /\ x = y
    <3> HIDE DEF a, b, x, y
    <3> QED  BY <1>0, <2>3, SamePosition
  <2>5. s.observedAt = t.observedAt
    <3> DEFINE o == s.observedAt
               u == t.observedAt
    <3>1. MaxTime - o = MaxTime - u
      BY <2>4
    <3>2. o \in Nat /\ u \in Nat /\ MaxTime \in Nat
      BY <1>0, <2>1, <2>2
    <3> HIDE DEF o, u
    <3>3. o = u
      BY <3>1, <3>2
    <3> QED  BY <3>3 DEF o, u
  <2>6. l.id = m.id /\ s.sellerId = t.sellerId
    <3>1. (MaxSeller + 1) * l.id + s.sellerId = (MaxSeller + 1) * m.id + t.sellerId
      BY <2>4
    <3>2. l.id \in Nat /\ m.id \in Nat /\ s.sellerId \in 0..MaxSeller /\ t.sellerId \in 0..MaxSeller
      BY <2>1, <2>2
    <3> QED  BY <1>0, <3>1, <3>2, SamePosition
  <2> QED  BY <2>1, <2>2, <2>5, <2>6 DEF RowsInv, Same
<1> QED  BY <1>2, <1>3

LEMMA EarlierOrders ==
    ASSUME RowsInv
    PROVE  /\ \A p \in snapshots : ~Earlier(p, p)
           /\ \A p, q \in snapshots : p = q \/ Earlier(p, q) \/ Earlier(q, p)
           /\ \A p, q \in snapshots : Earlier(p, q) => p.observedAt <= q.observedAt
           /\ \A p, q, r \in snapshots : Earlier(p, q) /\ Earlier(q, r) => Earlier(p, r)
<1>1. \A p \in snapshots : p.observedAt \in Nat /\ p.createdAt \in Nat /\ p.id \in Nat
  BY RowNumbers, RowsAssumption DEF RowsInv, Said
<1>2. \A p, q \in snapshots : p.id = q.id => p = q
  BY RowNumbers
<1> QED  BY <1>1, <1>2 DEF Earlier

\* Some points have an earliest and a latest.
LEMMA EndsAre ==
    ASSUME RowsInv, NEW S, S \subseteq snapshots, S # {}
    PROVE  /\ Latest(S) \in S /\ \A q \in S : q = Latest(S) \/ Earlier(q, Latest(S))
           /\ Earliest(S) \in S /\ \A q \in S : q = Earliest(S) \/ Earlier(Earliest(S), q)
<1> DEFINE R == {w \in S \X S : Earlier(w[1], w[2])}
           Q == {w \in S \X S : Earlier(w[2], w[1])}
<1>1. /\ \A p, q \in S : <<p, q>> \in R <=> Earlier(p, q)
      /\ \A p, q \in S : <<p, q>> \in Q <=> Earlier(q, p)
  OBVIOUS
<1>2. IsFiniteSet(S)
  BY FS_Subset DEF RowsInv
<1>3. Ordered(S, R) /\ Ordered(S, Q)
  <2> HIDE DEF R, Q
  <2>1. /\ \A p \in S : ~Earlier(p, p)
        /\ \A p, q \in S : p = q \/ Earlier(p, q) \/ Earlier(q, p)
        /\ \A p, q, r \in S : Earlier(p, q) /\ Earlier(q, r) => Earlier(p, r)
    BY EarlierOrders
  <2> QED  BY <1>1, <2>1 DEF Ordered
<1> HIDE DEF R, Q
<1>4. PICK p \in S : \A q \in S : q = p \/ Earlier(p, q)
  BY <1>1, <1>2, <1>3, FirstOfOrder
<1>5. PICK r \in S : \A q \in S : q = r \/ Earlier(q, r)
  BY <1>1, <1>2, <1>3, FirstOfOrder
<1>6. Latest(S) = CHOOSE x \in S : \A y \in S : y = x \/ Earlier(y, x)
  BY DEF Latest, First
<1>7. Earliest(S) = CHOOSE x \in S : \A y \in S : y = x \/ Earlier(x, y)
  BY DEF Earliest, First
<1> QED  BY <1>4, <1>5, <1>6, <1>7

LEMMA CurrentIs ==
    ASSUME NEW points
    PROVE  History(points).current = IF QualifyingObservations(points) = {} THEN None
                                     ELSE Latest(QualifyingObservations(points))
BY DEF History, ComputeVariant

(* The current price is one that the comparison lists, unless a later
   observation of the same listing and seller was not verified
   (compute_variant, latest_per_seller_for_retailer_products). *)
THEOREM CurrentIsListed == Spec => []CurrentIsOnOffer
<1>1. ASSUME RowsInv PROVE CurrentIsOnOffer
  <2> SUFFICES ASSUME NEW v \in Variants, History(PointsOf(v)).current # None
      PROVE  \/ \E o \in VariantOffers(v, listings, snapshots) : o.id = History(PointsOf(v)).current.id
             \/ \E s \in snapshots : /\ s.listing = History(PointsOf(v)).current.listing
                                     /\ s.sellerId = History(PointsOf(v)).current.sellerId
                                     /\ s.observedAt > History(PointsOf(v)).current.observedAt
                                     /\ ~QualifiesForCalculations(s)
    BY DEF CurrentIsOnOffer
  <2> DEFINE seen == QualifyingObservations(PointsOf(v))
             current == History(PointsOf(v)).current
  <2>1. seen \subseteq snapshots /\ \A s \in snapshots : s \in seen <=> s.variant = v /\ QualifiesForCalculations(s)
    BY DEF QualifyingObservations, PointsOf
  <2>2. seen # {} /\ current = Latest(seen)
    BY CurrentIs
  <2> HIDE DEF seen, current
  <2>3. current \in seen /\ \A q \in seen : q = current \/ Earlier(q, current)
    BY <1>1, <2>1, <2>2, EndsAre
  <2>4. PICK l \in listings : RowOf(current, l)
    BY <1>1, <2>1, <2>3 DEF RowsInv
  <2>5. ASSUME current \in LatestPerSeller(snapshots)
        PROVE  \E o \in VariantOffers(v, listings, snapshots) : o.id = current.id
    <3>1. current \in LatestOf(l) /\ l.variant = v
      BY <2>1, <2>3, <2>4, <2>5 DEF LatestOf, RowOf
    <3>2. OfferFromSnapshot(l, current) \in OffersOf(l)
      BY <3>1 DEF OffersOf
    <3>3. OfferFromSnapshot(l, current) \in VariantOffers(v, listings, snapshots)
      BY <3>1, <3>2, OffersAre
    <3> QED  BY <3>3 DEF OfferFromSnapshot
  <2>6. ASSUME current \notin LatestPerSeller(snapshots)
        PROVE  \E s \in snapshots : /\ s.listing = current.listing /\ s.sellerId = current.sellerId
                                    /\ s.observedAt > current.observedAt
                                    /\ ~QualifiesForCalculations(s)
    <3>1. PICK s \in snapshots : /\ s.listing = current.listing /\ s.sellerId = current.sellerId
                                 /\ s.observedAt > current.observedAt
      BY <2>1, <2>3, <2>6 DEF LatestPerSeller
    <3>2. s.variant = v
      <4>1. PICK m \in listings : RowOf(s, m)
        BY <1>1 DEF RowsInv
      <4>2. l \in Catalogue /\ m \in Catalogue /\ l.id = m.id
        BY <1>1, <2>4, <3>1, <4>1 DEF RowsInv, RowOf
      <4>3. l = m
        BY <4>2, RowsAssumption
      <4> QED  BY <2>1, <2>3, <2>4, <4>1, <4>3 DEF RowOf
    <3>3. s \notin seen
      <4> SUFFICES ASSUME s \in seen PROVE FALSE
        OBVIOUS
      <4>1. current \in snapshots
        BY <2>1, <2>3
      <4>2. s.observedAt \in Int /\ current.observedAt \in Int
        BY <1>1, <4>1, RowsAssumption DEF RowsInv, Said
      <4>3. s = current \/ Earlier(s, current)
        BY <2>3
      <4>4. Earlier(s, current) => s.observedAt <= current.observedAt
        BY <1>1, <4>1, EarlierOrders
      <4> QED  BY <3>1, <4>2, <4>3, <4>4
    <3> QED  BY <2>1, <3>1, <3>2, <3>3
  <2> QED  BY <2>5, <2>6 DEF current
<1> QED  BY <1>1, RowsAreSound, PTL

-----------------------------------------------------------------------------
(* The rules of an advice.                                                 *)

BuyNames == {"BUY_FAVORABLE_PERCENTILE", "BUY_STRONG_PERCENTILE", "BUY_NEAR_HISTORICAL_LOW",
             "BUY_STRONG_NEAR_HISTORICAL_LOW", "BUY_BELOW_AVERAGES",
             "BUY_PREDICTION_NO_MATERIAL_SAVINGS", "BUY_FALLING_TREND"}
WaitNames == {"WAIT_UNFAVORABLE_PERCENTILE", "WAIT_ABOVE_AVERAGES", "WAIT_PREDICTED_SAVINGS",
              "WAIT_UPCOMING_SALE", "WAIT_RISING_TREND"}
WatchNames == {"WATCH_CONFLICTING_SIGNALS", "WATCH_NEUTRAL_HISTORY", "WATCH_WEAK_FAVORABLE",
               "WATCH_EVENT_NOT_CREDIBLE", "WATCH_NEUTRAL_TREND"}

LEMMA BuyRulesAre ==
    ASSUME NEW in
    PROVE  /\ BuyRules(in) \subseteq BuyNames
           /\ "BUY_FAVORABLE_PERCENTILE" \in BuyRules(in)
                <=> PercentileAtMost(in.percentile, BuyPercentileMax)
           /\ "BUY_STRONG_PERCENTILE" \in BuyRules(in)
                <=> PercentileAtMost(in.percentile, BuyStrongPercentileMax)
           /\ "BUY_NEAR_HISTORICAL_LOW" \in BuyRules(in)
                <=> IsNearHistoricalLow(in, NearLowPercent)
           /\ "BUY_STRONG_NEAR_HISTORICAL_LOW" \in BuyRules(in)
                <=> IsNearHistoricalLow(in, NearLowStrongPercent)
           /\ "BUY_BELOW_AVERAGES" \in BuyRules(in) <=> AtOrBelowAverages(in)
BY DEF BuyRules, BuyNames

LEMMA WaitRulesAre ==
    ASSUME NEW in, NEW buy
    PROVE  /\ WaitRules(in, buy) \subseteq WaitNames
           /\ "WAIT_UNFAVORABLE_PERCENTILE" \in WaitRules(in, buy)
                <=> /\ PercentileAtLeast(in.percentile, WaitPercentileMin)
                    /\ "BUY_NEAR_HISTORICAL_LOW" \notin buy
                    /\ "BUY_STRONG_NEAR_HISTORICAL_LOW" \notin buy
           /\ "WAIT_PREDICTED_SAVINGS" \in WaitRules(in, buy)
                <=> SavingsAreMaterial(in, UsedPrice(in))
           /\ "WAIT_UPCOMING_SALE" \in WaitRules(in, buy)
                <=> SelectCredibleUpcoming(in.events) # None /\ ~StronglyFavorable(buy)
           /\ "WAIT_ABOVE_AVERAGES" \in WaitRules(in, buy)
                <=> /\ MateriallyAbove(in, in.averageShort)
                    /\ IsKnown(in.averageLong) => MateriallyAbove(in, in.averageLong)
BY DEF WaitRules, WaitNames

LEMMA WatchRulesAre ==
    ASSUME NEW in, NEW buy, NEW wait
    PROVE  /\ WatchRules(in, buy, wait) \subseteq WatchNames
           /\ "WATCH_CONFLICTING_SIGNALS" \in WatchRules(in, buy, wait)
                <=> StronglyFavorable(buy) /\ WaitEvidence(wait)
           /\ "WATCH_NEUTRAL_HISTORY" \in WatchRules(in, buy, wait)
                <=> /\ IsKnown(in.percentile)
                    /\ ~PercentileAtMost(in.percentile, BuyPercentileMax)
                    /\ ~PercentileAtLeast(in.percentile, WaitPercentileMin)
                    /\ ~StronglyFavorable(buy) /\ ~WaitEvidence(wait)
           /\ "WATCH_WEAK_FAVORABLE" \in WatchRules(in, buy, wait)
                <=> WeaklyFavorable(buy) /\ ~WaitEvidence(wait)
BY DEF WatchRules, WatchNames

\* With the percentile known, some rule of the three kinds fires: low, high and
\* in between.
LEMMA SomeRuleFires ==
    ASSUME NEW in, IsKnown(in.percentile)
    PROVE  LET buy  == BuyRules(in)
               wait == WaitRules(in, buy) IN
           \/ WaitEvidence(wait) \/ StronglyFavorable(buy)
           \/ WatchRules(in, buy, wait) # {}
<1> DEFINE buy  == BuyRules(in)
           wait == WaitRules(in, buy)
           watch == WatchRules(in, buy, wait)
<1>1. /\ "BUY_FAVORABLE_PERCENTILE" \in buy <=> PercentileAtMost(in.percentile, BuyPercentileMax)
      /\ "WAIT_UNFAVORABLE_PERCENTILE" \in wait
                <=> /\ PercentileAtLeast(in.percentile, WaitPercentileMin)
                    /\ "BUY_NEAR_HISTORICAL_LOW" \notin buy
                    /\ "BUY_STRONG_NEAR_HISTORICAL_LOW" \notin buy
      /\ "WATCH_NEUTRAL_HISTORY" \in watch
                <=> /\ ~PercentileAtMost(in.percentile, BuyPercentileMax)
                    /\ ~PercentileAtLeast(in.percentile, WaitPercentileMin)
                    /\ ~StronglyFavorable(buy) /\ ~WaitEvidence(wait)
      /\ "WATCH_WEAK_FAVORABLE" \in watch <=> WeaklyFavorable(buy) /\ ~WaitEvidence(wait)
  BY BuyRulesAre, WaitRulesAre, WatchRulesAre
<1>2. "WAIT_UNFAVORABLE_PERCENTILE" \in wait => WaitEvidence(wait)
  BY DEF WaitEvidence
<1>3. "BUY_STRONG_NEAR_HISTORICAL_LOW" \in buy => StronglyFavorable(buy)
  BY DEF StronglyFavorable
<1>4. /\ ~StronglyFavorable(buy)
      /\ "BUY_FAVORABLE_PERCENTILE" \in buy \/ "BUY_NEAR_HISTORICAL_LOW" \in buy
      => WeaklyFavorable(buy)
  BY DEF WeaklyFavorable
<1> HIDE DEF buy, wait, watch
<1>5. WaitEvidence(wait) \/ StronglyFavorable(buy) \/ watch # {}
  BY <1>1, <1>2, <1>3, <1>4
<1> QED  BY <1>5 DEF buy, wait, watch

DecisionOf(in) ==
    LET buy  == BuyRules(in)
        wait == WaitRules(in, buy)
    IN  IF Gates(in) # {} THEN "INSUFFICIENT_DATA"
        ELSE IF StronglyFavorable(buy) /\ WaitEvidence(wait) THEN "WATCH"
        ELSE IF WaitEvidence(wait)     THEN "WAIT"
        ELSE IF StronglyFavorable(buy) THEN "BUY_NOW"
        ELSE "WATCH"

CitedBy(in) ==
    LET buy   == BuyRules(in)
        wait  == WaitRules(in, buy)
        watch == WatchRules(in, buy, wait)
    IN  IF DecisionOf(in) = "INSUFFICIENT_DATA" THEN {GateNames[gate] : gate \in Gates(in)}
        ELSE IF DecisionOf(in) = "WAIT"         THEN wait
        ELSE IF DecisionOf(in) = "BUY_NOW"      THEN buy
        ELSE IF watch # {}                      THEN watch
        ELSE PredictionUnused(in.prediction)

LEMMA RecommendIs ==
    ASSUME NEW in
    PROVE  /\ Recommend(in).decision = DecisionOf(in)
           /\ Recommend(in).triggered = CitedBy(in)
           /\ Recommend(in).reasons = Reasons(CitedBy(in), PredictionUnused(in.prediction))
           /\ Recommend(in).saving = ExpectedSaving(in)
BY DEF Recommend, DecisionOf, CitedBy

\* What the decision cites, when a percentile is known of every price.
LEMMA CitesSomething ==
    ASSUME NEW in, Gates(in) = {} => IsKnown(in.percentile)
    PROVE  CitedBy(in) # {}
<1> DEFINE buy  == BuyRules(in)
           wait == WaitRules(in, buy)
           watch == WatchRules(in, buy, wait)
<1>1. DecisionOf(in) = IF Gates(in) # {} THEN "INSUFFICIENT_DATA"
                       ELSE IF StronglyFavorable(buy) /\ WaitEvidence(wait) THEN "WATCH"
                       ELSE IF WaitEvidence(wait)     THEN "WAIT"
                       ELSE IF StronglyFavorable(buy) THEN "BUY_NOW"
                       ELSE "WATCH"
  BY DEF DecisionOf
<1>2. CitedBy(in) = IF DecisionOf(in) = "INSUFFICIENT_DATA" THEN {GateNames[gate] : gate \in Gates(in)}
                    ELSE IF DecisionOf(in) = "WAIT"         THEN wait
                    ELSE IF DecisionOf(in) = "BUY_NOW"      THEN buy
                    ELSE IF watch # {}                      THEN watch
                    ELSE PredictionUnused(in.prediction)
  BY DEF CitedBy
<1>3. WaitEvidence(wait) => wait # {}
  BY DEF WaitEvidence
<1>4. StronglyFavorable(buy) => buy # {}
  BY DEF StronglyFavorable
<1>5. StronglyFavorable(buy) /\ WaitEvidence(wait) => watch # {}
  BY WatchRulesAre
<1>6. Gates(in) = {} => WaitEvidence(wait) \/ StronglyFavorable(buy) \/ watch # {}
  BY SomeRuleFires
<1> HIDE DEF buy, wait, watch
<1> QED  BY <1>1, <1>2, <1>3, <1>4, <1>5, <1>6

LEMMA SavingsAreUsed ==
    ASSUME NEW in, ExpectedSaving(in) # None
    PROVE  /\ PredictionUnused(in.prediction) = {}
           /\ UsedPrice(in) = in.prediction.price /\ in.prediction.price # None /\ in.price # None
           /\ in.prediction # None
           /\ ExpectedSaving(in) = in.price - in.prediction.price
           /\ Recommend(in).reasons \cap UnusedReasons = {}
<1>1. /\ UsedPrice(in) # None /\ in.price # None
      /\ ExpectedSaving(in) = in.price - UsedPrice(in)
  BY DEF ExpectedSaving, PredictedSavings
<1>2. PredictionUnused(in.prediction) = {} /\ UsedPrice(in) = in.prediction.price
  BY <1>1 DEF UsedPrice, PredictionUsed
<1>3. in.prediction # None
  BY <1>2 DEF PredictionUnused
<1>4. CitedBy(in) \subseteq BuyNames \cup WaitNames \cup WatchNames
                              \cup {GateNames[gate] : gate \in 1..4}
  <2> DEFINE buy  == BuyRules(in)
             wait == WaitRules(in, buy)
             watch == WatchRules(in, buy, wait)
  <2>1. buy \subseteq BuyNames /\ wait \subseteq WaitNames /\ watch \subseteq WatchNames
    BY BuyRulesAre, WaitRulesAre, WatchRulesAre
  <2>2. Gates(in) \subseteq 1..4
    BY DEF Gates
  <2>3. CitedBy(in) \in {{GateNames[gate] : gate \in Gates(in)}, wait, buy, watch, {}}
    BY <1>2 DEF CitedBy
  <2> HIDE DEF buy, wait, watch
  <2> QED  BY <2>1, <2>2, <2>3
<1>5. (BuyNames \cup WaitNames \cup WatchNames \cup {GateNames[gate] : gate \in 1..4})
         \cap UnusedReasons = {}
  <2>1. {GateNames[gate] : gate \in 1..4} =
          {"no_current_price", "stale_data", "missing_data", "insufficient_history"}
    BY DEF GateNames
  <2> QED  BY <2>1 DEF BuyNames, WaitNames, WatchNames, UnusedReasons
<1>6. Recommend(in).reasons = CitedBy(in)
  BY <1>2, RecommendIs DEF Reasons
<1> QED  BY <1>1, <1>2, <1>3, <1>4, <1>5, <1>6

-----------------------------------------------------------------------------
(* What a prediction says.                                                 *)

GroupsOf(points) == {<<p.retailer, p.sellerId, p.listing>> : p \in points}
RowsOf(points, g) == {p \in points : p.listing = g[3] /\ p.sellerId = g[2]}
KnownOf(points, g) == \E p \in RowsOf(points, g) : /\ QualifiesForCalculations(p)
                                                   /\ p.observedAt < now /\ p.createdAt < now
PredictionOf(points, g) ==
    [retailer |-> g[1], sellerId |-> g[2], listing |-> g[3],
     first |-> Earliest(RowsOf(points, g)),
     status |-> IF KnownOf(points, g) THEN "PREDICTED" ELSE "INSUFFICIENT_DATA",
     price |-> IF KnownOf(points, g) THEN PredictedPrice[g[3]] ELSE None,
     confidence |-> IF KnownOf(points, g) THEN PredictedConfidence ELSE None]

LEMMA PredictionsAre ==
    ASSUME NEW points
    PROVE  Predictions(points) = {PredictionOf(points, g) : g \in GroupsOf(points)}
BY DEF Predictions, PredictionOf, GroupsOf, RowsOf, KnownOf

\* The listing of an observation is known by its number.
LEMMA OneListing ==
    ASSUME RowsInv, NEW s \in snapshots, NEW t \in snapshots, s.listing = t.listing
    PROVE  /\ s.retailer = t.retailer /\ s.variant = t.variant
           /\ \E l \in Catalogue : s.listing = l.id
<1>1. PICK l \in listings : RowOf(s, l)
  BY DEF RowsInv
<1>2. PICK m \in listings : RowOf(t, m)
  BY DEF RowsInv
<1>3. l \in Catalogue /\ m \in Catalogue /\ l.id = m.id
  BY <1>1, <1>2 DEF RowsInv, RowOf
<1>4. l = m
  BY <1>3, RowsAssumption
<1> QED  BY <1>1, <1>2, <1>3, <1>4 DEF RowOf

LEMMA PredictionIs ==
    ASSUME RowsInv, NEW points, points \subseteq snapshots, NEW g \in GroupsOf(points)
    PROVE  /\ PredictionOf(points, g).first \in points
           /\ PredictionOf(points, g).first.listing = g[3]
           /\ PredictionOf(points, g).first.sellerId = g[2]
           /\ PredictionOf(points, g).first.retailer = g[1]
           /\ g = <<g[1], g[2], g[3]>>
           /\ PredictionOf(points, g).price \in Amounts
<1>1. PICK p \in points : g = <<p.retailer, p.sellerId, p.listing>>
  BY DEF GroupsOf
<1> DEFINE rows == RowsOf(points, g)
           f == Earliest(rows)
<1>2. p \in rows /\ rows \subseteq points /\ \A q \in rows : q.listing = g[3] /\ q.sellerId = g[2]
  BY <1>1 DEF RowsOf
<1>3. f \in rows
  BY <1>2, EndsAre
<1>4. PredictionOf(points, g).first = f
  BY DEF PredictionOf
<1>5. PredictionOf(points, g).price \in {PredictedPrice[g[3]], None}
  BY DEF PredictionOf
<1> HIDE DEF rows, f
<1>6. f \in points /\ f.listing = g[3] /\ f.sellerId = g[2]
  BY <1>2, <1>3
<1>7. f.listing = p.listing /\ p.retailer = g[1] /\ p.listing = g[3]
  BY <1>1, <1>6
<1>8. f.retailer = p.retailer /\ \E l \in Catalogue : p.listing = l.id
  BY <1>6, <1>7, OneListing
<1>9. PredictedPrice[g[3]] \in Amounts
  BY <1>7, <1>8, RowsAssumption
<1> QED  BY <1>1, <1>4, <1>5, <1>6, <1>7, <1>8, <1>9 DEF Amounts

\* The prediction taken is one of those made.
LEMMA PredictionIsMade ==
    ASSUME RowsInv, NEW points, points \subseteq snapshots, NEW current,
           PredictionForCurrent(Predictions(points), current) # None
    PROVE  PredictionForCurrent(Predictions(points), current) \in Predictions(points)
<1> DEFINE match == {p \in Predictions(points) : /\ p.retailer = current.retailer
                                                 /\ p.sellerId = current.sellerId}
           firsts == {p.first : p \in match}
           e == Earliest(firsts)
           taken == CHOOSE p \in match : \A q \in match : q = p \/ Earlier(p.first, q.first)
<1>1. match # {} /\ PredictionForCurrent(Predictions(points), current) = taken
  BY DEF PredictionForCurrent, First
<1>2. \A p \in match : \E g \in GroupsOf(points) : p = PredictionOf(points, g)
  BY PredictionsAre
<1>3. firsts \subseteq snapshots /\ firsts # {}
  BY <1>1, <1>2, PredictionIs
<1> HIDE DEF match
<1>4. e \in firsts /\ \A q \in firsts : q = e \/ Earlier(e, q)
  <2> HIDE DEF firsts
  <2> QED  BY <1>3, EndsAre
<1>5. PICK p \in match : e = p.first
  BY <1>4
<1>6. \A q \in match : q.first = p.first => q = p
  <2> SUFFICES ASSUME NEW q \in match, q.first = p.first PROVE q = p
    OBVIOUS
  <2>1. PICK g \in GroupsOf(points) : p = PredictionOf(points, g)
    BY <1>2
  <2>2. PICK h \in GroupsOf(points) : q = PredictionOf(points, h)
    BY <1>2
  <2>3. g[1] = h[1] /\ g[2] = h[2] /\ g[3] = h[3]
    BY <2>1, <2>2, PredictionIs
  <2>4. g = <<g[1], g[2], g[3]>> /\ h = <<h[1], h[2], h[3]>>
    BY PredictionIs
  <2>5. g = h
    BY <2>3, <2>4
  <2> QED  BY <2>1, <2>2, <2>5
<1>7. \A q \in match : q = p \/ Earlier(p.first, q.first)
  <2>1. \A q \in match : q.first \in firsts
    OBVIOUS
  <2> QED  BY <1>4, <1>5, <1>6, <2>1
<1>8. taken \in match
  BY <1>7
<1> QED  BY <1>1, <1>8 DEF match

-----------------------------------------------------------------------------
(* The advice.                                                             *)

LEMMA InputIs ==
    ASSUME NEW points
    PROVE  LET in == InputOf(points)
               seen == QualifyingObservations(points)
               current == History(points).current IN
           /\ in.price = IF current = None THEN None ELSE AnalysisPrice(current)
           /\ in.qualifying = Cardinality(seen)
           /\ in.percentile = CurrentPercentile(seen, current)
           /\ in.prediction = PredictionForCurrent(Predictions(points), current)
BY DEF InputOf, InputWith, InputFromHistory, History, ComputeVariant

LEMMA PriceIs ==
    ASSUME RowsInv, NEW points, points \subseteq snapshots,
           History(points).current # None
    PROVE  AnalysisPrice(History(points).current) \in Nat
<1> DEFINE seen == QualifyingObservations(points)
<1>1. seen \subseteq snapshots
  BY DEF QualifyingObservations
<1>2. seen # {} /\ History(points).current = Latest(seen)
  BY CurrentIs
<1> HIDE DEF seen
<1>3. Latest(seen) \in snapshots
  BY <1>1, <1>2, EndsAre
<1>4. \A s \in snapshots : s.displayed \in Nat /\ s.effective \in Amounts
  BY DEF RowsInv, Said
<1> QED  BY <1>2, <1>3, <1>4 DEF AnalysisPrice, Amounts

LEMMA PercentileIsKnown ==
    ASSUME RowsInv, MinPercentile <= MinObservations,
           NEW points, points \subseteq snapshots, Gates(InputOf(points)) = {}
    PROVE  IsKnown(InputOf(points).percentile)
<1> DEFINE in == InputOf(points)
           seen == QualifyingObservations(points)
           current == History(points).current
<1>1. in.price # None /\ ~(in.qualifying < MinObservations)
  BY DEF Gates
<1>2. current # None /\ in.qualifying = Cardinality(seen)
      /\ in.percentile = CurrentPercentile(seen, current)
  BY <1>1, InputIs
<1>3. Cardinality(seen) \in Nat
  <2>1. seen \subseteq snapshots
    BY DEF QualifyingObservations
  <2> QED  BY <2>1, FS_Subset, FS_CardinalityType DEF RowsInv
<1>4. MinPercentile \in Nat /\ MinObservations \in Nat
  BY MinimaAreAllowed, ThresholdsAreOrdered
<1> HIDE DEF in, seen, current
<1>5. ~(Cardinality(seen) < MinPercentile)
  BY <1>1, <1>2, <1>3, <1>4
<1>6. IsKnown(in.percentile)
  BY <1>2, <1>5 DEF CurrentPercentile, IsKnown, Available
<1> QED  BY <1>6 DEF in

(* Every decision cites a rule that fired, WATCH included, and no answer
   contradicts itself: no saving beside a reason why the prediction was not
   used, no buying now beside a saving worth waiting for (recommend, _reasons,
   _expected_saving).  A percentile must need no more observations than an
   advice, as in the defaults: with settings otherwise, which are accepted, a
   WATCH may cite nothing. *)
THEOREM DecisionsAreExplained ==
    ASSUME MinPercentile <= MinObservations
    PROVE  Spec => []EveryDecisionIsExplained
<1>1. ASSUME RowsInv PROVE EveryDecisionIsExplained
  <2> SUFFICES ASSUME NEW v \in Variants
               PROVE  LET in == InputOf(PointsOf(v))
                          answer == Recommend(in) IN
                      /\ answer.triggered # {}
                      /\ answer.decision = "WAIT" => answer.triggered # {"WAIT_RISING_TREND"}
                      /\ answer.saving = None \/ answer.reasons \cap UnusedReasons = {}
                      /\ answer.saving # None /\ answer.decision = "BUY_NOW" =>
                            100 * answer.saving < MinSavingsPercent * in.price
    BY DEF EveryDecisionIsExplained
  <2> DEFINE points == PointsOf(v)
             in == InputOf(points)
             answer == Recommend(in)
             buy  == BuyRules(in)
             wait == WaitRules(in, buy)
  <2>0. points \subseteq snapshots
    BY DEF PointsOf
  <2>1. answer.triggered # {}
    BY <1>1, <2>0, PercentileIsKnown, CitesSomething, RecommendIs
  <2>2. answer.decision = "WAIT" => answer.triggered # {"WAIT_RISING_TREND"}
    <3>1. answer.decision = "WAIT" => WaitEvidence(wait) /\ answer.triggered = wait
      BY RecommendIs DEF DecisionOf, CitedBy
    <3> QED  BY <3>1 DEF WaitEvidence
  <2>3. answer.saving = None \/ answer.reasons \cap UnusedReasons = {}
    BY RecommendIs, SavingsAreUsed
  <2>4. ASSUME answer.saving # None, answer.decision = "BUY_NOW"
        PROVE  100 * answer.saving < MinSavingsPercent * in.price
    <3>1. answer.saving = ExpectedSaving(in) /\ ExpectedSaving(in) # None
      BY <2>4, RecommendIs
    <3>2. /\ UsedPrice(in) = in.prediction.price /\ in.prediction.price # None /\ in.price # None
          /\ in.prediction # None
          /\ ExpectedSaving(in) = in.price - in.prediction.price
      BY <3>1, SavingsAreUsed
    <3>3. in.price \in Nat
      BY <1>1, <2>0, <3>2, InputIs, PriceIs
    <3>4. in.prediction.price \in Nat
      <4> DEFINE current == History(points).current
      <4>1. in.prediction = PredictionForCurrent(Predictions(points), current)
        BY InputIs
      <4> HIDE DEF in, points, current
      <4>2. in.prediction \in Predictions(points)
        BY <1>1, <2>0, <3>2, <4>1, PredictionIsMade
      <4>3. \A p \in Predictions(points) : p.price \in Amounts
        BY <1>1, <2>0, PredictionsAre, PredictionIs
      <4> QED  BY <3>2, <4>2, <4>3 DEF Amounts
    <3>5. ~SavingsAreMaterial(in, UsedPrice(in))
      <4>1. ~WaitEvidence(wait)
        BY <2>4, RecommendIs DEF DecisionOf
      <4>2. "WAIT_PREDICTED_SAVINGS" \notin wait
        BY <4>1 DEF WaitEvidence
      <4> QED  BY <4>2, WaitRulesAre
    <3>6. ~AtLeastPercent(100 * ExpectedSaving(in), in.price, MinSavingsPercent)
      BY <3>1, <3>5 DEF SavingsAreMaterial, ExpectedSaving
    <3> DEFINE x == 100 * ExpectedSaving(in)
               y == MinSavingsPercent * in.price
    <3>7. x \in Int /\ y \in Int
      <4>1. ExpectedSaving(in) \in Int
        BY <3>2, <3>3, <3>4
      <4>2. MinSavingsPercent \in Nat
        BY ThresholdsAreOrdered
      <4> HIDE DEF in
      <4> QED  BY <3>3, <4>1, <4>2
    <3>8. ~(20000 * x + in.price >= 20000 * y)
      <4>1. ASSUME NEW price \in Nat, NEW least \in Nat, NEW saving \in Int
            PROVE  AtLeastPercent(saving, price, least)
                     <=> 20000 * saving + price >= 20000 * (least * price)
        BY DEF AtLeastPercent
      <4>2. MinSavingsPercent \in Nat
        BY ThresholdsAreOrdered
      <4> HIDE DEF in
      <4> QED  BY <3>3, <3>6, <3>7, <4>1, <4>2
    <3> HIDE DEF x, y
    <3>9. x < y
      BY <3>3, <3>7, <3>8
    <3> QED  BY <3>1, <3>9 DEF x, y
  <2> QED  BY <2>1, <2>2, <2>3, <2>4
<1> QED  BY <1>1, RowsAreSound, PTL

-----------------------------------------------------------------------------
(* Sums.                                                                   *)

\* The sum of a function over the subsets of its domain, one element after
\* another.
IsSum(g, f, subsets) ==
    g = [s \in subsets |-> IF s = {} THEN 0
                           ELSE f[CHOOSE x \in s : TRUE] + g[s \ {CHOOSE x \in s : TRUE}]]

LEMMA SumIs ==
    ASSUME NEW f
    PROVE  SumFunction(f) = (CHOOSE g : IsSum(g, f, SUBSET DOMAIN f))[DOMAIN f]
BY DEF SumFunction, SumFunctionOnSet, FoldFunctionOnSet, MapThenFoldSet, IsSum

UpTo(S, n) == {s \in SUBSET S : Cardinality(s) <= n}

LEMMA Smaller ==
    ASSUME NEW S, IsFiniteSet(S), NEW n \in Nat, NEW s \in UpTo(S, n + 1), s # {}
    PROVE  s \ {CHOOSE x \in s : TRUE} \in UpTo(S, n)
<1> DEFINE x == CHOOSE y \in s : TRUE
<1>1. x \in s /\ s \subseteq S /\ Cardinality(s) <= n + 1
  BY DEF UpTo
<1>2. IsFiniteSet(s) /\ Cardinality(s) \in Nat
  BY <1>1, FS_Subset, FS_CardinalityType
<1> HIDE DEF x
<1>3. Cardinality(s \ {x}) = Cardinality(s) - 1
  BY <1>1, <1>2, FS_RemoveElement
<1>4. s \ {x} \in UpTo(S, n)
  BY <1>1, <1>2, <1>3 DEF UpTo
<1> QED  BY <1>4 DEF x

LEMMA SumExists ==
    ASSUME NEW f, NEW S, IsFiniteSet(S), NEW n \in Nat
    PROVE  \E g : IsSum(g, f, UpTo(S, n))
<1> DEFINE bad == {m \in Nat : ~\E g : IsSum(g, f, UpTo(S, m))}
           c(s) == CHOOSE x \in s : TRUE
<1> SUFFICES ASSUME bad # {} PROVE FALSE
  OBVIOUS
<1>1. PICK m \in bad : \A k \in bad : m <= k
  BY LeastNumber
<1>2. m \in Nat /\ ~\E g : IsSum(g, f, UpTo(S, m))
  OBVIOUS
<1>3. CASE m = 0
  <2> DEFINE g == [s \in UpTo(S, 0) |-> 0]
  <2>1. \A s \in UpTo(S, 0) : s = {}
    <3> TAKE s \in UpTo(S, 0)
    <3>1. IsFiniteSet(s) /\ Cardinality(s) <= 0
      BY FS_Subset DEF UpTo
    <3> QED  BY <3>1, FS_EmptySet, FS_CardinalityType
  <2>2. IsSum(g, f, UpTo(S, 0))
    BY <2>1 DEF IsSum
  <2> HIDE DEF g
  <2> QED  BY <1>2, <1>3, <2>2
<1>4. CASE m # 0
  <2> DEFINE k == m - 1
  <2>1. k \in Nat /\ m = k + 1
    BY <1>2, <1>4
  <2>2. k \notin bad
    BY <1>1, <2>1
  <2> HIDE DEF k
  <2>3. PICK g : IsSum(g, f, UpTo(S, k))
    BY <2>1, <2>2
  <2> DEFINE h == [s \in UpTo(S, m) |-> IF s = {} THEN 0 ELSE f[c(s)] + g[s \ {c(s)}]]
  <2>4. UpTo(S, k) \subseteq UpTo(S, m)
    <3>1. \A s \in SUBSET S : Cardinality(s) \in Nat
      BY FS_Subset, FS_CardinalityType
    <3> QED  BY <2>1, <3>1 DEF UpTo
  <2>5. \A s \in UpTo(S, k) : h[s] = g[s]
    <3>1. \A s \in UpTo(S, k) : g[s] = IF s = {} THEN 0 ELSE f[c(s)] + g[s \ {c(s)}]
      BY <2>3 DEF IsSum
    <3> QED  BY <2>4, <3>1
  <2>6. \A s \in UpTo(S, m) : s # {} => s \ {c(s)} \in UpTo(S, k)
    BY <2>1, Smaller
  <2>7. h = [s \in UpTo(S, m) |-> IF s = {} THEN 0 ELSE f[c(s)] + h[s \ {c(s)}]]
    <3>1. \A s \in UpTo(S, m) : s # {} => h[s \ {c(s)}] = g[s \ {c(s)}]
      BY <2>5, <2>6
    <3> HIDE DEF c
    <3>2. \A s \in UpTo(S, m) : (IF s = {} THEN 0 ELSE f[c(s)] + g[s \ {c(s)}])
                                  = (IF s = {} THEN 0 ELSE f[c(s)] + h[s \ {c(s)}])
      BY <3>1
    <3> QED  BY <3>2, Zenon
  <2>8. IsSum(h, f, UpTo(S, m))
    <3> HIDE DEF h
    <3> QED  BY <2>7 DEF IsSum
  <2> HIDE DEF h
  <2> QED  BY <1>2, <2>8
<1> QED  BY <1>3, <1>4

\* A sum exists for every finite function, and is the only one.
LEMMA SumOf ==
    ASSUME NEW f, NEW S, IsFiniteSet(S)
    PROVE  \E g : IsSum(g, f, SUBSET S)
<1>1. Cardinality(S) \in Nat /\ UpTo(S, Cardinality(S)) = SUBSET S
  BY FS_Subset, FS_CardinalityType DEF UpTo
<1>2. \E g : IsSum(g, f, UpTo(S, Cardinality(S)))
  BY <1>1, SumExists
<1> QED  BY <1>1, <1>2

Agree(f, h, S) == \A x \in S : f[x] = h[x]

\* Sums of functions that agree are the same.
LEMMA SumsAgree ==
    ASSUME NEW S, NEW T, S \subseteq T, IsFiniteSet(T),
           NEW f, NEW g, IsSum(g, f, SUBSET S), NEW h, NEW k, IsSum(k, h, SUBSET T),
           Agree(f, h, S)
    PROVE  g[S] = k[S]
<1> DEFINE c(s) == CHOOSE x \in s : TRUE
           bad == {m \in Nat : \E s \in UpTo(S, m) : g[s] # k[s]}
<1>0. IsFiniteSet(S)
  BY FS_Subset
<1>1. \A s \in SUBSET S : /\ g[s] = IF s = {} THEN 0 ELSE f[c(s)] + g[s \ {c(s)}]
                          /\ k[s] = IF s = {} THEN 0 ELSE h[c(s)] + k[s \ {c(s)}]
  BY DEF IsSum
<1>2. bad = {}
  <2> SUFFICES ASSUME bad # {} PROVE FALSE
    OBVIOUS
  <2>1. PICK m \in bad : \A j \in bad : m <= j
    BY LeastNumber
  <2>2. PICK s \in UpTo(S, m) : g[s] # k[s]
    OBVIOUS
  <2>3. s \in SUBSET S /\ Cardinality(s) <= m
    BY DEF UpTo
  <2>4. s # {}
    BY <1>1, <2>2, <2>3
  <2>5. m # 0
    <3>1. IsFiniteSet(s)
      BY <1>0, <2>3, FS_Subset
    <3> QED  BY <2>3, <2>4, <3>1, FS_EmptySet, FS_CardinalityType
  <2> DEFINE j == m - 1
  <2>6. j \in Nat /\ m = j + 1 /\ j \notin bad
    BY <2>1, <2>5
  <2> HIDE DEF j
  <2>7. s \ {c(s)} \in UpTo(S, j)
    BY <1>0, <2>4, <2>6, Smaller
  <2>8. g[s \ {c(s)}] = k[s \ {c(s)}]
    BY <2>6, <2>7
  <2>9. f[c(s)] = h[c(s)]
    BY <2>3, <2>4 DEF Agree
  <2> HIDE DEF c
  <2>10. /\ g[s] = f[c(s)] + g[s \ {c(s)}]
         /\ k[s] = h[c(s)] + k[s \ {c(s)}]
    BY <1>1, <2>3, <2>4
  <2> QED  BY <2>2, <2>8, <2>9, <2>10
<1>3. Cardinality(S) \in Nat /\ S \in UpTo(S, Cardinality(S))
  BY <1>0, FS_CardinalityType DEF UpTo
<1> QED  BY <1>2, <1>3

SumsAreIntegers(g, S) == \A s \in SUBSET S : g[s] \in Int

LEMMA PartialSums ==
    ASSUME NEW f, NEW S, IsFiniteSet(S), \A x \in S : f[x] \in Int,
           NEW g, IsSum(g, f, SUBSET S)
    PROVE  SumsAreIntegers(g, S)
<1> DEFINE c(s) == CHOOSE x \in s : TRUE
           bad == {m \in Nat : \E s \in UpTo(S, m) : g[s] \notin Int}
<1>1. \A s \in SUBSET S : g[s] = IF s = {} THEN 0 ELSE f[c(s)] + g[s \ {c(s)}]
  BY DEF IsSum
<1>2. bad = {}
  <2> SUFFICES ASSUME bad # {} PROVE FALSE
    OBVIOUS
  <2>1. PICK m \in bad : \A k \in bad : m <= k
    BY LeastNumber
  <2>2. PICK s \in UpTo(S, m) : g[s] \notin Int
    OBVIOUS
  <2>3. s \in SUBSET S /\ Cardinality(s) <= m
    BY DEF UpTo
  <2>4. s # {}
    BY <1>1, <2>2, <2>3
  <2>5. m # 0
    <3>1. IsFiniteSet(s)
      BY <2>3, FS_Subset
    <3> QED  BY <2>3, <2>4, <3>1, FS_EmptySet, FS_CardinalityType
  <2> DEFINE k == m - 1
  <2>6. k \in Nat /\ m = k + 1 /\ k \notin bad
    BY <2>1, <2>5
  <2> HIDE DEF k
  <2>7. s \ {c(s)} \in UpTo(S, k)
    BY <2>4, <2>6, Smaller
  <2>8. g[s \ {c(s)}] \in Int
    BY <2>6, <2>7
  <2>9. f[c(s)] \in Int
    BY <2>3, <2>4
  <2> HIDE DEF c
  <2>10. g[s] = f[c(s)] + g[s \ {c(s)}]
    BY <1>1, <2>3, <2>4
  <2> QED  BY <2>2, <2>8, <2>9, <2>10
<1>3. ASSUME NEW s \in SUBSET S PROVE g[s] \in Int
  <2>1. Cardinality(s) \in Nat /\ s \in UpTo(S, Cardinality(s))
    BY FS_Subset, FS_CardinalityType DEF UpTo
  <2> QED  BY <1>2, <2>1
<1> QED  BY <1>3 DEF SumsAreIntegers

\* Whichever element is taken first, the sum is the same.
LEMMA AnyFirst ==
    ASSUME NEW f, NEW S, IsFiniteSet(S), \A x \in S : f[x] \in Int,
           NEW g, IsSum(g, f, SUBSET S), NEW y \in S
    PROVE  g[S] = f[y] + g[S \ {y}]
<1> DEFINE c(s) == CHOOSE x \in s : TRUE
           bad == {m \in Nat : \E s \in UpTo(S, m) : \E x \in s : g[s] # f[x] + g[s \ {x}]}
<1>1. \A s \in SUBSET S : s # {} => g[s] = f[c(s)] + g[s \ {c(s)}]
  BY DEF IsSum
<1>2. \A s \in SUBSET S : g[s] \in Int
  BY PartialSums DEF SumsAreIntegers
<1>3. bad = {}
  <2> SUFFICES ASSUME bad # {} PROVE FALSE
    OBVIOUS
  <2>1. PICK m \in bad : \A k \in bad : m <= k
    BY LeastNumber
  <2>2. PICK s \in UpTo(S, m) : \E x \in s : g[s] # f[x] + g[s \ {x}]
    OBVIOUS
  <2>3. PICK x \in s : g[s] # f[x] + g[s \ {x}]
    BY <2>2
  <2>4. s \in SUBSET S /\ Cardinality(s) <= m /\ s # {} /\ IsFiniteSet(s)
    BY FS_Subset DEF UpTo
  <2>5. m # 0
    BY <2>4, FS_EmptySet, FS_CardinalityType
  <2> DEFINE k == m - 1
             e == c(s)
             t == s \ {x}
             r == s \ {e}
  <2>6. k \in Nat /\ m = k + 1 /\ k \notin bad
    BY <2>1, <2>5
  <2> HIDE DEF k
  <2>7. e \in s /\ g[s] = f[e] + g[r]
    BY <1>1, <2>4
  <2> HIDE DEF e
  <2>8. e # x
    BY <2>3, <2>7
  <2>9. \A z \in s : s \ {z} \in UpTo(S, k)
    <3> TAKE z \in s
    <3>1. Cardinality(s \ {z}) = Cardinality(s) - 1 /\ Cardinality(s) \in Nat
      BY <2>4, FS_RemoveElement, FS_CardinalityType
    <3> QED  BY <2>4, <2>6, <3>1 DEF UpTo
  <2>10. g[r] = f[x] + g[r \ {x}]
    <3>1. r \in UpTo(S, k) /\ x \in r
      BY <2>7, <2>8, <2>9
    <3> QED  BY <2>6, <3>1
  <2>11. g[t] = f[e] + g[t \ {e}]
    <3>1. t \in UpTo(S, k) /\ e \in t
      BY <2>7, <2>8, <2>9
    <3> QED  BY <2>6, <3>1
  <2>12. r \ {x} = t \ {e} /\ t \ {e} \in SUBSET S
    BY <2>4
  <2>13. f[x] \in Int /\ f[e] \in Int /\ g[t \ {e}] \in Int
    BY <1>2, <2>4, <2>7, <2>12
  <2>14. g[s] # f[x] + g[t]
    BY <2>3
  <2> HIDE DEF r, t
  <2> DEFINE G == g[t \ {e}]
  <2>15. /\ g[s] = f[e] + g[r] /\ g[r] = f[x] + G /\ g[t] = f[e] + G
         /\ f[x] \in Int /\ f[e] \in Int /\ G \in Int
    BY <2>7, <2>10, <2>11, <2>12, <2>13
  <2> HIDE DEF G
  <2> QED  BY <2>14, <2>15
<1>4. Cardinality(S) \in Nat /\ S \in UpTo(S, Cardinality(S))
  BY FS_CardinalityType DEF UpTo
<1> QED  BY <1>3, <1>4

LEMMA SumIsInteger ==
    ASSUME NEW f, IsFiniteSet(DOMAIN f), \A x \in DOMAIN f : f[x] \in Int
    PROVE  SumFunction(f) \in Int
<1> DEFINE S == DOMAIN f
           g == CHOOSE h : IsSum(h, f, SUBSET S)
<1>1. IsSum(g, f, SUBSET S)
  BY SumOf
<1> HIDE DEF g
<1>2. g[S] \in Int
  BY <1>1, PartialSums DEF SumsAreIntegers
<1> QED  BY <1>2, SumIs DEF g

-----------------------------------------------------------------------------
(* The order of the offers.                                                *)

LexBefore(x, y) == \E i \in 1..10 : x[i] < y[i] /\ \A j \in 1..(i - 1) : x[j] = y[j]

LEMMA LexOrders ==
    /\ \A x \in [1..10 -> Int] : ~LexBefore(x, x)
    /\ \A x, y \in [1..10 -> Int] : x[10] # y[10] => LexBefore(x, y) \/ LexBefore(y, x)
    /\ \A x, y, z \in [1..10 -> Int] : LexBefore(x, y) /\ LexBefore(y, z) => LexBefore(x, z)
<1>1. \A x \in [1..10 -> Int] : ~LexBefore(x, x)
  BY DEF LexBefore
<1>2. ASSUME NEW x \in [1..10 -> Int], NEW y \in [1..10 -> Int], x[10] # y[10]
      PROVE  LexBefore(x, y) \/ LexBefore(y, x)
  <2> DEFINE D == {k \in 1..10 : x[k] # y[k]}
  <2>1. D \in SUBSET Nat /\ 10 \in D
    BY <1>2
  <2>2. PICK i \in D : \A k \in D : i <= k
    BY <2>1, LeastNumber
  <2>3. \A j \in 1..(i - 1) : x[j] = y[j]
    BY <2>2
  <2>4. x[i] < y[i] \/ y[i] < x[i]
    <3>1. i \in 1..10 /\ x[i] # y[i]
      OBVIOUS
    <3>2. x[i] \in Int /\ y[i] \in Int
      BY <3>1
    <3> QED  BY <3>1, <3>2
  <2> QED  BY <2>3, <2>4 DEF LexBefore
<1>3. ASSUME NEW x \in [1..10 -> Int], NEW y \in [1..10 -> Int], NEW z \in [1..10 -> Int],
             LexBefore(x, y), LexBefore(y, z)
      PROVE  LexBefore(x, z)
  <2>1. PICK i \in 1..10 : x[i] < y[i] /\ \A j \in 1..(i - 1) : x[j] = y[j]
    BY <1>3 DEF LexBefore
  <2>2. PICK k \in 1..10 : y[k] < z[k] /\ \A j \in 1..(k - 1) : y[j] = z[j]
    BY <1>3 DEF LexBefore
  <2>3. \A j \in 1..10 : x[j] \in Int /\ y[j] \in Int /\ z[j] \in Int
    OBVIOUS
  <2>4. CASE i <= k
    <3>1. x[i] < z[i] /\ \A j \in 1..(i - 1) : x[j] = z[j]
      BY <2>1, <2>2, <2>3, <2>4
    <3> QED  BY <3>1 DEF LexBefore
  <2>5. CASE k < i
    <3>1. x[k] < z[k] /\ \A j \in 1..(k - 1) : x[j] = z[j]
      BY <2>1, <2>2, <2>3, <2>5
    <3> QED  BY <3>1 DEF LexBefore
  <2> QED  BY <2>4, <2>5
<1> QED  BY <1>1, <1>2, <1>3

\* An offer with all that its rank depends on.
Keyed(o) ==
    /\ o.payable \in Nat /\ o.displayed \in Nat
    /\ o.availability \in {"in_stock", "limited_stock"}
    /\ o.delivery \in Amounts
    /\ o.retailer \in Nat /\ o.id \in Nat

LEMMA QualityIs == ASSUME NEW seller PROVE SellerQuality(seller) \in Nat
<1>1. (IF seller.active THEN 1 ELSE 0) \in Nat /\ (IF seller.firstParty THEN 2 ELSE 0) \in Nat
  OBVIOUS
<1> QED  BY <1>1 DEF SellerQuality

LEMMA KeyIs ==
    ASSUME NEW o, Keyed(o)
    PROVE  /\ RankKey(o) \in [1..10 -> Int]
           /\ RankKey(o)[1] = 0 /\ RankKey(o)[2] = o.payable
           /\ RankKey(o)[3] = 0 /\ RankKey(o)[4] = o.displayed
           /\ RankKey(o)[5] = AvailabilityRank(o.availability)
           /\ RankKey(o)[6] = 0 - SellerQuality(o.seller)
           /\ RankKey(o)[10] = o.id
<1>1. None \notin Int
  BY RowsAssumption
<1>2. VerifiedPrice(o) = o.payable
  BY <1>1 DEF VerifiedPrice, CanWinVerifiedRanking, IsAvailable, Keyed
<1>3. IsMissing(VerifiedPrice(o)) = 0 /\ OrZero(VerifiedPrice(o)) = o.payable
  BY <1>1, <1>2 DEF IsMissing, OrZero, Keyed
<1>4. IsMissing(o.displayed) = 0 /\ OrZero(o.displayed) = o.displayed
  BY <1>1 DEF IsMissing, OrZero, Keyed
<1>5. AvailabilityRank(o.availability) \in Int
  BY DEF AvailabilityRank, Keyed
<1>6. 0 - SellerQuality(o.seller) \in Int
  BY QualityIs
<1>7. IsMissing(o.delivery) \in Int /\ OrZero(o.delivery) \in Int
  BY DEF IsMissing, OrZero, Keyed, Amounts
<1>8. o.payable \in Int /\ o.displayed \in Int /\ o.retailer \in Int /\ o.id \in Int
  BY DEF Keyed
<1> DEFINE a == AvailabilityRank(o.availability)
           q == 0 - SellerQuality(o.seller)
           m == IsMissing(o.delivery)
           d == OrZero(o.delivery)
<1>9. RankKey(o) = <<0, o.payable, 0, o.displayed, a, q, m, d, o.retailer, o.id>>
  BY <1>3, <1>4 DEF RankKey
<1>10. a \in Int /\ q \in Int /\ m \in Int /\ d \in Int
  BY <1>5, <1>6, <1>7
<1> HIDE DEF a, q, m, d
<1>11. RankKey(o) \in [1..10 -> Int]
  BY <1>8, <1>9, <1>10
<1>12. /\ RankKey(o)[1] = 0 /\ RankKey(o)[2] = o.payable
       /\ RankKey(o)[3] = 0 /\ RankKey(o)[4] = o.displayed
       /\ RankKey(o)[5] = a /\ RankKey(o)[6] = q /\ RankKey(o)[10] = o.id
  BY <1>9
<1> QED  BY <1>11, <1>12 DEF a, q

LEMMA RanksAre ==
    ASSUME NEW a, NEW b, Keyed(a), Keyed(b)
    PROVE  RanksBefore(a, b) <=> LexBefore(RankKey(a), RankKey(b))
<1> DEFINE x == RankKey(a)
           y == RankKey(b)
<1>1. DOMAIN x = 1..10
  BY KeyIs
<1>2. RanksBefore(a, b) <=> \E i \in DOMAIN x : x[i] < y[i] /\ \A j \in 1..(i - 1) : x[j] = y[j]
  BY DEF RanksBefore
<1> HIDE DEF x, y
<1>3. RanksBefore(a, b) <=> LexBefore(x, y)
  BY <1>1, <1>2 DEF LexBefore
<1> QED  BY <1>3 DEF x, y

\* Some offers have a first one.
LEMMA BestOffer ==
    ASSUME NEW S, IsFiniteSet(S), S # {}, \A o \in S : Keyed(o),
           \A a, b \in S : a.id = b.id => a = b
    PROVE  /\ First(S, RanksBefore) \in S
           /\ \A o \in S : o = First(S, RanksBefore) \/ RanksBefore(First(S, RanksBefore), o)
<1> DEFINE R == {w \in S \X S : RanksBefore(w[1], w[2])}
<1>1. \A a, b \in S : <<a, b>> \in R <=> RanksBefore(a, b)
  OBVIOUS
<1>2. \A a, b \in S : RanksBefore(a, b) <=> LexBefore(RankKey(a), RankKey(b))
  BY RanksAre
<1>3. \A o \in S : RankKey(o) \in [1..10 -> Int] /\ RankKey(o)[10] = o.id
  BY KeyIs
<1> HIDE DEF R
<1>4. Ordered(S, R)
  <2>1. \A a \in S : <<a, a>> \notin R
    BY <1>1, <1>2, <1>3, LexOrders
  <2>2. \A a, b \in S : a = b \/ <<a, b>> \in R \/ <<b, a>> \in R
    BY <1>1, <1>2, <1>3, LexOrders
  <2>3. ASSUME NEW a \in S, NEW b \in S, NEW c \in S, <<a, b>> \in R, <<b, c>> \in R
        PROVE  <<a, c>> \in R
    <3>1. LexBefore(RankKey(a), RankKey(b)) /\ LexBefore(RankKey(b), RankKey(c))
      BY <1>1, <1>2, <2>3
    <3>2. LexBefore(RankKey(a), RankKey(c))
      BY <1>3, <3>1, LexOrders
    <3> QED  BY <1>1, <1>2, <3>2
  <2> QED  BY <2>1, <2>2, <2>3 DEF Ordered
<1>5. PICK a \in S : \A o \in S : o = a \/ RanksBefore(a, o)
  <2>1. \E a \in S : \A o \in S : o = a \/ <<a, o>> \in R
    BY <1>4, FirstOfOrder
  <2> QED  BY <1>1, <2>1
<1>6. First(S, RanksBefore) = CHOOSE x \in S : \A y \in S : y = x \/ RanksBefore(x, y)
  BY DEF First
<1> QED  BY <1>5, <1>6

-----------------------------------------------------------------------------
(* The offers that can be chosen.                                          *)

\* The offer of an observation, as it is shown.
Shown(s) == BuildOffer(OfferFromSnapshot(s, s), now)

LEMMA ShownIs ==
    ASSUME NEW s
    PROVE  /\ Shown(s).id = s.id /\ Shown(s).retailer = s.retailer
           /\ Shown(s).displayed = s.displayed /\ Shown(s).delivery = s.delivery
           /\ Shown(s).availability = s.availability /\ Shown(s).seller = s.seller
           /\ Shown(s).payable = EffectivePrice(s.displayed, Adjustments(OfferFromSnapshot(s, s)), FALSE)
BY DEF Shown, BuildOffer, OfferFromSnapshot

\* What is paid is a number: the price and whole numbers of adjustments.
LEMMA PayableIs ==
    ASSUME NEW s, NEW then, Said(s, then)
    PROVE  EffectivePrice(s.displayed, Adjustments(OfferFromSnapshot(s, s)), FALSE) \in Nat
<1> DEFINE offer == OfferFromSnapshot(s, s)
           all == Adjustments(offer)
<1>0. None \notin Int
  BY RowsAssumption
<1>1. /\ s.displayed \in Nat /\ s.mrp \in Amounts /\ s.delivery \in Amounts
      /\ s.platform \in Amounts /\ IsFiniteSet(s.promotions)
      /\ \A adj \in s.promotions : adj.amount \in Amounts
  BY DEF Said
<1>2. /\ offer.displayed = s.displayed /\ offer.mrp = s.mrp /\ offer.delivery = s.delivery
      /\ offer.platform = s.platform /\ offer.promotions = s.promotions
  BY DEF OfferFromSnapshot
<1> HIDE DEF offer
<1>3. DisplayedDiscount(offer).amount \in Amounts
  <2> DEFINE amount == IF ~(offer.mrp # None /\ offer.displayed # None) THEN None
                       ELSE IF offer.displayed >= offer.mrp THEN 0
                       ELSE offer.mrp - offer.displayed
  <2>1. DisplayedDiscount(offer).amount = amount
    BY DEF DisplayedDiscount
  <2>2. amount \in Amounts
    BY <1>0, <1>1, <1>2 DEF Amounts
  <2> QED  BY <2>1, <2>2
<1>4. \A kind : /\ FeeAdjustment(kind, offer.delivery).amount \in Amounts
                /\ FeeAdjustment(kind, offer.platform).amount \in Amounts
  BY <1>1, <1>2 DEF FeeAdjustment
<1>5. all = offer.promotions \cup {DisplayedDiscount(offer),
                                   FeeAdjustment("delivery_fee", offer.delivery),
                                   FeeAdjustment("platform_fee", offer.platform)}
  BY DEF Adjustments
<1>6. IsFiniteSet(all) /\ \A adj \in all : adj.amount \in Amounts
  <2>1. \A adj \in all : adj.amount \in Amounts
    BY <1>1, <1>2, <1>3, <1>4, <1>5
  <2>2. IsFiniteSet({DisplayedDiscount(offer), FeeAdjustment("delivery_fee", offer.delivery),
                     FeeAdjustment("platform_fee", offer.platform)})
    <3>1. \A a, b, c : IsFiniteSet({a, b, c})
      <4> TAKE a, b, c
      <4>1. IsFiniteSet({} \cup {a} \cup {b} \cup {c})
        BY FS_EmptySet, FS_AddElement
      <4>2. {} \cup {a} \cup {b} \cup {c} = {a, b, c}
        OBVIOUS
      <4> QED  BY <4>1, <4>2
    <3> QED  BY <3>1
  <2>3. IsFiniteSet(all)
    <3> HIDE DEF all
    <3> QED  BY <1>1, <1>2, <1>5, <2>2, FS_Union
  <2> QED  BY <2>1, <2>3
<1> DEFINE counts(adj) == adj.amount # None /\ AffectsEffectivePrice(adj)
           counted == {adj \in all : counts(adj)}
           signed(adj) == IF adj.kind \in Fees THEN adj.amount ELSE 0 - adj.amount
           f == [adj \in counted |-> signed(adj)]
           total == s.displayed + SumFunction(f)
<1>7. EffectivePrice(s.displayed, all, FALSE) =
        IF s.displayed = None THEN None ELSE IF total < 0 THEN 0 ELSE total
  <2>1. counted = {adj \in all : /\ adj.amount # None
                                 /\ \/ AffectsEffectivePrice(adj)
                                    \/ FALSE /\ adj.kind \in Fees
                                    \/ /\ FALSE /\ adj.kind \in Promotional
                                       /\ adj.eligibility # "ineligible"}
    OBVIOUS
  <2> HIDE DEF all, counted
  <2> QED  BY <2>1 DEF EffectivePrice
<1>8. SumFunction(f) \in Int
  <2>1. counted \subseteq all /\ DOMAIN f = counted
    OBVIOUS
  <2>2. IsFiniteSet(counted)
    <3> HIDE DEF all, counted
    <3> QED  BY <1>6, <2>1, FS_Subset
  <2>3. \A adj \in counted : f[adj] \in Int
    <3>1. \A adj \in counted : adj.amount \in Nat
      BY <1>6 DEF Amounts
    <3> HIDE DEF counted
    <3> QED  BY <3>1
  <2> HIDE DEF f, counted
  <2> QED  BY <2>1, <2>2, <2>3, SumIsInteger
<1> HIDE DEF f
<1>9. total \in Int /\ s.displayed # None
  BY <1>0, <1>1, <1>8
<1> HIDE DEF total
<1> DEFINE paid == EffectivePrice(s.displayed, all, FALSE)
<1>10. paid = IF total < 0 THEN 0 ELSE total
  BY <1>7, <1>9
<1> HIDE DEF paid
<1>11. paid \in Nat
  BY <1>9, <1>10
<1> QED  BY <1>11 DEF paid, all, offer

LEMMA ImageIsFinite ==
    ASSUME NEW S, IsFiniteSet(S), NEW f
    PROVE  IsFiniteSet({f[x] : x \in S})
<1> DEFINE T == {f[x] : x \in S}
           g == [x \in S |-> f[x]]
<1>1. g \in Surjection(S, T)
  BY DEF Surjection
<1> QED  BY <1>1, FS_Surjection

ShownOffers(v) == {BuildOffer(o, now) : o \in VariantOffers(v, listings, snapshots)}

Eligible(v) == {o \in ShownOffers(v) : CanWinVerifiedRanking(o)}

\* An offer that is available is that of an observation.
LEMMA AvailableAre ==
    ASSUME RowsInv, NEW v, NEW o \in ShownOffers(v), IsAvailable(o)
    PROVE  \E s \in snapshots : o = Shown(s)
<1>0. PICK l \in listings : \E u \in OffersOf(l) : o = BuildOffer(u, now)
  BY OffersAre DEF ShownOffers
<1>1. PICK u \in OffersOf(l) : o = BuildOffer(u, now)
  BY <1>0
<1>2. LatestOf(l) # {}
  <2> SUFFICES ASSUME LatestOf(l) = {} PROVE FALSE
    OBVIOUS
  <2>1. u = ListingWithoutSnapshot(l)
    BY <1>1 DEF OffersOf
  <2>2. u.availability = "unknown"
    BY <2>1 DEF ListingWithoutSnapshot
  <2>3. o.availability = "unknown"
    BY <1>1, <2>2 DEF BuildOffer
  <2> QED  BY <2>3 DEF IsAvailable
<1>3. PICK s \in LatestOf(l) : u = OfferFromSnapshot(l, s)
  BY <1>1, <1>2 DEF OffersOf
<1>4. s \in snapshots /\ s.listing = l.id
  BY LatestIsStored DEF LatestOf
<1>5. PICK m \in listings : RowOf(s, m)
  BY <1>4 DEF RowsInv
<1>6. l = m
  <2>1. l \in Catalogue /\ m \in Catalogue /\ l.id = m.id
    BY <1>4, <1>5 DEF RowsInv, RowOf
  <2> QED  BY <2>1, RowsAssumption
<1>7. OfferFromSnapshot(l, s) = OfferFromSnapshot(s, s)
  BY <1>5, <1>6 DEF OfferFromSnapshot, RowOf
<1> QED  BY <1>1, <1>3, <1>4, <1>7 DEF Shown

LEMMA EligibleAre ==
    ASSUME RowsInv, NEW v
    PROVE  /\ Eligible(v) = {o \in ShownOffers(v) : IsAvailable(o)}
           /\ IsFiniteSet(Eligible(v))
           /\ \A o \in Eligible(v) : Keyed(o)
           /\ \A a, b \in Eligible(v) : a.id = b.id => a = b
<1> DEFINE f == [s \in snapshots |-> Shown(s)]
           available == {o \in ShownOffers(v) : IsAvailable(o)}
<1>1. \A o \in available : \E s \in snapshots : o = Shown(s)
  BY AvailableAre
<1>2. \A s \in snapshots : Shown(s).displayed # None
  <2>1. \A s \in snapshots : s.displayed # None
    BY RowsAssumption DEF RowsInv, Said
  <2> QED  BY <2>1, ShownIs
<1>3. Eligible(v) = available
  <2>1. \A o \in available : o.displayed # None
    BY <1>1, <1>2
  <2> QED  BY <2>1 DEF Eligible, CanWinVerifiedRanking
<1> HIDE DEF available
<1>4. IsFiniteSet(available)
  <2>1. available \subseteq {f[s] : s \in snapshots}
    BY <1>1
  <2> HIDE DEF f
  <2>2. IsFiniteSet({f[s] : s \in snapshots})
    BY ImageIsFinite DEF RowsInv
  <2> QED  BY <2>1, <2>2, FS_Subset
<1>5. ASSUME NEW s \in snapshots, IsAvailable(Shown(s)) PROVE Keyed(Shown(s))
  <2>1. Said(s, now) /\ s.id \in Nat
    BY RowNumbers DEF RowsInv
  <2>2. s.retailer \in Nat
    BY RowsAssumption DEF RowsInv, RowOf
  <2>3. Shown(s).payable \in Nat
    BY <2>1, ShownIs, PayableIs
  <2>4. s.displayed \in Nat /\ s.delivery \in Amounts
    BY <2>1 DEF Said
  <2>5. Shown(s).availability \in {"in_stock", "limited_stock"}
    BY <1>5 DEF IsAvailable
  <2> QED  BY <2>1, <2>2, <2>3, <2>4, <2>5, ShownIs DEF Keyed
<1>6. \A o \in available : IsAvailable(o)
  BY DEF available
<1>7. \A o \in available : Keyed(o)
  BY <1>1, <1>5, <1>6
<1>8. ASSUME NEW a \in available, NEW b \in available, a.id = b.id PROVE a = b
  <2>1. PICK s \in snapshots : a = Shown(s)
    BY <1>1
  <2>2. PICK t \in snapshots : b = Shown(t)
    BY <1>1
  <2>3. s.id = t.id
    BY <1>8, <2>1, <2>2, ShownIs
  <2> QED  BY <2>1, <2>2, <2>3, RowNumbers
<1> QED  BY <1>3, <1>4, <1>7, <1>8 DEF available

-----------------------------------------------------------------------------
(* What the comparison says of its choice.                                 *)

\* The keys the explanation knows, in the order of the ranking.
Key4(o) == <<o.payable, o.displayed, AvailabilityRank(o.availability), 0 - SellerQuality(o.seller)>>

Named(criterion) == CASE criterion = "verified_effective_price" -> 1
                      [] criterion = "displayed_price"          -> 2
                      [] criterion = "availability"             -> 3
                      [] criterion = "seller_quality"           -> 4
                      [] OTHER                                  -> 5

Leads(x, y, k) == x[k] < y[k] /\ \A j \in 1..(k - 1) : x[j] = y[j]

NotAfter(x, y) == x = y \/ \E k \in 1..4 : Leads(x, y, k)

Beats(named, x, y) ==
    \/ \E k \in 1..4 : k <= named /\ Leads(x, y, k)
    \/ named = 5 /\ x = y

LEMMA Key4Is ==
    ASSUME NEW o, Keyed(o)
    PROVE  /\ Key4(o) \in [1..4 -> Int]
           /\ Key4(o)[1] = o.payable /\ Key4(o)[2] = o.displayed
           /\ Key4(o)[3] = AvailabilityRank(o.availability)
           /\ Key4(o)[4] = 0 - SellerQuality(o.seller)
<1> DEFINE a == AvailabilityRank(o.availability)
           q == 0 - SellerQuality(o.seller)
<1>1. o.payable \in Int /\ o.displayed \in Int
  BY DEF Keyed
<1>2. a \in Int
  BY DEF AvailabilityRank, Keyed
<1>3. q \in Int
  BY QualityIs
<1>4. Key4(o) = <<o.payable, o.displayed, a, q>>
  BY DEF Key4
<1> HIDE DEF a, q
<1>5. /\ Key4(o) \in [1..4 -> Int]
      /\ Key4(o)[1] = o.payable /\ Key4(o)[2] = o.displayed /\ Key4(o)[3] = a /\ Key4(o)[4] = q
  BY <1>1, <1>2, <1>3, <1>4
<1> QED  BY <1>5 DEF a, q

\* An offer ranked before another is not after it on the four keys.
LEMMA FourKeys ==
    ASSUME NEW a, NEW b, Keyed(a), Keyed(b), RanksBefore(a, b)
    PROVE  NotAfter(Key4(a), Key4(b))
<1> DEFINE x == RankKey(a)
           y == RankKey(b)
           u == Key4(a)
           w == Key4(b)
<1>1. PICK i \in 1..10 : x[i] < y[i] /\ \A j \in 1..(i - 1) : x[j] = y[j]
  BY RanksAre DEF LexBefore
<1>2. /\ x \in [1..10 -> Int] /\ y \in [1..10 -> Int]
      /\ x[1] = 0 /\ y[1] = 0 /\ x[3] = 0 /\ y[3] = 0
  BY KeyIs
<1>3. u \in [1..4 -> Int] /\ w \in [1..4 -> Int]
  BY Key4Is
<1>4. /\ u[1] = x[2] /\ u[2] = x[4] /\ u[3] = x[5] /\ u[4] = x[6]
      /\ w[1] = y[2] /\ w[2] = y[4] /\ w[3] = y[5] /\ w[4] = y[6]
  BY KeyIs, Key4Is
<1> HIDE DEF x, y, u, w
<1>5. i # 1 /\ i # 3
  BY <1>1, <1>2
<1>6. ASSUME i = 2 PROVE Leads(u, w, 1)
  BY <1>1, <1>4, <1>6 DEF Leads
<1>7. ASSUME i = 4 PROVE Leads(u, w, 2)
  <2>1. x[2] = y[2] /\ x[4] < y[4]
    BY <1>1, <1>7
  <2>2. \A j \in 1..(2 - 1) : j = 1
    OBVIOUS
  <2> QED  BY <2>1, <2>2, <1>4 DEF Leads
<1>8. ASSUME i = 5 PROVE Leads(u, w, 3)
  <2>1. x[2] = y[2] /\ x[4] = y[4] /\ x[5] < y[5]
    BY <1>1, <1>8
  <2>2. \A j \in 1..(3 - 1) : j = 1 \/ j = 2
    OBVIOUS
  <2> QED  BY <2>1, <2>2, <1>4 DEF Leads
<1>9. ASSUME i = 6 PROVE Leads(u, w, 4)
  <2>1. x[2] = y[2] /\ x[4] = y[4] /\ x[5] = y[5] /\ x[6] < y[6]
    BY <1>1, <1>9
  <2>2. \A j \in 1..(4 - 1) : j = 1 \/ j = 2 \/ j = 3
    OBVIOUS
  <2> QED  BY <2>1, <2>2, <1>4 DEF Leads
<1>10. ASSUME i > 6 PROVE u = w
  <2>1. x[2] = y[2] /\ x[4] = y[4] /\ x[5] = y[5] /\ x[6] = y[6]
    BY <1>1, <1>10
  <2>2. \A k \in 1..4 : u[k] = w[k]
    <3>1. \A k \in 1..4 : k = 1 \/ k = 2 \/ k = 3 \/ k = 4
      OBVIOUS
    <3> QED  BY <2>1, <3>1, <1>4
  <2> QED  BY <2>2, <1>3
<1>11. i = 2 \/ i = 4 \/ i = 5 \/ i = 6 \/ i > 6
  BY <1>5
<1>12. NotAfter(u, w)
  BY <1>6, <1>7, <1>8, <1>9, <1>10, <1>11 DEF NotAfter
<1> QED  BY <1>12 DEF u, w

\* What is named of the winner and the next holds against all that follow.
LEMMA Beaten ==
    ASSUME NEW x \in [1..4 -> Int], NEW y \in [1..4 -> Int], NEW z \in [1..4 -> Int],
           NotAfter(x, y), NotAfter(y, z),
           NEW named \in 1..5, \A j \in 1..(named - 1) : x[j] = y[j],
           named <= 4 => x[named] # y[named]
    PROVE  Beats(named, x, z)
<1>0. \A k \in 1..4 : x[k] \in Int /\ y[k] \in Int /\ z[k] \in Int
  OBVIOUS
<1>1. ASSUME named <= 4 PROVE Beats(named, x, z)
  <2>1. x # y
    BY <1>1
  <2>2. PICK k \in 1..4 : Leads(x, y, k)
    BY <2>1 DEF NotAfter
  <2>3. k = named
    BY <1>0, <1>1, <2>2 DEF Leads
  <2>4. ASSUME y = z PROVE Beats(named, x, z)
    BY <2>2, <2>3, <2>4 DEF Beats
  <2>5. ASSUME NEW m \in 1..4, Leads(y, z, m) PROVE Beats(named, x, z)
    <3>1. ASSUME m < named PROVE Leads(x, z, m)
      BY <1>0, <2>2, <2>3, <2>5, <3>1 DEF Leads
    <3>2. ASSUME m >= named PROVE Leads(x, z, named)
      BY <1>0, <2>2, <2>3, <2>5, <3>2 DEF Leads
    <3>3. m <= named \/ m >= named
      OBVIOUS
    <3> QED  BY <1>1, <3>1, <3>2 DEF Beats
  <2> QED  BY <2>4, <2>5 DEF NotAfter
<1>2. ASSUME named = 5 PROVE Beats(named, x, z)
  <2>1. \A k \in 1..4 : x[k] = y[k]
    BY <1>2
  <2>2. x = y
    BY <2>1
  <2> QED  BY <1>2, <2>2 DEF Beats, NotAfter
<1> QED  BY <1>1, <1>2

\* The key named is the first on which the winner and the next differ.
LEMMA ExplanationIs ==
    ASSUME NEW w, NEW rivals, rivals # {}, Keyed(w), Keyed(First(rivals, RanksBefore))
    PROVE  LET named == Named(Explanation(w, rivals).criterion)
               x == Key4(w)
               y == Key4(First(rivals, RanksBefore))
           IN  /\ named \in 1..5
               /\ \A j \in 1..(named - 1) : x[j] = y[j]
               /\ named <= 4 => x[named] # y[named]
<1> DEFINE next == First(rivals, RanksBefore)
           criterion == Explanation(w, rivals).criterion
           x == Key4(w)
           y == Key4(next)
<1>1. criterion = IF w.payable # next.payable           THEN "verified_effective_price"
                  ELSE IF w.displayed # next.displayed       THEN "displayed_price"
                  ELSE IF w.availability # next.availability THEN "availability"
                  ELSE IF SellerQuality(w.seller) # SellerQuality(next.seller)
                  THEN "seller_quality"
                  ELSE "delivery"
  BY DEF Explanation
<1>2. /\ x[1] = w.payable /\ x[2] = w.displayed
      /\ x[3] = AvailabilityRank(w.availability) /\ x[4] = 0 - SellerQuality(w.seller)
  BY Key4Is
<1>3. /\ y[1] = next.payable /\ y[2] = next.displayed
      /\ y[3] = AvailabilityRank(next.availability) /\ y[4] = 0 - SellerQuality(next.seller)
  BY Key4Is
<1>4. AvailabilityRank(w.availability) = AvailabilityRank(next.availability)
        <=> w.availability = next.availability
  <2>1. AvailabilityRank("in_stock") = 0 /\ AvailabilityRank("limited_stock") = 1
    BY DEF AvailabilityRank
  <2>2. /\ w.availability \in {"in_stock", "limited_stock"}
        /\ next.availability \in {"in_stock", "limited_stock"}
    BY DEF Keyed
  <2> QED  BY <2>1, <2>2
<1>5. 0 - SellerQuality(w.seller) = 0 - SellerQuality(next.seller)
        <=> SellerQuality(w.seller) = SellerQuality(next.seller)
  <2>1. SellerQuality(w.seller) \in Nat /\ SellerQuality(next.seller) \in Nat
    BY QualityIs
  <2> QED  BY <2>1
<1> HIDE DEF criterion, x, y, next
<1>6. /\ x[1] # y[1] <=> w.payable # next.payable
      /\ x[2] # y[2] <=> w.displayed # next.displayed
      /\ x[3] # y[3] <=> w.availability # next.availability
      /\ x[4] # y[4] <=> SellerQuality(w.seller) # SellerQuality(next.seller)
  BY <1>2, <1>3, <1>4, <1>5
<1>7. \/ Named(criterion) = 1 /\ x[1] # y[1]
      \/ Named(criterion) = 2 /\ x[1] = y[1] /\ x[2] # y[2]
      \/ Named(criterion) = 3 /\ x[1] = y[1] /\ x[2] = y[2] /\ x[3] # y[3]
      \/ Named(criterion) = 4 /\ x[1] = y[1] /\ x[2] = y[2] /\ x[3] = y[3] /\ x[4] # y[4]
      \/ Named(criterion) = 5 /\ x[1] = y[1] /\ x[2] = y[2] /\ x[3] = y[3] /\ x[4] = y[4]
  BY <1>1, <1>6 DEF Named
<1> DEFINE named == Named(criterion)
<1> HIDE DEF named
<1>8. /\ named \in 1..5
      /\ \A j \in 1..(named - 1) : x[j] = y[j]
      /\ named <= 4 => x[named] # y[named]
  <2>1. \/ named = 1 /\ x[1] # y[1]
        \/ named = 2 /\ x[1] = y[1] /\ x[2] # y[2]
        \/ named = 3 /\ x[1] = y[1] /\ x[2] = y[2] /\ x[3] # y[3]
        \/ named = 4 /\ x[1] = y[1] /\ x[2] = y[2] /\ x[3] = y[3] /\ x[4] # y[4]
        \/ named = 5 /\ x[1] = y[1] /\ x[2] = y[2] /\ x[3] = y[3] /\ x[4] = y[4]
    BY <1>7 DEF named
  <2>2. \A j \in 1..4 : j = 1 \/ j = 2 \/ j = 3 \/ j = 4
    OBVIOUS
  <2>3. named \in 1..5
    BY <2>1
  <2>4. \A j \in 1..(named - 1) : j \in 1..4 /\ j < named
    BY <2>3
  <2>5. \A j \in 1..4 : j < named => x[j] = y[j]
    BY <2>1, <2>2
  <2> QED  BY <2>1, <2>3, <2>4, <2>5
<1> QED  BY <1>8 DEF named, criterion, x, y, next

\* What the comparison says of one variant.
Explained(chosen, offers) ==
    LET winner == chosen.winner
        others == {o \in offers : IsAvailable(o) /\ o # winner}
    IN  IF chosen.criterion = "no_applicable_offer" THEN winner = None /\ others = {}
        ELSE /\ chosen.only <=> others = {}
             /\ \A o \in others : Beats(Named(chosen.criterion), Key4(winner), Key4(o))

LEMMA ChoiceIsExplained ==
    ASSUME RowsInv, NEW v
    PROVE  Explained(SelectLowestVerified(ShownOffers(v)), ShownOffers(v))
<1> DEFINE offers == ShownOffers(v)
           E == Eligible(v)
           chosen == SelectLowestVerified(offers)
           w == First(E, RanksBefore)
           rivals == {o \in E : o.id # w.id}
           others == {o \in offers : IsAvailable(o) /\ o # chosen.winner}
<1>1. /\ E = {o \in offers : IsAvailable(o)}
      /\ IsFiniteSet(E)
      /\ \A o \in E : Keyed(o)
      /\ \A a, b \in E : a.id = b.id => a = b
  BY EligibleAre
<1>2. chosen = IF E = {} THEN [winner |-> None, only |-> FALSE, criterion |-> "no_applicable_offer"]
               ELSE Explanation(w, rivals)
  BY DEF SelectLowestVerified, Eligible
<1>3. others = {o \in E : o # chosen.winner}
  BY <1>1
<1> HIDE DEF E, others
<1>4. ASSUME E = {} PROVE Explained(chosen, offers)
  <2>1. chosen = [winner |-> None, only |-> FALSE, criterion |-> "no_applicable_offer"]
    BY <1>2, <1>4
  <2> HIDE DEF chosen
  <2>2. chosen.winner = None /\ chosen.criterion = "no_applicable_offer"
    BY <2>1
  <2>3. others = {}
    BY <1>3, <1>4
  <2> QED  BY <2>2, <2>3 DEF Explained, others
<1>5. ASSUME E # {} PROVE Explained(chosen, offers)
  <2>1. /\ w \in E
        /\ \A o \in E : o = w \/ RanksBefore(w, o)
    BY <1>1, <1>5, BestOffer
  <2>2. chosen = Explanation(w, rivals)
    BY <1>2, <1>5
  <2> HIDE DEF w, chosen
  <2>3. chosen.winner = w /\ (chosen.only <=> rivals = {})
    BY <2>2 DEF Explanation
  <2>4. chosen.criterion # "no_applicable_offer"
    BY <2>2 DEF Explanation
  <2>5. others = rivals
    BY <1>1, <1>3, <2>1, <2>3
  <2>6. ASSUME NEW o \in rivals PROVE Beats(Named(chosen.criterion), Key4(w), Key4(o))
    <3> DEFINE next == First(rivals, RanksBefore)
    <3>1. /\ IsFiniteSet(rivals) /\ rivals # {}
          /\ \A a \in rivals : Keyed(a)
          /\ \A a, b \in rivals : a.id = b.id => a = b
      BY <1>1, <2>6, FS_Subset
    <3>2. /\ next \in rivals
          /\ \A a \in rivals : a = next \/ RanksBefore(next, a)
      <4> HIDE DEF rivals
      <4> QED  BY <3>1, BestOffer
    <3>3. Keyed(w) /\ Keyed(next) /\ Keyed(o)
      BY <1>1, <2>1, <3>1, <3>2, <2>6
    <3>4. NotAfter(Key4(w), Key4(next))
      <4>1. w # next /\ next \in E
        BY <3>2
      <4> HIDE DEF next
      <4> QED  BY <2>1, <4>1, <3>3, FourKeys
    <3>5. NotAfter(Key4(next), Key4(o))
      <4>1. o = next \/ RanksBefore(next, o)
        BY <3>2, <2>6
      <4> HIDE DEF next
      <4> QED  BY <4>1, <3>3, FourKeys DEF NotAfter
    <3> DEFINE named == Named(chosen.criterion)
               x == Key4(w)
               y == Key4(next)
               z == Key4(o)
    <3>6. /\ named \in 1..5
          /\ \A j \in 1..(named - 1) : x[j] = y[j]
          /\ named <= 4 => x[named] # y[named]
      <4> HIDE DEF rivals
      <4> QED  BY <2>2, <3>1, <3>3, ExplanationIs
    <3>7. x \in [1..4 -> Int] /\ y \in [1..4 -> Int] /\ z \in [1..4 -> Int]
      BY <3>3, Key4Is
    <3> HIDE DEF named, x, y, z
    <3>8. NotAfter(x, y) /\ NotAfter(y, z)
      BY <3>4, <3>5 DEF x, y, z
    <3>9. Beats(named, x, z)
      BY <3>6, <3>7, <3>8, Beaten
    <3> QED  BY <3>9 DEF named, x, z
  <2> HIDE DEF rivals
  <2> QED  BY <2>3, <2>4, <2>5, <2>6 DEF Explained, others
<1> QED  BY <1>4, <1>5

\* What the comparison says of its choice is so, of every store.
THEOREM ExplanationsAreTrue == Spec => []ExplanationIsTrue
<1>1. ASSUME RowsInv PROVE ExplanationIsTrue
  <2> SUFFICES ASSUME NEW v \in Variants
               PROVE  Explained(Comparison.variant[v].selection, Comparison.variant[v].offers)
    BY DEF ExplanationIsTrue, Explained, Beats, Named, Key4, Leads
  <2>1. Comparison.variant[v] = CompareVariant(VariantOffers(v, listings, snapshots), now)
    BY ComparisonIs
  <2>2. /\ CompareVariant(VariantOffers(v, listings, snapshots), now).offers = ShownOffers(v)
        /\ CompareVariant(VariantOffers(v, listings, snapshots), now).selection
             = SelectLowestVerified(ShownOffers(v))
    BY DEF CompareVariant, ShownOffers
  <2>3. Explained(SelectLowestVerified(ShownOffers(v)), ShownOffers(v))
    BY <1>1, ChoiceIsExplained
  <2> QED  BY <2>1, <2>2, <2>3
<1> QED  BY <1>1, RowsAreSound, PTL

-----------------------------------------------------------------------------
(* What points cost together, rounded.                                     *)

\* What points cost together.
LEMMA PriceSumIs ==
    /\ PriceSum({}) = 0
    /\ \A S : IsFiniteSet(S) /\ (\A p \in S : AnalysisPrice(p) \in Int) => PriceSum(S) \in Int
    /\ \A S, x : /\ IsFiniteSet(S) /\ (\A p \in S : AnalysisPrice(p) \in Int)
                 /\ x \in S
                 => PriceSum(S) = AnalysisPrice(x) + PriceSum(S \ {x})
<1> DEFINE f(S) == [p \in S |-> AnalysisPrice(p)]
           sum(S) == CHOOSE g : IsSum(g, f(S), SUBSET S)
<1>1. \A S : PriceSum(S) = sum(S)[S]
  <2> TAKE S
  <2>1. PriceSum(S) = SumFunction(f(S)) /\ DOMAIN f(S) = S
    BY DEF PriceSum
  <2> HIDE DEF f
  <2> QED  BY <2>1, SumIs
<1>2. \A S : IsFiniteSet(S) => IsSum(sum(S), f(S), SUBSET S)
  <2> HIDE DEF f
  <2> QED  BY SumOf
<1>3. \A S : \A p \in S : f(S)[p] = AnalysisPrice(p)
  OBVIOUS
<1> HIDE DEF f, sum
<1>4. PriceSum({}) = 0
  <2>1. IsFiniteSet({})
    BY FS_EmptySet
  <2> QED  BY <1>1, <1>2, <2>1 DEF IsSum
<1>5. ASSUME NEW S, IsFiniteSet(S), \A p \in S : AnalysisPrice(p) \in Int
      PROVE  PriceSum(S) \in Int
  <2>1. SumsAreIntegers(sum(S), S)
    BY <1>2, <1>3, <1>5, PartialSums
  <2> QED  BY <1>1, <2>1 DEF SumsAreIntegers
<1>6. ASSUME NEW S, NEW x, IsFiniteSet(S), \A p \in S : AnalysisPrice(p) \in Int, x \in S
      PROVE  PriceSum(S) = AnalysisPrice(x) + PriceSum(S \ {x})
  <2> DEFINE R == S \ {x}
             a == f(R)
             b == f(S)
             g == sum(R)
             k == sum(S)
  <2>0. IsSum(k, b, SUBSET S) /\ \A p \in S : b[p] \in Int
    BY <1>2, <1>3, <1>6
  <2>1. k[S] = b[x] + k[R]
    <3> HIDE DEF b, k
    <3> QED  BY <1>6, <2>0, AnyFirst
  <2>2. IsFiniteSet(R) /\ R \subseteq S
    BY <1>6, FS_Subset
  <2>3. IsSum(g, a, SUBSET R) /\ \A p \in R : a[p] = b[p]
    BY <1>2, <1>3, <2>2
  <2>4. g[R] = k[R]
    <3> HIDE DEF a, b, g, k, R
    <3>1. IsFiniteSet(S) /\ R \subseteq S /\ IsSum(k, b, SUBSET S) /\ IsSum(g, a, SUBSET R)
          /\ Agree(a, b, R)
      BY <1>6, <2>0, <2>2, <2>3 DEF Agree
    <3> QED  BY <3>1, SumsAgree
  <2> HIDE DEF R
  <2> QED  BY <1>1, <1>3, <1>6, <2>1, <2>4 DEF R
<1> QED  BY <1>4, <1>5, <1>6

LEMMA RoundIs ==
    ASSUME NEW num \in Int, NEW n \in Nat \ {0}
    PROVE  LET a == RoundHalfUp(num, n) IN
           a \in Int /\ 2 * (n * a) <= 2 * num + n /\ 2 * num + n < 2 * (n * a) + 2 * n
<1> DEFINE b == 2 * num + n
           m == 2 * n
           a == b \div m
<1>1. b \in Int /\ m \in Nat \ {0}
  OBVIOUS
<1>2. a \in Int /\ m * a <= b /\ b < m * a + m
  <2> HIDE DEF b, m
  <2> QED  BY <1>1, SMT
<1>3. m * a = 2 * (n * a)
  <2>1. a \in Int
    BY <1>2
  <2> HIDE DEF a
  <2> QED  BY <2>1
<1> HIDE DEF a
<1> QED  BY <1>2, <1>3 DEF RoundHalfUp, a

LEMMA AtMostRounded ==
    ASSUME NEW num \in Int, NEW n \in Nat \ {0}, NEW p \in Int
    PROVE  p <= RoundHalfUp(num, n) <=> 2 * (n * p) <= 2 * num + n
<1> DEFINE a == RoundHalfUp(num, n)
<1>1. a \in Int /\ 2 * (n * a) <= 2 * num + n /\ 2 * num + n < 2 * (n * a) + 2 * n
  BY RoundIs
<1> HIDE DEF a
<1>2. ASSUME p <= a PROVE n * p <= n * a
  <2>1. PICK k \in Nat : a = p + k
    <3>1. a - p \in Nat /\ a = p + (a - p)
      BY <1>1, <1>2
    <3> QED  BY <3>1
  <2>2. n * a = n * p + n * k /\ n * k \in Nat
    BY <2>1
  <2>3. n * p \in Int
    OBVIOUS
  <2> QED  BY <2>2, <2>3
<1>3. ASSUME ~(p <= a) PROVE n * p >= n * a + n
  <2>1. PICK k \in Nat : p = a + 1 + k
    <3>1. p - a - 1 \in Nat /\ p = a + 1 + (p - a - 1)
      BY <1>1, <1>3
    <3> QED  BY <3>1
  <2>2. n * p = n * a + n + n * k /\ n * k \in Nat
    BY <1>1, <2>1
  <2>3. n * a \in Int
    BY <1>1
  <2> QED  BY <2>2, <2>3
<1>4. n * p \in Int /\ n * a \in Int
  BY <1>1
<1> DEFINE x == n * p
           y == n * a
<1>5. x \in Int /\ y \in Int
  BY <1>4
<1>6. p <= a => x <= y
  BY <1>2
<1>7. ~(p <= a) => x >= y + n
  BY <1>3
<1>8. 2 * y <= 2 * num + n /\ 2 * num + n < 2 * y + 2 * n
  BY <1>1
<1> HIDE DEF x, y
<1>9. p <= a <=> 2 * x <= 2 * num + n
  BY <1>5, <1>6, <1>7, <1>8
<1> QED  BY <1>9 DEF x, a

\* A price at or below the average it counts in stays so when it falls.
LEMMA BelowStays ==
    ASSUME NEW rest \in Int, NEW n \in Nat \ {0}, NEW p \in Nat, NEW q \in Nat, q < p,
           p <= RoundHalfUp(p + rest, n)
    PROVE  q <= RoundHalfUp(q + rest, n)
<1>1. 2 * (n * p) <= 2 * (p + rest) + n
  BY AtMostRounded
<1>2. PICK d \in Nat : p = q + d
  <2>1. p - q \in Nat /\ p = q + (p - q)
    OBVIOUS
  <2> QED  BY <2>1
<1>3. PICK m \in Nat : n = m + 1
  <2>1. n - 1 \in Nat /\ n = (n - 1) + 1
    OBVIOUS
  <2> QED  BY <2>1
<1>4. n * p = n * q + m * d + d /\ m * d \in Nat /\ n * q \in Int
  BY <1>2, <1>3
<1>5. 2 * (n * q) <= 2 * (q + rest) + n
  BY <1>1, <1>2, <1>4
<1> QED  BY <1>5, AtMostRounded

\* MateriallyAbove, of a price and an average.
Above(price, average, bound) == 2000000 * (price - average) + average >= bound * average

\* MarkedlyLower, of a drop.
Marked(drop, bound) == (2000000 - bound) * drop >= 2000000 + bound

\* A price far above the average it counts in was so before it fell markedly.
LEMMA AboveStays ==
    ASSUME NEW rest \in Int, NEW n \in Nat \ {0}, NEW p \in Nat, NEW q \in Nat, q < p,
           NEW K \in Nat, n = 1 => rest = 0,
           Marked(p - q, K),
           RoundHalfUp(q + rest, n) > 0,
           Above(q, RoundHalfUp(q + rest, n), K)
    PROVE  /\ RoundHalfUp(p + rest, n) > 0
           /\ Above(p, RoundHalfUp(p + rest, n), K)
<1> DEFINE a == RoundHalfUp(p + rest, n)
           b == RoundHalfUp(q + rest, n)
<1>0. p + rest \in Int /\ q + rest \in Int
  OBVIOUS
<1>1. /\ a \in Int /\ 2 * (n * a) <= 2 * (p + rest) + n
      /\ 2 * (p + rest) + n < 2 * (n * a) + 2 * n
      /\ b \in Int /\ 2 * (n * b) <= 2 * (q + rest) + n
      /\ 2 * (q + rest) + n < 2 * (n * b) + 2 * n
  <2>1. \A num \in Int : LET r == RoundHalfUp(num, n) IN
           r \in Int /\ 2 * (n * r) <= 2 * num + n /\ 2 * num + n < 2 * (n * r) + 2 * n
    BY ONLY n \in Nat \ {0}, RoundIs
  <2> QED  BY ONLY <1>0, <2>1 DEF a, b
<1>2. b <= a
  <2>1. n * b \in Int
    BY <1>1
  <2>2. 2 * (n * b) <= 2 * (p + rest) + n
    BY <1>1, <2>1
  <2> QED  BY <1>0, <1>1, <2>2, AtMostRounded
<1>3. b > 0 /\ 2000000 * (q - b) + b >= K * b
  BY DEF Above
<1> HIDE DEF a, b
<1>4. PICK d \in Nat : p = q + d /\ d > 0
  <2>1. p - q \in Nat /\ p = q + (p - q) /\ p - q > 0
    OBVIOUS
  <2> QED  BY <2>1
<1>5. PICK e \in Nat : a = b + e
  <2>1. a - b \in Nat /\ a = b + (a - b)
    BY <1>1, <1>2
  <2> QED  BY <2>1
<1>6. n * a = n * b + n * e /\ n * b \in Int /\ n * e \in Nat
  BY <1>1, <1>5
<1>7. n * e < d + n
  BY <1>1, <1>4, <1>6
<1>8. K * d \in Nat /\ K * e \in Nat /\ K * b \in Nat /\ (2000000 - K) * d = 2000000 * d - K * d
  BY <1>1, <1>3
<1>9. 2000000 * d - K * d >= 2000000 + K
  <2>1. p - q = d
    BY <1>4
  <2> QED  BY <1>8, <2>1 DEF Marked
<1>10. n = 1 => K <= 1
  <2> SUFFICES ASSUME n = 1, K > 1 PROVE FALSE
    OBVIOUS
  <2>1. q = b
    BY <1>1
  <2>2. b >= K * b
    BY <1>1, <1>3, <2>1
  <2>3. PICK k \in Nat : K = 2 + k
    <3>1. K - 2 \in Nat /\ K = 2 + (K - 2)
      OBVIOUS
    <3> QED  BY <3>1
  <2>4. K * b = 2 * b + k * b /\ k * b \in Nat
    BY <1>1, <1>3, <2>3
  <2> QED  BY <1>1, <1>3, <2>2, <2>4
<1>11. 2000000 * (p - a) + a >= K * a
  <2>1. K * a = K * b + K * e
    BY <1>1, <1>5
  <2>2. CASE e = 0
    BY <1>1, <1>3, <1>4, <1>5, <2>2
  <2>3. CASE e = 1
    BY <1>1, <1>3, <1>4, <1>5, <1>8, <1>9, <2>1, <2>3
  <2>4. CASE e >= 2 /\ n = 1
    <3>1. a = p /\ a > 0
      BY <1>1, <1>3, <1>5, <2>4
    <3>2. K = 0 \/ K = 1
      BY <1>10, <2>4
    <3> QED  BY <1>1, <3>1, <3>2
  <2>5. CASE e >= 2 /\ n # 1
    <3>1. PICK m \in Nat : n = m + 2
      <4>1. n - 2 \in Nat /\ n = (n - 2) + 2
        BY <2>5
      <4> QED  BY <4>1
    <3>2. PICK f \in Nat : e = f + 1
      <4>1. e - 1 \in Nat /\ e = (e - 1) + 1
        BY <2>5
      <4> QED  BY <4>1
    <3>3. n * e = m * f + m + 2 * f + 2 /\ m * f \in Nat
      BY <3>1, <3>2
    <3>4. 2 * e <= d + 1
      BY <1>7, <3>1, <3>2, <3>3
    <3>5. PICK k \in Nat : d + 1 = 2 * e + k
      <4>1. d + 1 - 2 * e \in Nat /\ d + 1 = 2 * e + (d + 1 - 2 * e)
        BY <3>4
      <4> QED  BY <4>1
    <3>6. K * d + K = 2 * (K * e) + K * k /\ K * k \in Nat
      <4>1. K * (d + 1) = K * d + K
        OBVIOUS
      <4>2. K * (2 * e + k) = 2 * (K * e) + K * k
        OBVIOUS
      <4> QED  BY <3>5, <4>1, <4>2
    <3>7. 2000000 * d >= 2000000 * e + K * e
      BY <1>8, <1>9, <3>4, <3>6
    <3> QED  BY <1>1, <1>3, <1>4, <1>5, <1>8, <2>1, <3>7
  <2>6. e = 0 \/ e = 1 \/ e >= 2
    OBVIOUS
  <2> QED  BY <2>2, <2>3, <2>4, <2>5, <2>6
<1>12. a > 0
  BY <1>1, <1>2, <1>3
<1> QED  BY <1>11, <1>12 DEF a, Above

-----------------------------------------------------------------------------
(* Points of which one costs less.                                         *)

\* Points that can be computed with.
Sound(S) ==
    /\ IsFiniteSet(S)
    /\ \A p \in S : /\ p.observedAt \in Nat /\ p.createdAt \in Nat /\ p.id \in Nat
                    /\ AnalysisPrice(p) \in Nat
    /\ \A p, q \in S : p.id = q.id => p = q

LEMMA StoredAreSound == ASSUME RowsInv, NEW S, S \subseteq snapshots PROVE Sound(S)
<1>1. \A s \in snapshots : /\ s.observedAt \in Nat /\ s.createdAt \in Nat
                           /\ s.displayed \in Nat /\ s.effective \in Amounts
  BY RowsAssumption DEF RowsInv, Said
<1>2. \A s \in snapshots : AnalysisPrice(s) \in Nat
  BY <1>1 DEF AnalysisPrice, Amounts
<1>3. IsFiniteSet(S)
  BY FS_Subset DEF RowsInv
<1> QED  BY <1>1, <1>2, <1>3, RowNumbers DEF Sound

LEMMA PointsOrder ==
    ASSUME NEW S, Sound(S)
    PROVE  /\ \A p \in S : ~Earlier(p, p)
           /\ \A p, q \in S : p = q \/ Earlier(p, q) \/ Earlier(q, p)
           /\ \A p, q \in S : ~(Earlier(p, q) /\ Earlier(q, p))
           /\ \A p, q, r \in S : Earlier(p, q) /\ Earlier(q, r) => Earlier(p, r)
BY DEF Sound, Earlier

\* The two are one observation at two prices.
Twins(c, r) ==
    /\ r.id = c.id /\ r.listing = c.listing /\ r.retailer = c.retailer
    /\ r.sellerId = c.sellerId /\ r.observedAt = c.observedAt /\ r.createdAt = c.createdAt
    /\ r.confidence = c.confidence

LEMMA RepricedIs ==
    ASSUME NEW c, {"displayed", "effective"} \subseteq DOMAIN c, NEW price,
           NEW r, r = [c EXCEPT !.displayed = price, !.effective = None]
    PROVE  Twins(c, r) /\ AnalysisPrice(r) = price
<1>1. r.displayed = price /\ r.effective = None
  OBVIOUS
<1>2. Twins(c, r)
  BY DEF Twins
<1> QED  BY <1>1, <1>2 DEF AnalysisPrice

Swap(S, c, r) == (S \ {c}) \cup {r}

\* Of an observation among points, the same at a lower price.
Lower(S, c, r) ==
    /\ Sound(S) /\ c \in S
    /\ Twins(c, r)
    /\ AnalysisPrice(r) \in Nat /\ AnalysisPrice(r) < AnalysisPrice(c)

LEMMA SwapIs ==
    ASSUME NEW S, NEW c, NEW r, Lower(S, c, r)
    PROVE  /\ r \notin S
           /\ Sound(Swap(S, c, r))
           /\ Cardinality(Swap(S, c, r)) = Cardinality(S)
           /\ Sound(S \ {c})
           /\ Cardinality(S) = Cardinality(S \ {c}) + 1
           /\ Cardinality(S) \in Nat /\ Cardinality(S \ {c}) \in Nat
           /\ Swap(S, c, r) \ {r} = S \ {c}
<1>1. Sound(S) /\ c \in S /\ Twins(c, r) /\ AnalysisPrice(r) \in Nat
      /\ AnalysisPrice(r) # AnalysisPrice(c)
  BY DEF Lower, Sound
<1>2. r \notin S
  BY <1>1 DEF Sound, Twins
<1> DEFINE R == S \ {c}
<1>3. R \subseteq S /\ IsFiniteSet(R) /\ Cardinality(S) \in Nat /\ Cardinality(R) \in Nat
  BY <1>1, FS_Subset, FS_CardinalityType DEF Sound
<1>4. Cardinality(R) = Cardinality(S) - 1
  BY <1>1, FS_RemoveElement DEF Sound
<1>5. Sound(R)
  BY <1>1, <1>3 DEF Sound
<1>6. \A p \in R : p.id # r.id
  BY <1>1 DEF Sound, Twins
<1>7. r.observedAt \in Nat /\ r.createdAt \in Nat /\ r.id \in Nat
  BY <1>1 DEF Sound, Twins
<1>8. r \notin R
  BY <1>2
<1> HIDE DEF R
<1>9. IsFiniteSet(R \cup {r}) /\ Cardinality(R \cup {r}) = Cardinality(R) + 1
  BY <1>3, <1>8, FS_AddElement
<1>10. Sound(R \cup {r})
  BY <1>1, <1>5, <1>6, <1>7, <1>9 DEF Sound
<1>11. (R \cup {r}) \ {r} = R
  BY <1>8
<1> QED  BY <1>2, <1>3, <1>4, <1>5, <1>9, <1>10, <1>11 DEF Swap, R

\* Its place in time is the same.
LEMMA LatestOfSwap ==
    ASSUME NEW S, NEW c, NEW r, Lower(S, c, r),
           \A p \in S : p = c \/ Earlier(p, c)
    PROVE  Latest(Swap(S, c, r)) = r
<1> DEFINE T == Swap(S, c, r)
<1>1. r \in T /\ \A p \in T : p = r \/ p \in S \ {c}
  BY DEF Swap
<1>2. \A p \in T : p = r \/ Earlier(p, r)
  BY <1>1 DEF Earlier, Lower, Twins
<1>3. \A p, q \in T : ~(Earlier(p, q) /\ Earlier(q, p))
  BY SwapIs, PointsOrder
<1>4. Latest(T) = CHOOSE x \in T : \A y \in T : y = x \/ Earlier(y, x)
  BY DEF Latest, First
<1> HIDE DEF T
<1>5. \A x \in T : (\A y \in T : y = x \/ Earlier(y, x)) => x = r
  BY <1>1, <1>2, <1>3
<1> DEFINE last == CHOOSE x \in T : \A y \in T : y = x \/ Earlier(y, x)
<1>6. last \in T /\ \A y \in T : y = last \/ Earlier(y, last)
  BY <1>1, <1>2
<1>7. Latest(T) = last
  BY <1>4
<1> HIDE DEF last
<1> QED  BY <1>5, <1>6, <1>7 DEF T

CostsLess(p, q) == \/ AnalysisPrice(p) < AnalysisPrice(q)
                   \/ AnalysisPrice(q) = AnalysisPrice(p) /\ Earlier(p, q)

LEMMA CostsOrder ==
    ASSUME NEW S, Sound(S)
    PROVE  /\ \A p \in S : ~CostsLess(p, p)
           /\ \A p, q \in S : p = q \/ CostsLess(p, q) \/ CostsLess(q, p)
           /\ \A p, q, r \in S : CostsLess(p, q) /\ CostsLess(q, r) => CostsLess(p, r)
<1>1. \A p \in S : AnalysisPrice(p) \in Nat
  BY DEF Sound
<1>2. \A p \in S : ~CostsLess(p, p)
  BY <1>1, PointsOrder DEF CostsLess
<1>3. ASSUME NEW p \in S, NEW q \in S, p # q PROVE CostsLess(p, q) \/ CostsLess(q, p)
  <2>1. Earlier(p, q) \/ Earlier(q, p)
    BY <1>3, PointsOrder
  <2>2. AnalysisPrice(p) < AnalysisPrice(q) \/ AnalysisPrice(q) < AnalysisPrice(p)
        \/ AnalysisPrice(p) = AnalysisPrice(q)
    BY <1>1
  <2> QED  BY <2>1, <2>2 DEF CostsLess
<1>4. ASSUME NEW p \in S, NEW q \in S, NEW r \in S, CostsLess(p, q), CostsLess(q, r)
      PROVE  CostsLess(p, r)
  <2>1. Earlier(p, q) /\ Earlier(q, r) => Earlier(p, r)
    BY PointsOrder
  <2>2. AnalysisPrice(p) \in Nat /\ AnalysisPrice(q) \in Nat /\ AnalysisPrice(r) \in Nat
    BY <1>1
  <2> QED  BY <1>4, <2>1, <2>2 DEF CostsLess
<1> QED  BY <1>2, <1>3, <1>4

LEMMA LowIs ==
    ASSUME NEW S, Sound(S), S # {}, HistoricalLow(S).status = "available"
    PROVE  /\ HistoricalLow(S).value \in S
           /\ \A p \in S : AnalysisPrice(HistoricalLow(S).value) <= AnalysisPrice(p)
<1> DEFINE before(p, q) == \/ 1 * AnalysisPrice(q) > 1 * AnalysisPrice(p)
                           \/ AnalysisPrice(q) = AnalysisPrice(p) /\ Earlier(p, q)
           R == {w \in S \X S : CostsLess(w[1], w[2])}
           low == CHOOSE x \in S : \A y \in S : y = x \/ before(x, y)
<1>1. HistoricalLow(S).value = low
  BY DEF HistoricalLow, Extremum, First, Available, BelowMinimum, Insufficient
<1>2. \A p \in S : AnalysisPrice(p) \in Nat
  BY DEF Sound
<1>3. \A p, q \in S : before(p, q) <=> CostsLess(p, q)
  BY <1>2 DEF CostsLess
<1>4. \A p, q \in S : <<p, q>> \in R <=> CostsLess(p, q)
  OBVIOUS
<1> HIDE DEF before, R
<1>5. Ordered(S, R)
  BY <1>4, CostsOrder DEF Ordered
<1>6. PICK x \in S : \A y \in S : y = x \/ before(x, y)
  <2>1. IsFiniteSet(S)
    BY DEF Sound
  <2>2. \E x \in S : \A y \in S : y = x \/ <<x, y>> \in R
    BY <1>5, <2>1, FirstOfOrder
  <2> QED  BY <1>3, <1>4, <2>2
<1>7. low \in S /\ \A y \in S : y = low \/ before(low, y)
  BY <1>6
<1> HIDE DEF low
<1>8. \A p \in S : AnalysisPrice(low) <= AnalysisPrice(p)
  BY <1>2, <1>3, <1>7 DEF CostsLess
<1> QED  BY <1>1, <1>7, <1>8

-----------------------------------------------------------------------------
(* What the lower price does to the metrics.                               *)

\* The lowest price it is compared with: near the low, it stays near.
LEMMA NearStays ==
    ASSUME NEW S, NEW c, NEW r, Lower(S, c, r), NEW percent \in Nat,
           NEW in, in.price = AnalysisPrice(c), in.low = HistoricalLow(S),
           NEW less, less.price = AnalysisPrice(r), less.low = HistoricalLow(Swap(S, c, r)),
           None \notin Int, IsNearHistoricalLow(in, percent)
    PROVE  IsNearHistoricalLow(less, percent)
<1> DEFINE T == Swap(S, c, r)
           p == AnalysisPrice(c)
           q == AnalysisPrice(r)
           low == HistoricalLow(S)
           low2 == HistoricalLow(T)
           x == AnalysisPrice(low.value) * (100 + percent)
           y == AnalysisPrice(low2.value) * (100 + percent)
<1>1. p \in Nat /\ q \in Nat /\ q < p
  BY DEF Lower, Sound
<1>2. Sound(S) /\ Sound(T) /\ Cardinality(T) = Cardinality(S)
  BY SwapIs DEF Lower
<1>3. low.status = "available" /\ p <= RoundHalfUp(x, 100)
  BY DEF IsNearHistoricalLow, IsKnown
<1>4. low2.status = "available"
  BY <1>2, <1>3 DEF HistoricalLow, Extremum, Available, BelowMinimum, Insufficient
<1>5. c \in S /\ r \in T /\ \A s \in T : s = r \/ s \in S
  BY DEF Lower, Swap
<1> HIDE DEF T
<1>6. /\ low.value \in S /\ \A s \in S : AnalysisPrice(low.value) <= AnalysisPrice(s)
      /\ low2.value \in T /\ \A s \in T : AnalysisPrice(low2.value) <= AnalysisPrice(s)
  BY <1>2, <1>3, <1>4, <1>5, LowIs
<1> DEFINE a == AnalysisPrice(low.value)
           b == AnalysisPrice(low2.value)
<1>7. a \in Nat /\ b \in Nat
  BY <1>2, <1>6 DEF Sound
<1>8. b = q \/ a <= b
  BY <1>5, <1>6
<1>9. x = a * (100 + percent) /\ y = b * (100 + percent)
  OBVIOUS
<1> HIDE DEF a, b, x, y, p, q, low, low2
<1>10. x \in Int /\ y \in Int
  BY <1>7, <1>9
<1>11. 2 * (100 * p) <= 2 * x + 100
  BY <1>1, <1>3, <1>10, AtMostRounded
<1>12. 2 * (100 * q) <= 2 * y + 100
  <2>1. CASE b = q
    <3>1. q * (100 + percent) = 100 * q + q * percent /\ q * percent \in Nat
      BY <1>1
    <3> QED  BY <1>1, <1>9, <2>1, <3>1
  <2>2. CASE a <= b
    <3>1. PICK k \in Nat : b = a + k
      <4>1. b - a \in Nat /\ b = a + (b - a)
        BY <1>7, <2>2
      <4> QED  BY <4>1
    <3>2. y = x + k * (100 + percent) /\ k * (100 + percent) \in Nat
      BY <1>7, <1>9, <3>1
    <3> QED  BY <1>1, <1>10, <1>11, <3>2
  <2> QED  BY <1>8, <2>1, <2>2
<1>13. q <= RoundHalfUp(y, 100)
  BY <1>1, <1>10, <1>12, AtMostRounded
<1>14. less.price = q /\ less.low = low2 /\ less.price # None
  BY <1>1 DEF q, low2, T
<1> QED  BY <1>4, <1>13, <1>14 DEF IsNearHistoricalLow, IsKnown, y

\* It is above no more of the others.
LEMMA PercentileFalls ==
    ASSUME NEW S, NEW c, NEW r, Lower(S, c, r), NEW bound \in Nat,
           c # None, r # None
    PROVE  LET m == CurrentPercentile(S, c)
               l == CurrentPercentile(Swap(S, c, r), r)
           IN  /\ PercentileAtMost(m, bound) => PercentileAtMost(l, bound)
               /\ PercentileAtLeast(l, bound) => PercentileAtLeast(m, bound)
<1> DEFINE T == Swap(S, c, r)
           m == CurrentPercentile(S, c)
           l == CurrentPercentile(T, r)
           A == {p \in S : AnalysisPrice(p) <= AnalysisPrice(c)}
           B == {p \in T : AnalysisPrice(p) <= AnalysisPrice(r)}
           n == Cardinality(S)
<1>1. /\ Sound(S) /\ Sound(T) /\ c \in S /\ r \notin S /\ Cardinality(T) = n /\ n \in Nat
      /\ AnalysisPrice(r) \in Nat /\ AnalysisPrice(c) \in Nat
      /\ AnalysisPrice(r) < AnalysisPrice(c)
  <2>1. Sound(S) /\ c \in S /\ AnalysisPrice(r) \in Nat /\ AnalysisPrice(r) < AnalysisPrice(c)
    BY DEF Lower
  <2>2. AnalysisPrice(c) \in Nat
    BY <2>1 DEF Sound
  <2>3. r \notin S /\ Sound(T) /\ Cardinality(T) = n /\ n \in Nat
    BY SwapIs
  <2> QED  BY <2>1, <2>2, <2>3
<1>2. Cardinality(B) <= Cardinality(A) /\ Cardinality(A) \in Nat /\ Cardinality(B) \in Nat
  <2> DEFINE C == A \ {c}
             D == B \ {r}
  <2>1. c \in A /\ r \in B
    BY <1>1 DEF Swap
  <2>2. A \subseteq S /\ B \subseteq T /\ IsFiniteSet(S) /\ IsFiniteSet(T)
    BY <1>1 DEF Sound
  <2>3. IsFiniteSet(A) /\ IsFiniteSet(B)
    BY <2>2, FS_Subset
  <2>4. Cardinality(C) = Cardinality(A) - 1 /\ Cardinality(D) = Cardinality(B) - 1
    <3> HIDE DEF A, B
    <3> QED  BY <2>1, <2>3, FS_RemoveElement
  <2>5. D \subseteq C
    <3>1. \A p \in D : p \in S /\ p # c /\ AnalysisPrice(p) \in Nat
                       /\ AnalysisPrice(p) <= AnalysisPrice(r)
      BY <1>1 DEF Swap, Sound
    <3> QED  BY <1>1, <3>1
  <2>6. IsFiniteSet(C) /\ C \subseteq A
    BY <2>3, FS_Subset
  <2>7. Cardinality(D) <= Cardinality(C)
    <3> HIDE DEF C, D
    <3> QED  BY <2>5, <2>6, FS_Subset
  <2>8. Cardinality(A) \in Nat /\ Cardinality(B) \in Nat
    BY <2>3, FS_CardinalityType
  <2> QED  BY <2>4, <2>7, <2>8
<1>3. m = IF n < MinPercentile THEN Insufficient("below_minimum_observation_count")
          ELSE Available(Ratio(100 * Cardinality(A), n))
  BY DEF CurrentPercentile
<1>4. l = IF n < MinPercentile THEN Insufficient("below_minimum_observation_count")
          ELSE Available(Ratio(100 * Cardinality(B), n))
  BY <1>1 DEF CurrentPercentile
<1> DEFINE a == Cardinality(A)
           b == Cardinality(B)
<1>5. b <= a /\ a \in Nat /\ b \in Nat /\ n \in Nat
  BY <1>1, <1>2
<1>6. m = IF n < MinPercentile THEN Insufficient("below_minimum_observation_count")
          ELSE Available(Ratio(100 * a, n))
  BY <1>3
<1>7. l = IF n < MinPercentile THEN Insufficient("below_minimum_observation_count")
          ELSE Available(Ratio(100 * b, n))
  BY <1>4
<1> HIDE DEF m, l, a, b, n
<1> DEFINE t == (20000 * bound + 1) * n
           u == 20000 * bound * n
<1>8. t \in Int /\ u \in Int
  BY <1>5
<1>9. /\ PercentileAtMost(m, bound) <=> n >= MinPercentile /\ 20000 * (100 * a) < t
      /\ PercentileAtLeast(m, bound) <=> n >= MinPercentile /\ 20000 * (100 * a) + n >= u
      /\ PercentileAtMost(l, bound) <=> n >= MinPercentile /\ 20000 * (100 * b) < t
      /\ PercentileAtLeast(l, bound) <=> n >= MinPercentile /\ 20000 * (100 * b) + n >= u
  BY <1>5, <1>6, <1>7, MinimaAreAllowed
     DEF PercentileAtMost, PercentileAtLeast, AtMostPercent, AtLeastPercent,
         IsKnown, Insufficient, Available, Ratio
<1> HIDE DEF t, u
<1>10. /\ PercentileAtMost(m, bound) => PercentileAtMost(l, bound)
       /\ PercentileAtLeast(l, bound) => PercentileAtLeast(m, bound)
  BY <1>5, <1>8, <1>9
<1> QED  BY <1>10 DEF m, l, T

\* An average it counts in falls with it, and no other does.
LEMMA AveragesAre ==
    ASSUME NEW S, NEW c, NEW r, Lower(S, c, r), NEW asOf, NEW days
    PROVE  LET m == WindowAverage(S, asOf, days)
               l == WindowAverage(Swap(S, c, r), asOf, days)
           IN  /\ IsKnown(m) <=> IsKnown(l)
               /\ IsKnown(m) =>
                    \/ AverageOf(m) \in Int /\ AverageOf(l) = AverageOf(m)
                    \/ \E n \in Nat \ {0}, rest \in Int :
                          /\ n = 1 => rest = 0
                          /\ AverageOf(m) = RoundHalfUp(AnalysisPrice(c) + rest, n)
                          /\ AverageOf(l) = RoundHalfUp(AnalysisPrice(r) + rest, n)
<1> DEFINE T == Swap(S, c, r)
           V == WindowPoints(S, asOf, days)
           W == WindowPoints(T, asOf, days)
           m == WindowAverage(S, asOf, days)
           l == WindowAverage(T, asOf, days)
<1>1. Sound(S) /\ c \in S /\ V \subseteq S
  BY DEF Lower, WindowPoints
<1>2. Sound(V)
  BY <1>1, FS_Subset DEF Sound
<1>3. /\ c \in V => W = Swap(V, c, r)
      /\ c \notin V => W = V
  BY DEF WindowPoints, Swap, Lower, Twins
<1>4. /\ m = IF Cardinality(V) < MinAverage
             THEN BelowMinimum(Cardinality(V), "no_observations_in_window")
             ELSE Available(Ratio(PriceSum(V), Cardinality(V)))
      /\ l = IF Cardinality(W) < MinAverage
             THEN BelowMinimum(Cardinality(W), "no_observations_in_window")
             ELSE Available(Ratio(PriceSum(W), Cardinality(W)))
  BY DEF WindowAverage
<1>5. IsFiniteSet(V) /\ Cardinality(V) \in Nat /\ \A p \in V : AnalysisPrice(p) \in Int
  BY <1>2, FS_CardinalityType DEF Sound
<1> HIDE DEF V, W, m, l
<1> DEFINE n == Cardinality(V)
<1>6. /\ IsKnown(m) <=> n >= MinAverage
      /\ IsKnown(m) => AverageOf(m) = RoundHalfUp(PriceSum(V), n) /\ n \in Nat \ {0}
  BY <1>4, <1>5, MinimaAreAllowed
     DEF IsKnown, AverageOf, Available, BelowMinimum, Insufficient, Ratio
<1>7. CASE c \notin V
  <2>1. l = m
    BY <1>3, <1>4, <1>7
  <2>2. IsKnown(m) => AverageOf(m) \in Int
    <3>1. PriceSum(V) \in Int
      BY <1>5, PriceSumIs
    <3> QED  BY <1>6, <3>1, RoundIs
  <2> QED  BY <2>1, <2>2 DEF m, l, T
<1>8. CASE c \in V
  <2> DEFINE R == V \ {c}
             rest == PriceSum(R)
  <2>1. Lower(V, c, r)
    BY <1>2, <1>8 DEF Lower
  <2>2. /\ Sound(R) /\ Sound(W) /\ Cardinality(W) = n /\ n = Cardinality(R) + 1
        /\ W \ {r} = R /\ Cardinality(R) \in Nat
    BY <1>3, <1>8, <2>1, SwapIs
  <2>3. r \in W
    BY <1>3, <1>8 DEF Swap
  <2>4. PriceSum(V) = AnalysisPrice(c) + rest
    BY <1>5, <1>8, PriceSumIs
  <2>5. IsFiniteSet(W) /\ (\A p \in W : AnalysisPrice(p) \in Int)
        /\ IsFiniteSet(R) /\ (\A p \in R : AnalysisPrice(p) \in Int)
    <3> HIDE DEF R
    <3> QED  BY <2>2 DEF Sound
  <2>6. PriceSum(W) = AnalysisPrice(r) + rest
    <3>1. PriceSum(W) = AnalysisPrice(r) + PriceSum(W \ {r})
      BY <2>3, <2>5, PriceSumIs
    <3> QED  BY <2>2, <3>1
  <2>7. rest \in Int
    <3> HIDE DEF R
    <3> QED  BY <2>5, PriceSumIs
  <2>8. n = 1 => rest = 0
    <3> HIDE DEF R
    <3>1. n = 1 => R = {}
      BY <2>2, <2>5, FS_EmptySet
    <3> QED  BY <3>1, PriceSumIs
  <2>9. /\ IsKnown(l) <=> n >= MinAverage
        /\ IsKnown(l) => AverageOf(l) = RoundHalfUp(PriceSum(W), n)
    <3> HIDE DEF n
    <3> QED  BY <1>4, <2>2, MinimaAreAllowed
        DEF IsKnown, AverageOf, Available, BelowMinimum, Insufficient, Ratio
  <2> HIDE DEF rest, n, R
  <2>10. /\ IsKnown(m) <=> IsKnown(l)
         /\ IsKnown(m) =>
              \E k \in Nat \ {0}, rst \in Int :
                          /\ k = 1 => rst = 0
                          /\ AverageOf(m) = RoundHalfUp(AnalysisPrice(c) + rst, k)
                          /\ AverageOf(l) = RoundHalfUp(AnalysisPrice(r) + rst, k)
    BY <1>6, <2>4, <2>6, <2>7, <2>8, <2>9
  <2> QED  BY <2>10 DEF m, l, T
<1> QED  BY <1>7, <1>8

-----------------------------------------------------------------------------
(* What it does to the prediction: nothing.                                *)

LEMMA EarliestOfSwap ==
    ASSUME NEW S, NEW c, NEW r, Lower(S, c, r), NEW e \in S,
           \A p \in S : p = e \/ Earlier(e, p)
    PROVE  Earliest(Swap(S, c, r)) = IF e = c THEN r ELSE e
<1> DEFINE T == Swap(S, c, r)
           f == IF e = c THEN r ELSE e
<1>1. f \in T /\ \A p \in T : p = r \/ (p \in S /\ p # c)
  BY DEF Swap
<1>2. c \in S /\ Twins(c, r)
  BY DEF Lower
<1>3. \A p \in T : p = f \/ Earlier(f, p)
  BY <1>1, <1>2 DEF Earlier, Twins
<1>4. \A p, q \in T : ~(Earlier(p, q) /\ Earlier(q, p))
  BY SwapIs, PointsOrder
<1> DEFINE first == CHOOSE x \in T : \A y \in T : y = x \/ Earlier(x, y)
<1>5. Earliest(T) = first
  BY DEF Earliest, First
<1>6. first \in T /\ \A y \in T : y = first \/ Earlier(first, y)
  BY <1>1, <1>3
<1> HIDE DEF first, T, f
<1>7. first = f
  BY <1>1, <1>3, <1>4, <1>6
<1> QED  BY <1>5, <1>7 DEF T, f

\* The earliest observation of a series.
FirstOf(points, g) == Earliest(RowsOf(points, g))

LEMMA SeriesIs ==
    ASSUME RowsInv, NEW points, points \subseteq snapshots, NEW g \in GroupsOf(points)
    PROVE  /\ FirstOf(points, g) \in RowsOf(points, g)
           /\ \A p \in RowsOf(points, g) : p = FirstOf(points, g) \/ Earlier(FirstOf(points, g), p)
<1> DEFINE S == RowsOf(points, g)
<1>1. PICK p \in points : g = <<p.retailer, p.sellerId, p.listing>>
  BY DEF GroupsOf
<1>2. S # {} /\ S \subseteq snapshots
  BY <1>1 DEF RowsOf
<1> HIDE DEF S
<1> QED  BY <1>2, EndsAre DEF FirstOf, S

LEMMA SeriesOfSwap ==
    ASSUME RowsInv, NEW points, points \subseteq snapshots, NEW c, NEW r, Lower(points, c, r)
    PROVE  /\ GroupsOf(Swap(points, c, r)) = GroupsOf(points)
           /\ \A g \in GroupsOf(points) :
                 /\ KnownOf(Swap(points, c, r), g) <=> KnownOf(points, g)
                 /\ FirstOf(Swap(points, c, r), g) =
                      IF FirstOf(points, g) = c THEN r ELSE FirstOf(points, g)
<1> DEFINE T == Swap(points, c, r)
<1>0. Sound(points) /\ c \in points /\ Twins(c, r)
  BY DEF Lower
<1>1. GroupsOf(T) = GroupsOf(points)
  <2>1. <<r.retailer, r.sellerId, r.listing>> = <<c.retailer, c.sellerId, c.listing>>
    BY <1>0 DEF Twins
  <2>2. r \in T /\ \A p \in T : p = r \/ p \in points
    BY DEF Swap
  <2>3. \A p \in points : p = c \/ p \in T
    BY DEF Swap
  <2> HIDE DEF T
  <2>4. \A g \in GroupsOf(T) : g \in GroupsOf(points)
    BY <1>0, <2>1, <2>2 DEF GroupsOf
  <2>5. \A g \in GroupsOf(points) : g \in GroupsOf(T)
    BY <1>0, <2>1, <2>2, <2>3 DEF GroupsOf
  <2> QED  BY <2>4, <2>5
<1>2. ASSUME NEW g \in GroupsOf(points)
      PROVE  /\ KnownOf(T, g) <=> KnownOf(points, g)
             /\ FirstOf(T, g) = IF FirstOf(points, g) = c THEN r ELSE FirstOf(points, g)
  <2> DEFINE S == RowsOf(points, g)
             U == RowsOf(T, g)
  <2>1. /\ c \in S => U = Swap(S, c, r)
        /\ c \notin S => U = S
    BY <1>0 DEF RowsOf, Swap, Twins
  <2>2. KnownOf(T, g) <=> KnownOf(points, g)
    <3>1. c \in S => (KnownOf(T, g) <=> KnownOf(points, g))
      BY <1>0, <2>1 DEF KnownOf, Swap, Twins, QualifiesForCalculations
    <3>2. c \notin S => (KnownOf(T, g) <=> KnownOf(points, g))
      BY <2>1 DEF KnownOf
    <3> QED  BY <3>1, <3>2
  <2>3. /\ FirstOf(points, g) \in S
        /\ \A p \in S : p = FirstOf(points, g) \/ Earlier(FirstOf(points, g), p)
    BY SeriesIs
  <2>4. S \subseteq points /\ Sound(S)
    <3>1. S \subseteq points
      BY DEF RowsOf
    <3> QED  BY <1>0, <3>1, FS_Subset DEF Sound
  <2> HIDE DEF S, U
  <2>5. FirstOf(T, g) = Earliest(U) /\ FirstOf(points, g) = Earliest(S)
    BY DEF FirstOf, U, S
  <2>6. FirstOf(T, g) = IF FirstOf(points, g) = c THEN r ELSE FirstOf(points, g)
    <3>1. CASE c \in S
      <4>1. Lower(S, c, r)
        BY <2>4, <3>1 DEF Lower
      <4> QED  BY <2>1, <2>3, <2>5, <3>1, <4>1, EarliestOfSwap
    <3>2. CASE c \notin S
      BY <2>1, <2>3, <2>5, <3>2
    <3> QED  BY <3>1, <3>2
  <2> QED  BY <2>2, <2>6
<1> QED  BY <1>1, <1>2

\* The first of some predictions is the one of the series seen first.
LEMMA FirstTaken ==
    ASSUME NEW G, NEW F, NEW b \in G,
           \A h \in G : h = b \/ Earlier(F[b].first, F[h].first),
           \A h \in G : ~Earlier(F[h].first, F[b].first)
    PROVE  First({F[h] : h \in G}, LAMBDA p, q : Earlier(p.first, q.first)) = F[b]
<1> DEFINE M == {F[h] : h \in G}
           taken == CHOOSE x \in M : \A y \in M : y = x \/ Earlier(x.first, y.first)
<1>1. First(M, LAMBDA p, q : Earlier(p.first, q.first)) = taken
  BY DEF First
<1>2. F[b] \in M /\ \A y \in M : y = F[b] \/ Earlier(F[b].first, y.first)
  OBVIOUS
<1>3. taken \in M /\ \A y \in M : y = taken \/ Earlier(taken.first, y.first)
  BY <1>2
<1>4. \A y \in M : ~Earlier(y.first, F[b].first)
  OBVIOUS
<1> HIDE DEF M, taken
<1>5. taken = F[b]
  BY <1>2, <1>3, <1>4
<1> QED  BY <1>1, <1>5 DEF M

SeriesOf(points, c) == {g \in GroupsOf(points) : g[1] = c.retailer /\ g[2] = c.sellerId}

LEMMA TakenIs ==
    ASSUME NEW points, NEW c, c # None,
           NEW b \in SeriesOf(points, c),
           \A h \in SeriesOf(points, c) : h = b \/ Earlier(FirstOf(points, b), FirstOf(points, h)),
           \A h \in SeriesOf(points, c) : ~Earlier(FirstOf(points, h), FirstOf(points, b))
    PROVE  PredictionForCurrent(Predictions(points), c) = PredictionOf(points, b)
<1> DEFINE G == SeriesOf(points, c)
           F == [g \in G |-> PredictionOf(points, g)]
           match == {p \in Predictions(points) : /\ p.retailer = c.retailer
                                                 /\ p.sellerId = c.sellerId}
<1>1. \A g : /\ PredictionOf(points, g).retailer = g[1]
             /\ PredictionOf(points, g).sellerId = g[2]
             /\ PredictionOf(points, g).first = FirstOf(points, g)
  BY DEF PredictionOf, FirstOf
<1>2. match = {PredictionOf(points, g) : g \in G}
  BY <1>1, PredictionsAre DEF SeriesOf
<1>3. {PredictionOf(points, g) : g \in G} = {F[g] : g \in G}
  OBVIOUS
<1>4. \A g \in G : F[g] = PredictionOf(points, g) /\ F[g].first = FirstOf(points, g)
  BY <1>1
<1>5. b \in G
  OBVIOUS
<1>6. PredictionForCurrent(Predictions(points), c) =
        IF match = {} THEN None ELSE First(match, LAMBDA p, q : Earlier(p.first, q.first))
  BY DEF PredictionForCurrent
<1> HIDE DEF F, match
<1>7. First({F[g] : g \in G}, LAMBDA p, q : Earlier(p.first, q.first)) = F[b]
  <2>1. /\ \A h \in G : h = b \/ Earlier(F[b].first, F[h].first)
        /\ \A h \in G : ~Earlier(F[h].first, F[b].first)
    BY <1>4, <1>5
  <2> HIDE DEF G
  <2> QED  BY <1>5, <2>1, FirstTaken
<1>8. match # {}
  BY <1>2, <1>5
<1> HIDE DEF G
<1> QED  BY <1>2, <1>3, <1>4, <1>5, <1>6, <1>7, <1>8

-----------------------------------------------------------------------------
\* The prediction taken for an observation says the same at any price.
LEMMA PredictionStays ==
    ASSUME RowsInv, NEW points, points \subseteq snapshots, NEW c, NEW r, Lower(points, c, r),
           c # None, r # None
    PROVE  \E p \in Predictions(points), q \in Predictions(Swap(points, c, r)) :
              /\ PredictionForCurrent(Predictions(points), c) = p
              /\ PredictionForCurrent(Predictions(Swap(points, c, r)), r) = q
              /\ q.status = p.status /\ q.price = p.price /\ q.confidence = p.confidence
              /\ p.price \in Amounts
<1> DEFINE T == Swap(points, c, r)
           G == SeriesOf(points, c)
           firsts == {FirstOf(points, g) : g \in G}
           e == Earliest(firsts)
<1>0. c \in points /\ Twins(c, r)
  BY DEF Lower
<1>1. \A g \in G : FirstOf(points, g) \in points /\ FirstOf(points, g).listing = g[3]
                   /\ g = <<g[1], g[2], g[3]>>
                   /\ g[1] = c.retailer /\ g[2] = c.sellerId
  <2> TAKE g \in G
  <2>1. g \in GroupsOf(points) /\ g[1] = c.retailer /\ g[2] = c.sellerId
    BY DEF SeriesOf
  <2>2. PredictionOf(points, g).first = FirstOf(points, g)
    BY DEF PredictionOf, FirstOf
  <2> QED  BY <2>1, <2>2, PredictionIs
<1>2. firsts \subseteq snapshots /\ firsts # {}
  <2>1. <<c.retailer, c.sellerId, c.listing>> \in G
    BY <1>0 DEF SeriesOf, GroupsOf
  <2> QED  BY <1>1, <2>1
<1>3. e \in firsts /\ \A p \in firsts : p = e \/ Earlier(e, p)
  <2> HIDE DEF firsts
  <2> QED  BY <1>2, EndsAre
<1>4. PICK b \in G : e = FirstOf(points, b)
  BY <1>3
<1> HIDE DEF e
<1>5. \A g \in G : FirstOf(points, g) = FirstOf(points, b) => g = b
  <2> SUFFICES ASSUME NEW g \in G, FirstOf(points, g) = FirstOf(points, b) PROVE g = b
    OBVIOUS
  <2>1. g = <<g[1], g[2], g[3]>> /\ b = <<b[1], b[2], b[3]>>
        /\ g[1] = b[1] /\ g[2] = b[2] /\ g[3] = b[3]
    BY <1>1
  <2> QED  BY <2>1
<1>6. \A g \in G : g = b \/ Earlier(FirstOf(points, b), FirstOf(points, g))
  <2>1. \A g \in G : FirstOf(points, g) \in firsts
    OBVIOUS
  <2> QED  BY <1>3, <1>4, <1>5, <2>1
<1>7. \A g \in G : ~Earlier(FirstOf(points, g), FirstOf(points, b))
  <2>1. \A p, q \in points : ~(Earlier(p, q) /\ Earlier(q, p))
    BY PointsOrder DEF Lower
  <2>2. \A p \in points : ~Earlier(p, p)
    BY PointsOrder DEF Lower
  <2> QED  BY <1>1, <1>6, <2>1, <2>2
<1>8. PredictionForCurrent(Predictions(points), c) = PredictionOf(points, b)
  BY <1>6, <1>7, TakenIs
<1>9. /\ GroupsOf(T) = GroupsOf(points)
      /\ \A g \in GroupsOf(points) :
            /\ KnownOf(T, g) <=> KnownOf(points, g)
            /\ FirstOf(T, g) = IF FirstOf(points, g) = c THEN r ELSE FirstOf(points, g)
  BY SeriesOfSwap
<1>10. SeriesOf(T, r) = G
  BY <1>0, <1>9 DEF SeriesOf, Twins
<1>11. \A g, h \in G : Earlier(FirstOf(T, g), FirstOf(T, h))
                         <=> Earlier(FirstOf(points, g), FirstOf(points, h))
  <2>1. \A g \in G : \/ FirstOf(T, g) = FirstOf(points, g)
                     \/ FirstOf(T, g) = r /\ FirstOf(points, g) = c
    BY <1>9 DEF SeriesOf
  <2>2. /\ \A g \in G : /\ FirstOf(T, g).observedAt = FirstOf(points, g).observedAt
                        /\ FirstOf(T, g).createdAt = FirstOf(points, g).createdAt
                        /\ FirstOf(T, g).id = FirstOf(points, g).id
    BY <1>0, <2>1 DEF Twins
  <2> QED  BY <2>2 DEF Earlier
<1>12. PredictionForCurrent(Predictions(T), r) = PredictionOf(T, b)
  <2>1. b \in SeriesOf(T, r)
    BY <1>10
  <2>2. /\ \A h \in SeriesOf(T, r) : h = b \/ Earlier(FirstOf(T, b), FirstOf(T, h))
        /\ \A h \in SeriesOf(T, r) : ~Earlier(FirstOf(T, h), FirstOf(T, b))
    BY <1>6, <1>7, <1>10, <1>11
  <2> HIDE DEF T, G
  <2> QED  BY <2>1, <2>2, TakenIs
<1>13. b \in GroupsOf(points)
  BY DEF SeriesOf
<1>14. /\ PredictionOf(points, b) \in Predictions(points)
       /\ PredictionOf(T, b) \in Predictions(T)
  BY <1>9, <1>13, PredictionsAre
<1>15. /\ PredictionOf(T, b).status = PredictionOf(points, b).status
       /\ PredictionOf(T, b).price = PredictionOf(points, b).price
       /\ PredictionOf(T, b).confidence = PredictionOf(points, b).confidence
  BY <1>9, <1>13 DEF PredictionOf
<1>16. PredictionOf(points, b).price \in Amounts
  BY <1>13, PredictionIs
<1> HIDE DEF T, G
<1> QED  BY <1>8, <1>12, <1>14, <1>15, <1>16 DEF T

-----------------------------------------------------------------------------
(* What it does to the advice.                                             *)

\* All that counts for an early purchase counts for the second as well, and
\* what counts against it counts against the first.
Keener(in, less) ==
    /\ \A bound \in {BuyPercentileMax, BuyStrongPercentileMax} :
          PercentileAtMost(in.percentile, bound) => PercentileAtMost(less.percentile, bound)
    /\ PercentileAtLeast(less.percentile, WaitPercentileMin)
          => PercentileAtLeast(in.percentile, WaitPercentileMin)
    /\ \A percent \in {NearLowPercent, NearLowStrongPercent} :
          IsNearHistoricalLow(in, percent) => IsNearHistoricalLow(less, percent)
    /\ AtOrBelowAverages(in) => AtOrBelowAverages(less)
    /\ SavingsAreMaterial(less, UsedPrice(less)) => SavingsAreMaterial(in, UsedPrice(in))
    /\ MateriallyAbove(less, less.averageShort) => MateriallyAbove(in, in.averageShort)
    /\ MateriallyAbove(less, less.averageLong) => MateriallyAbove(in, in.averageLong)
    /\ IsKnown(less.averageLong) <=> IsKnown(in.averageLong)
    /\ less.events = in.events

LEMMA KeenerIsNoWorse ==
    ASSUME NEW in, NEW less, Keener(in, less), Gates(in) = {}, Gates(less) = {}
    PROVE  Eagerness(DecisionOf(less)) >= Eagerness(DecisionOf(in))
<1> DEFINE buy   == BuyRules(in)
           buy2  == BuyRules(less)
           wait  == WaitRules(in, buy)
           wait2 == WaitRules(less, buy2)
<1>1. /\ "BUY_FAVORABLE_PERCENTILE" \in buy => "BUY_FAVORABLE_PERCENTILE" \in buy2
      /\ "BUY_STRONG_PERCENTILE" \in buy => "BUY_STRONG_PERCENTILE" \in buy2
      /\ "BUY_NEAR_HISTORICAL_LOW" \in buy => "BUY_NEAR_HISTORICAL_LOW" \in buy2
      /\ "BUY_STRONG_NEAR_HISTORICAL_LOW" \in buy => "BUY_STRONG_NEAR_HISTORICAL_LOW" \in buy2
      /\ "BUY_BELOW_AVERAGES" \in buy => "BUY_BELOW_AVERAGES" \in buy2
  BY BuyRulesAre DEF Keener
<1>2. StronglyFavorable(buy) => StronglyFavorable(buy2)
  <2> HIDE DEF buy, buy2
  <2> QED  BY <1>1 DEF StronglyFavorable
<1>3. /\ "WAIT_UNFAVORABLE_PERCENTILE" \in wait2 => "WAIT_UNFAVORABLE_PERCENTILE" \in wait
      /\ "WAIT_PREDICTED_SAVINGS" \in wait2 => "WAIT_PREDICTED_SAVINGS" \in wait
      /\ "WAIT_UPCOMING_SALE" \in wait2 => "WAIT_UPCOMING_SALE" \in wait
      /\ "WAIT_ABOVE_AVERAGES" \in wait2 => "WAIT_ABOVE_AVERAGES" \in wait
  <2> HIDE DEF buy, buy2
  <2> QED  BY <1>1, <1>2, WaitRulesAre DEF Keener
<1>4. WaitEvidence(wait2) => WaitEvidence(wait)
  <2>1. wait2 \subseteq WaitNames
    BY WaitRulesAre
  <2> HIDE DEF wait, wait2
  <2> QED  BY <1>3, <2>1 DEF WaitEvidence, WaitNames
<1>5. DecisionOf(in) = IF StronglyFavorable(buy) /\ WaitEvidence(wait) THEN "WATCH"
                       ELSE IF WaitEvidence(wait)     THEN "WAIT"
                       ELSE IF StronglyFavorable(buy) THEN "BUY_NOW"
                       ELSE "WATCH"
  BY DEF DecisionOf
<1>6. DecisionOf(less) = IF StronglyFavorable(buy2) /\ WaitEvidence(wait2) THEN "WATCH"
                         ELSE IF WaitEvidence(wait2)     THEN "WAIT"
                         ELSE IF StronglyFavorable(buy2) THEN "BUY_NOW"
                         ELSE "WATCH"
  BY DEF DecisionOf
<1>7. Eagerness("WAIT") = 1 /\ Eagerness("WATCH") = 2 /\ Eagerness("BUY_NOW") = 3
  BY DEF Eagerness
<1> HIDE DEF buy, buy2, wait, wait2
<1> QED  BY <1>2, <1>4, <1>5, <1>6, <1>7

\* The absent value is not a row, and no prediction.
NoneIsNoRecord == {"displayed", "price"} \cap DOMAIN None = {}

LEMMA InputFieldsAre ==
    ASSUME NEW points
    PROVE  LET in == InputOf(points)
               seen == QualifyingObservations(points)
               current == History(points).current IN
           /\ in.price = IF current = None THEN None ELSE AnalysisPrice(current)
           /\ in.qualifying = Cardinality(seen)
           /\ in.freshness = IF current = None THEN "missing"
                             ELSE ClassifyFreshness(current.observedAt, now)
           /\ in.percentile = CurrentPercentile(seen, current)
           /\ in.low = HistoricalLow(seen)
           /\ in.averageShort = WindowAverage(seen, now, ShortWindow)
           /\ in.averageLong = WindowAverage(seen, now, LongWindow)
           /\ in.prediction = PredictionForCurrent(Predictions(points), current)
           /\ in.events = UpcomingEvents
BY DEF InputOf, InputWith, InputFromHistory, History, ComputeVariant

\* A saving worth waiting for is one at a higher price too.
LEMMA SavingsStay ==
    ASSUME NEW p \in Nat, NEW q \in Nat, q < p, NEW predicted \in Amounts,
           NEW in, in.price = p, NEW less, less.price = q,
           SavingsAreMaterial(less, predicted)
    PROVE  SavingsAreMaterial(in, predicted)
<1>0. None \notin Int /\ MinSavingsPercent \in Nat
  BY RowsAssumption, ThresholdsAreOrdered
<1> DEFINE M == 20000 * MinSavingsPercent
<1>2. predicted # None /\ predicted < q /\ predicted \in Nat
  BY <1>0 DEF SavingsAreMaterial, PredictedSavings, Amounts
<1>1. M \in Nat /\ q > 0 /\ 2000000 * (q - predicted) + q >= M * q
  <2>1. q > 0 /\ AtLeastPercent(100 * (q - predicted), q, MinSavingsPercent)
    BY <1>0 DEF SavingsAreMaterial, PredictedSavings, Amounts
  <2> QED  BY <1>0, <1>2, <2>1 DEF AtLeastPercent
<1> HIDE DEF M
<1>3. 2000000 * (p - predicted) + p >= M * p
  <2>1. PICK d \in Nat : p = q + d
    <3>1. p - q \in Nat /\ p = q + (p - q)
      OBVIOUS
    <3> QED  BY <3>1
  <2>2. M * p = M * q + M * d /\ M * q \in Nat /\ M * d \in Nat
    BY <1>1, <2>1
  <2>3. M <= 2000001
    <3> SUFFICES ASSUME M > 2000001 PROVE FALSE
      BY <1>1
    <3>1. PICK k \in Nat : M = 2000002 + k
      <4>1. M - 2000002 \in Nat /\ M = 2000002 + (M - 2000002)
        BY <1>1
      <4> QED  BY <4>1
    <3>2. M * q = 2000002 * q + k * q /\ k * q \in Nat
      BY <3>1
    <3> QED  BY <1>1, <1>2, <3>2
  <2>4. PICK k \in Nat : 2000001 = M + k
    <3>1. 2000001 - M \in Nat /\ 2000001 = M + (2000001 - M)
      BY <1>1, <2>3
    <3> QED  BY <3>1
  <2>5. 2000001 * d = M * d + k * d /\ k * d \in Nat
    BY <1>1, <2>4
  <2> QED  BY <1>1, <1>2, <2>1, <2>2, <2>5
<1>4. p # None /\ p > 0 /\ predicted < p
  BY <1>0, <1>1, <1>2
<1>5. AtLeastPercent(100 * (p - predicted), p, MinSavingsPercent)
  BY <1>0, <1>2, <1>3 DEF AtLeastPercent, M
<1> QED  BY <1>0, <1>2, <1>4, <1>5 DEF SavingsAreMaterial, PredictedSavings

\* The average rules, of one window.
LEMMA WindowStays ==
    ASSUME NEW S, NEW c, NEW r, Lower(S, c, r), NEW days,
           MarkedlyLower(AnalysisPrice(r), AnalysisPrice(c)),
           NEW in, in.price = AnalysisPrice(c), NEW less, less.price = AnalysisPrice(r)
    PROVE  LET m == WindowAverage(S, now, days)
               l == WindowAverage(Swap(S, c, r), now, days)
           IN  /\ IsKnown(m) <=> IsKnown(l)
               /\ IsKnown(m) /\ in.price <= AverageOf(m) => less.price <= AverageOf(l)
               /\ MateriallyAbove(less, l) => MateriallyAbove(in, m)
<1> DEFINE m == WindowAverage(S, now, days)
           l == WindowAverage(Swap(S, c, r), now, days)
           p == AnalysisPrice(c)
           q == AnalysisPrice(r)
           K == 20000 * MinAboveAveragePercent
           a == AverageOf(m)
           b == AverageOf(l)
<1>1. p \in Nat /\ q \in Nat /\ q < p
  <2>1. Sound(S) /\ c \in S
    BY DEF Lower
  <2> QED  BY <2>1 DEF Lower, Sound
<1>2. K \in Nat /\ None \notin Int
  BY RowsAssumption, ThresholdsAreOrdered
<1>3. Marked(p - q, K)
  <2> DEFINE M == MinAboveAveragePercent
             d == p - q
  <2>1. d \in Nat /\ M \in Nat /\ (100 - M) * d >= 100 + M
    BY <1>1, ThresholdsAreOrdered DEF MarkedlyLower
  <2> HIDE DEF M, d
  <2>2. (2000000 - 20000 * M) * d = 20000 * ((100 - M) * d) /\ (100 - M) * d \in Int
    BY <2>1
  <2>3. (2000000 - 20000 * M) * d >= 2000000 + 20000 * M
    BY <2>1, <2>2
  <2> QED  BY <2>3 DEF M, d, Marked
<1>4. /\ IsKnown(m) <=> IsKnown(l)
      /\ IsKnown(m) => \/ a \in Int /\ b = a
                       \/ \E n \in Nat \ {0}, rest \in Int :
                             /\ n = 1 => rest = 0
                             /\ a = RoundHalfUp(p + rest, n)
                             /\ b = RoundHalfUp(q + rest, n)
  BY AveragesAre
<1>5. /\ MateriallyAbove(less, l) <=> IsKnown(l) /\ b > 0 /\ Above(q, b, K)
      /\ MateriallyAbove(in, m) <=> IsKnown(m) /\ a > 0 /\ Above(p, a, K)
  <2>1. IsKnown(m) => a \in Int /\ b \in Int
    <3>1. \A n \in Nat \ {0}, rest \in Int :
             RoundHalfUp(p + rest, n) \in Int /\ RoundHalfUp(q + rest, n) \in Int
      BY <1>1, RoundIs
    <3> HIDE DEF m, a, b, p, q
    <3> QED  BY <1>4, <3>1
  <2>2. ASSUME NEW x \in Nat, NEW y \in Int
        PROVE  AtLeastPercent(100 * (x - y), y, MinAboveAveragePercent) <=> Above(x, y, K)
    BY ThresholdsAreOrdered DEF AtLeastPercent, Above
  <2>3. /\ MateriallyAbove(less, l)
              <=> IsKnown(l) /\ b > 0 /\ AtLeastPercent(100 * (q - b), b, MinAboveAveragePercent)
        /\ MateriallyAbove(in, m)
              <=> IsKnown(m) /\ a > 0 /\ AtLeastPercent(100 * (p - a), a, MinAboveAveragePercent)
    BY <1>1, <1>2 DEF MateriallyAbove
  <2> HIDE DEF m, l, a, b, p, q, K
  <2> QED  BY <1>1, <1>4, <2>1, <2>2, <2>3
<1> HIDE DEF m, l, p, q, K, a, b
<1>6. ASSUME IsKnown(m), p <= a PROVE q <= b
  <2>1. CASE a \in Int /\ b = a
    BY <1>1, <1>6, <2>1
  <2>2. ASSUME NEW n \in Nat \ {0}, NEW rest \in Int,
               a = RoundHalfUp(p + rest, n), b = RoundHalfUp(q + rest, n)
        PROVE  q <= b
    BY <1>1, <1>6, <2>2, BelowStays
  <2> QED  BY <1>4, <1>6, <2>1, <2>2
<1>7. ASSUME IsKnown(l), b > 0, Above(q, b, K) PROVE a > 0 /\ Above(p, a, K)
  <2>1. CASE a \in Int /\ b = a
    <3>1. K * a \in Int
      BY <1>2, <2>1
    <3> QED  BY <1>1, <1>2, <1>7, <2>1, <3>1 DEF Above
  <2>2. ASSUME NEW n \in Nat \ {0}, NEW rest \in Int, n = 1 => rest = 0,
               a = RoundHalfUp(p + rest, n), b = RoundHalfUp(q + rest, n)
        PROVE  a > 0 /\ Above(p, a, K)
    <3>1. RoundHalfUp(q + rest, n) > 0 /\ Above(q, RoundHalfUp(q + rest, n), K)
      BY <1>7, <2>2
    <3>2. RoundHalfUp(p + rest, n) > 0 /\ Above(p, RoundHalfUp(p + rest, n), K)
      BY <1>1, <1>2, <1>3, <2>2, <3>1, AboveStays
    <3> QED  BY <2>2, <3>2
  <2> QED  BY <1>4, <1>7, <2>1, <2>2
<1>8. /\ IsKnown(m) <=> IsKnown(l)
      /\ IsKnown(m) /\ p <= a => q <= b
      /\ MateriallyAbove(less, l) => MateriallyAbove(in, m)
  BY <1>4, <1>5, <1>6, <1>7
<1> QED  BY <1>8 DEF m, l, p, q, a, b

LEMMA SwapCounts ==
    ASSUME NEW S, NEW c, NEW r, Lower(S, c, r)
    PROVE  Cardinality(Swap(S, c, r)) = Cardinality(S)
<1> DEFINE R == S \ {c}
<1>1. Sound(S) /\ c \in S /\ r.id = c.id /\ AnalysisPrice(r) # AnalysisPrice(c)
  BY DEF Lower, Twins, Sound
<1>2. IsFiniteSet(S) /\ IsFiniteSet(R) /\ r \notin R
  BY <1>1, FS_Subset DEF Sound
<1>3. Cardinality(R) = Cardinality(S) - 1 /\ Cardinality(S) \in Nat
  BY <1>1, <1>2, FS_RemoveElement, FS_CardinalityType
<1> HIDE DEF R
<1>4. Cardinality(R \cup {r}) = Cardinality(R) + 1
  BY <1>2, FS_AddElement
<1>5. Cardinality(R \cup {r}) = Cardinality(S)
  BY <1>3, <1>4, FS_CardinalityType, <1>2
<1> QED  BY <1>5 DEF R, Swap

LEMMA CheaperIsKeener ==
    ASSUME RowsInv, NoneIsNoRecord, NEW points, points \subseteq snapshots, NEW c, NEW r,
           History(points).current = c, c # None, r # None, Lower(points, c, r),
           MarkedlyLower(AnalysisPrice(r), AnalysisPrice(c))
    PROVE  /\ Keener(InputOf(points), InputOf(Swap(points, c, r)))
           /\ Gates(InputOf(Swap(points, c, r))) = Gates(InputOf(points))
<1> DEFINE T == Swap(points, c, r)
           in == InputOf(points)
           less == InputOf(T)
           seen == QualifyingObservations(points)
           seen2 == QualifyingObservations(T)
           p == AnalysisPrice(c)
           q == AnalysisPrice(r)
<1>1. seen # {} /\ c = Latest(seen) /\ seen \subseteq snapshots
  BY CurrentIs DEF QualifyingObservations
<1>2. c \in seen /\ \A s \in seen : s = c \/ Earlier(s, c)
  <2> HIDE DEF seen
  <2> QED  BY <1>1, EndsAre
<1>3. Twins(c, r) /\ QualifiesForCalculations(c) /\ QualifiesForCalculations(r)
  BY <1>2 DEF Lower, Twins, QualifyingObservations, QualifiesForCalculations
<1>4. seen2 = Swap(seen, c, r)
  BY <1>3 DEF Swap, QualifyingObservations
<1>5. Lower(seen, c, r)
  BY <1>1, <1>2, StoredAreSound DEF Lower
<1>6. Latest(seen2) = r /\ seen2 # {}
  <2>1. seen2 # {}
    BY <1>4 DEF Swap
  <2> HIDE DEF seen, seen2
  <2> QED  BY <1>2, <1>4, <1>5, <2>1, LatestOfSwap
<1>7. History(T).current = r
  BY <1>6, CurrentIs
<1>8. p \in Nat /\ q \in Nat /\ q < p /\ None \notin Int
  <2>1. Sound(points) /\ c \in points
    BY DEF Lower
  <2> QED  BY <2>1, RowsAssumption DEF Lower, Sound
<1>9. /\ in.price = p /\ less.price = q
      /\ in.qualifying = Cardinality(seen) /\ less.qualifying = Cardinality(seen2)
      /\ in.freshness = ClassifyFreshness(c.observedAt, now)
      /\ less.freshness = ClassifyFreshness(r.observedAt, now)
      /\ in.percentile = CurrentPercentile(seen, c) /\ less.percentile = CurrentPercentile(seen2, r)
      /\ in.low = HistoricalLow(seen) /\ less.low = HistoricalLow(seen2)
      /\ in.averageShort = WindowAverage(seen, now, ShortWindow)
      /\ less.averageShort = WindowAverage(seen2, now, ShortWindow)
      /\ in.averageLong = WindowAverage(seen, now, LongWindow)
      /\ less.averageLong = WindowAverage(seen2, now, LongWindow)
      /\ in.prediction = PredictionForCurrent(Predictions(points), c)
      /\ less.prediction = PredictionForCurrent(Predictions(T), r)
      /\ less.events = in.events
  <2>1. History(points).current = c
    OBVIOUS
  <2> HIDE DEF T
  <2> QED  BY <1>7, <2>1, InputFieldsAre
<1> HIDE DEF in, less, seen, seen2
<1>10. \A bound \in Nat :
          /\ PercentileAtMost(in.percentile, bound) => PercentileAtMost(less.percentile, bound)
          /\ PercentileAtLeast(less.percentile, bound) => PercentileAtLeast(in.percentile, bound)
  BY <1>4, <1>5, <1>9, PercentileFalls
<1>11. \A percent \in Nat : IsNearHistoricalLow(in, percent) => IsNearHistoricalLow(less, percent)
  BY <1>4, <1>5, <1>8, <1>9, NearStays
<1>12. /\ IsKnown(in.averageShort) <=> IsKnown(less.averageShort)
       /\ IsKnown(in.averageShort) /\ in.price <= AverageOf(in.averageShort)
            => less.price <= AverageOf(less.averageShort)
       /\ MateriallyAbove(less, less.averageShort) => MateriallyAbove(in, in.averageShort)
  BY <1>4, <1>5, <1>9, WindowStays
<1>13. /\ IsKnown(in.averageLong) <=> IsKnown(less.averageLong)
       /\ IsKnown(in.averageLong) /\ in.price <= AverageOf(in.averageLong)
            => less.price <= AverageOf(less.averageLong)
       /\ MateriallyAbove(less, less.averageLong) => MateriallyAbove(in, in.averageLong)
  BY <1>4, <1>5, <1>9, WindowStays
<1>14. AtOrBelowAverages(in) => AtOrBelowAverages(less)
  <2>1. less.price # None
    BY <1>8, <1>9
  <2> QED  BY <1>12, <1>13, <2>1 DEF AtOrBelowAverages
<1>15. SavingsAreMaterial(less, UsedPrice(less)) => SavingsAreMaterial(in, UsedPrice(in))
  <2>1. PICK x \in Predictions(points), y \in Predictions(T) :
          /\ in.prediction = x /\ less.prediction = y
          /\ y.status = x.status /\ y.price = x.price /\ y.confidence = x.confidence
          /\ x.price \in Amounts
    BY <1>9, PredictionStays
  <2>2. CASE x # None /\ y # None
    <3>1. PredictionUnused(less.prediction) = PredictionUnused(in.prediction)
      BY <2>1, <2>2 DEF PredictionUnused
    <3>2. UsedPrice(less) = UsedPrice(in) /\ UsedPrice(in) \in Amounts
      BY <2>1, <3>1 DEF UsedPrice, PredictionUsed, Amounts
    <3> QED  BY <1>8, <1>9, <3>2, SavingsStay
  <2>3. CASE y = None
    <3>1. UsedPrice(less) = None
      BY <2>1, <2>3 DEF UsedPrice, PredictionUsed, PredictionUnused
    <3> QED  BY <3>1 DEF SavingsAreMaterial, PredictedSavings
  <2>4. x # None
    <3>1. PICK g \in GroupsOf(points) : x = PredictionOf(points, g)
      BY PredictionsAre
    <3>2. "price" \in DOMAIN x
      BY <3>1 DEF PredictionOf
    <3> QED  BY <3>2 DEF NoneIsNoRecord
  <2> QED  BY <2>2, <2>3, <2>4
<1>16. {BuyPercentileMax, BuyStrongPercentileMax, WaitPercentileMin, NearLowPercent,
        NearLowStrongPercent} \subseteq Nat
  BY ThresholdsAreOrdered
<1>17. Keener(in, less)
  BY <1>9, <1>10, <1>11, <1>12, <1>13, <1>14, <1>15, <1>16 DEF Keener
<1>18. Gates(less) = Gates(in)
  <2>1. less.qualifying = in.qualifying
    BY <1>4, <1>5, <1>9, SwapCounts
  <2>2. less.freshness = in.freshness
    BY <1>3, <1>9 DEF Twins
  <2>3. in.price # None /\ less.price # None
    BY <1>8, <1>9
  <2> QED  BY <2>1, <2>2, <2>3 DEF Gates
<1> QED  BY <1>17, <1>18 DEF in, less, T

(* Had the current observation been markedly cheaper, the advice would not be
   more reluctant (recommend, over the metrics of compute_variant): a lower
   price is a lower percentile, nearer to the low, further below the averages
   and further above no prediction, and the trend decides nothing by itself. *)
THEOREM CheaperIsNoWorse ==
    ASSUME NoneIsNoRecord
    PROVE  Spec => []CheaperIsNeverWorse
<1>1. ASSUME RowsInv PROVE CheaperIsNeverWorse
  <2> SUFFICES ASSUME NEW v \in Variants, NEW price \in LowerPrices,
                      History(PointsOf(v)).current # None,
                      Recommend(InputOf(PointsOf(v))).decision # "INSUFFICIENT_DATA",
                      MarkedlyLower(price, AnalysisPrice(History(PointsOf(v)).current))
               PROVE  Eagerness(Recommend(InputOf(
                          Repriced(PointsOf(v), History(PointsOf(v)).current, price))).decision)
                        >= Eagerness(Recommend(InputOf(PointsOf(v))).decision)
    BY DEF CheaperIsNeverWorse
  <2> DEFINE points == PointsOf(v)
             c == History(points).current
             r == [c EXCEPT !.displayed = price, !.effective = None]
             in == InputOf(points)
             less == InputOf(Swap(points, c, r))
  <2>1. points \subseteq snapshots
    BY DEF PointsOf
  <2>2. c \in points
    <3> DEFINE seen == QualifyingObservations(points)
    <3>1. seen # {} /\ c = Latest(seen) /\ seen \subseteq points
      BY CurrentIs DEF QualifyingObservations
    <3> HIDE DEF seen, points, c
    <3> QED  BY <1>1, <2>1, <3>1, EndsAre
  <2>3. {"displayed", "effective"} \subseteq DOMAIN c
    <3> HIDE DEF points, c
    <3> QED  BY <1>1, <2>1, <2>2 DEF RowsInv, Said
  <2>4. Repriced(points, c, price) = Swap(points, c, r)
    BY DEF Repriced, Swap
  <2>5. Twins(c, r) /\ AnalysisPrice(r) = price /\ r # None
    <3>1. "displayed" \in DOMAIN r
      BY <2>3
    <3>2. r # None
      <4> HIDE DEF r
      <4> QED  BY <3>1 DEF NoneIsNoRecord
    <3> HIDE DEF c
    <3> QED  BY <2>3, <3>2, RepricedIs
  <2>6. c # None /\ MarkedlyLower(price, AnalysisPrice(c))
    OBVIOUS
  <2> HIDE DEF points, c, r
  <2>7. Lower(points, c, r) /\ MarkedlyLower(AnalysisPrice(r), AnalysisPrice(c))
    <3>1. price \in Nat
      BY RowsAssumption
    <3> QED  BY <1>1, <2>1, <2>2, <2>5, <2>6, <3>1, StoredAreSound DEF Lower, MarkedlyLower
  <2>8. Keener(in, less) /\ Gates(less) = Gates(in)
    BY <1>1, <2>1, <2>5, <2>6, <2>7, CheaperIsKeener DEF c
  <2> HIDE DEF in, less
  <2>9. Recommend(in).decision = DecisionOf(in) /\ Recommend(less).decision = DecisionOf(less)
    BY RecommendIs
  <2>10. Gates(in) = {}
    <3>1. DecisionOf(in) # "INSUFFICIENT_DATA"
      BY <2>9 DEF in, points
    <3> QED  BY <3>1 DEF DecisionOf
  <2>11. Eagerness(Recommend(less).decision) >= Eagerness(Recommend(in).decision)
    BY <2>8, <2>9, <2>10, KeenerIsNoWorse
  <2> QED  BY <2>4, <2>11 DEF less, in, points, c
<1> QED  BY <1>1, RowsAreSound, PTL
=============================================================================
