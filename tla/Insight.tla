------------------------------- MODULE Insight -------------------------------
(***************************************************************************)
(* One product as its readers see it: the listings and observations that   *)
(* collection stores while time passes, and what the price comparison, the *)
(* price history and the recommendation answer at any moment.  The three   *)
(* services read the same rows and never write, so the state is the store  *)
(* and the clock, and the answers are functions of them.                   *)
(***************************************************************************)
EXTENDS Recommendation

CONSTANTS
    Variants,         \* the variants of the product
    Catalogue,        \* the listings that may be discovered: id, variant, retailer
    Observed,         \* what an observation may say: a set of records
    SaleEvents,       \* the applicable events: id, start, end, source, confidence
    PredictedPrice,   \* the price the trained model gives a listing, or None
    PredictedConfidence,
    ShortWindow, LongWindow,   \* 30 and 90 days
    UnitsPerDay,
    LowerPrices,      \* the prices CheaperIsNeverWorse tries
    MaxSeller,        \* the highest number of a seller
    MaxSnapshots, MaxTime      \* bounds of the exploration

Amounts == Nat \cup {None}

\* Stored amounts are not negative, and a displayed price is always there (the
\* constraints of price_snapshots).  Row numbers are unique.
ASSUME RowsAssumption ==
    /\ None \notin Int
    /\ MaxSeller \in Nat /\ MaxTime \in Nat /\ MaxSnapshots \in Nat
    /\ \A l \in Catalogue : l.id \in Nat \ {0} /\ l.retailer \in Nat
    /\ \A l, m \in Catalogue : l.id = m.id => l = m
    /\ \A seen \in Observed :
          /\ seen.sellerId \in 0..MaxSeller
          /\ seen.displayed \in Nat
          /\ {seen.effective, seen.mrp, seen.delivery, seen.platform} \subseteq Amounts
          /\ IsFiniteSet(seen.promotions)
          /\ \A adj \in seen.promotions : adj.amount \in Amounts
    /\ \A l \in Catalogue : PredictedPrice[l.id] \in Amounts
    /\ LowerPrices \subseteq Nat

VARIABLES
    listings,         \* rows of retailer_products
    snapshots,        \* rows of price_snapshots
    now

vars == <<listings, snapshots, now>>

-----------------------------------------------------------------------------

Init ==
    /\ listings = {}
    /\ snapshots = {}
    /\ now = 0

DiscoverListing(listing) ==
    /\ listing \notin listings
    /\ listings' = listings \cup {listing}
    /\ UNCHANGED <<snapshots, now>>

\* Identifiers are random: they only break ties, so any distinct ones do; these
\* run against the order of observation.
SnapshotId(listing, seller, at) ==
    (MaxTime + 1) * ((MaxSeller + 1) * listing.id + seller) + (MaxTime - at)

\* A stored observation; one that arrives late carries an earlier instant.  A
\* second observation of a listing and seller at one instant is not stored.
Observe(listing, seen, at) ==
    /\ Cardinality(snapshots) < MaxSnapshots
    /\ ~\E s \in snapshots : /\ s.listing = listing.id
                             /\ s.sellerId = seen.sellerId
                             /\ s.observedAt = at
    /\ snapshots' = snapshots \cup
          {[id |-> SnapshotId(listing, seen.sellerId, at), listing |-> listing.id,
            variant |-> listing.variant, retailer |-> listing.retailer,
            observedAt |-> at, createdAt |-> now, sellerId |-> seen.sellerId,
            displayed |-> seen.displayed, effective |-> seen.effective, mrp |-> seen.mrp,
            delivery |-> seen.delivery, platform |-> seen.platform,
            availability |-> seen.availability, confidence |-> seen.confidence,
            seller |-> seen.seller, promotions |-> seen.promotions]}
    /\ UNCHANGED <<listings, now>>

Tick ==
    /\ now < MaxTime
    /\ now' = now + 1
    /\ UNCHANGED <<listings, snapshots>>

Next ==
    \/ \E listing \in Catalogue : DiscoverListing(listing)
    \/ \E listing \in listings, seen \in Observed, at \in {now - 1, now} \cap Nat :
          Observe(listing, seen, at)
    \/ Tick

Spec == Init /\ [][Next]_vars

-----------------------------------------------------------------------------
(* What the readers get.                                                   *)

Comparison == CompareProduct(
                 [v \in Variants |-> VariantOffers(v, listings, snapshots)],
                 Variants, now)

PointsOf(v) == {s \in snapshots : s.variant = v}

History(points) == ComputeVariant(points, now, ShortWindow, LongWindow)

\* SaleEventEngine.upcoming and _days_until.
UpcomingEvents ==
    {[id |-> e.id, start |-> e.start, status |-> "before_event", source |-> e.source,
      confidence |-> e.confidence, days |-> (e.start - now) \div UnitsPerDay]
     : e \in {f \in SaleEvents : now < f.start}}

\* predict_product: one prediction for each listing and seller of the variant;
\* without a verified observation made and stored before now it says nothing.
\* The list is sorted by retailer and seller; those of one retailer and seller
\* stay in the order of their earliest rows.
Predictions(points) ==
    LET groups == {<<p.retailer, p.sellerId, p.listing>> : p \in points}
        rows(g)  == {p \in points : p.listing = g[3] /\ p.sellerId = g[2]}
        known(g) == \E p \in rows(g) : /\ QualifiesForCalculations(p)
                                       /\ p.observedAt < now /\ p.createdAt < now
    IN  {[retailer |-> g[1], sellerId |-> g[2], listing |-> g[3],
          first |-> Earliest(rows(g)),
          status |-> IF known(g) THEN "PREDICTED" ELSE "INSUFFICIENT_DATA",
          price |-> IF known(g) THEN PredictedPrice[g[3]] ELSE None,
          confidence |-> IF known(g) THEN PredictedConfidence ELSE None] : g \in groups}

\* RecommendationService for one variant.
InputWith(points, history) ==
    InputFromHistory(history, PredictionForCurrent(Predictions(points), history.current),
                     UpcomingEvents, now)

InputOf(points) == InputWith(points, History(points))

-----------------------------------------------------------------------------
(* Properties.                                                             *)

(* What the comparison says of its choice is so (select_lowest_verified and
   _explain_selection, whose sort key and explanation are written apart): no
   available offer is cheaper than the winner, the key named is one on which
   the winner is strictly better than every other available offer it ties with
   on the keys before, and "only available offer" means there is no other. *)
ExplanationIsTrue ==
    \A answer \in {Comparison.variant[v] : v \in Variants} :
        LET chosen == answer.selection
            winner == chosen.winner
            others == {o \in answer.offers : IsAvailable(o) /\ o # winner}
            key(o) == <<o.payable, o.displayed, AvailabilityRank(o.availability),
                        0 - SellerQuality(o.seller)>>
            named  == CASE chosen.criterion = "verified_effective_price" -> 1
                        [] chosen.criterion = "displayed_price"          -> 2
                        [] chosen.criterion = "availability"             -> 3
                        [] chosen.criterion = "seller_quality"           -> 4
                        [] OTHER                                         -> 5
            beats(best, other) ==   \* better on a key up to the one named, or equal on all
                \/ \E k \in 1..4 : /\ k <= named
                                   /\ best[k] < other[k]
                                   /\ \A j \in 1..(k - 1) : best[j] = other[j]
                \/ named = 5 /\ best = other
        IN  IF chosen.criterion = "no_applicable_offer" THEN winner = None /\ others = {}
            ELSE /\ chosen.only <=> others = {}
                 /\ \A o \in others : beats(key(winner), key(o))

(* A product shown as fresh is fresh everywhere: every variant has a listing,
   every listing an observation, and of every seller of a listing the newest
   observation is inside the fresh window (aggregate_freshness applied to
   offers and again to variants, over the newest row per seller). *)
FreshMeansAllFresh ==
    Comparison.freshness.status = "fresh" =>
        \A v \in Variants :
            /\ \E l \in listings : l.variant = v
            /\ \A l \in {m \in listings : m.variant = v} :
                  /\ \E s \in snapshots : s.listing = l.id
                  /\ \A s \in snapshots : s.listing = l.id =>
                        \E t \in snapshots : /\ t.listing = l.id /\ t.sellerId = s.sellerId
                                             /\ now - t.observedAt <= FreshWithin

ProductPoints == {PointsOf(v) : v \in Variants}

(* The history of a variant, once stale, stays stale whatever is observed
   later, and so does that of the product once all its variants were observed:
   variant_freshness combines all stored points, of which one is too old for
   ever, unlike the comparison, which reads the newest per seller.  A variant
   without observations makes the product stale only until its first. *)
HistoryStaysStale ==
    [][/\ \A v \in Variants :
            \A points \in {PointsOf(v)}, later \in {PointsOf(v)'} :
                HistoryFreshness(points, now).status = "stale"
                => HistoryFreshness(later, now').status = "stale"
       /\ \A points \in {ProductPoints}, later \in {ProductPoints'} :
            ComputeProduct(points, now).status = "stale" /\ {} \notin points
            => ComputeProduct(later, now').status = "stale"]_vars

\* The points with the displayed price of the current observation replaced.
Repriced(points, current, price) ==
    (points \ {current}) \cup {[current EXCEPT !.displayed = price, !.effective = None]}

Eagerness(decision) == CASE decision = "BUY_NOW" -> 3
                         [] decision = "WATCH"   -> 2
                         [] decision = "WAIT"    -> 1
                         [] OTHER                -> 0

\* So much lower that no average rounded to a whole amount hides it: by two or
\* more with the default settings.
MarkedlyLower(price, than) ==
    /\ price < than
    /\ (100 - MinAboveAveragePercent) * (than - price) >= 100 + MinAboveAveragePercent

(* Had the current observation been markedly cheaper and all else the same,
   the advice would not be more reluctant: not WATCH or WAIT for BUY_NOW, not
   WAIT for WATCH, nor none at all.  The price enters the percentile, the low,
   both averages, the trend and the predicted saving at once (rules.py,
   history.py).  A single paisa is not enough: window_average rounds before
   percent_above divides, and 21.00 is 5% above the rounded mean of 19.00 and
   itself where 21.01 is not. *)
CheaperIsNeverWorse ==
    \A v \in Variants :
        LET points     == PointsOf(v)
            advice(ps) == {Recommend(in).decision : in \in {InputOf(ps)}}
        IN  \A current \in {History(points).current}, given \in advice(points) :
                current # None /\ given # "INSUFFICIENT_DATA" =>
                    \A price \in {p \in LowerPrices : MarkedlyLower(p, AnalysisPrice(current))} :
                        \A then \in advice(Repriced(points, current, price)) :
                            Eagerness(then) >= Eagerness(given)

UnusedReasons == {"PRED_UNUSED_MISSING", "PRED_UNUSED_INSUFFICIENT",
                  "PRED_UNUSED_NO_PRICE", "PRED_UNUSED_LOW_CONFIDENCE"}

(* Every decision cites a rule that fired, WATCH included, which the engine
   reaches by exhaustion and not by a rule (recommend, the last branch): the
   three percentile bands leave no gap the weak and neutral rules miss.  No
   answer states a saving beside a reason why the prediction was not used, and
   none says buy now beside a saving worth waiting for (_expected_saving,
   _reasons and the wait rules are computed apart). *)
EveryDecisionIsExplained ==
    \A v \in Variants :
        \A in \in {InputOf(PointsOf(v))} : \A answer \in {Recommend(in)} :
            /\ answer.triggered # {}
            /\ answer.decision = "WAIT" => answer.triggered # {"WAIT_RISING_TREND"}
            /\ answer.saving = None \/ answer.reasons \cap UnusedReasons = {}
            /\ answer.saving # None /\ answer.decision = "BUY_NOW" =>
                  100 * answer.saving < MinSavingsPercent * in.price

(* The price a recommendation is about is on offer: its observation is one
   the comparison of the same variant lists, unless a later observation of
   the same listing and seller was not verified (the history drops LOW rows
   and takes the newest of all listings, the comparison keeps LOW rows and
   takes the newest of each). *)
CurrentIsOnOffer ==
    \A v \in Variants :
        LET current == History(PointsOf(v)).current IN
        current # None =>
            \/ \E o \in VariantOffers(v, listings, snapshots) : o.id = current.id
            \/ \E s \in snapshots : /\ s.listing = current.listing
                                    /\ s.sellerId = current.sellerId
                                    /\ s.observedAt > current.observedAt
                                    /\ ~QualifiesForCalculations(s)

=============================================================================
