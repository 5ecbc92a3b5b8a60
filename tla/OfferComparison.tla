--------------------------- MODULE OfferComparison ---------------------------
(***************************************************************************)
(* What the price comparison computes: the payable price of an offer, the  *)
(* freshness of its observation, the order of the offers of one variant    *)
(* and the offer named cheapest (app/pricing: effective, freshness,        *)
(* ranking, engine).  The module has no state: it defines what these       *)
(* functions return, for the modules that hold the observations.           *)
(*                                                                         *)
(* Amounts are integers (paise), a missing value is None, and instants are *)
(* integers in one unit of time.  An offer is a record                     *)
(*   id, variant, retailer (its position in slug order), observedAt,       *)
(*   displayed, mrp, delivery, platform, availability, confidence, seller, *)
(*   promotions (adjustments: kind, amount, eligibility, and no, a number  *)
(*   of their own, so that two equal ones both count);                     *)
(* BuildOffer has what the comparison shows of it.                         *)
(***************************************************************************)
EXTENDS Integers, SequencesExt

CONSTANTS
    None,           \* an absent amount, observation, confidence or seller
    FreshWithin,    \* PricingConfig.fresh_within_hours, in the unit of time
    StaleAfter      \* PricingConfig.stale_after_hours, in the unit of time

ASSUME WindowsAreOrdered ==
    /\ FreshWithin \in Nat /\ StaleAfter \in Nat
    /\ FreshWithin <= StaleAfter

\* The head of the list that sorting the set by that order returns.
First(S, Before(_, _)) == CHOOSE x \in S : \A y \in S : y = x \/ Before(x, y)

-----------------------------------------------------------------------------
(* Adjustments and the payable price.                                      *)

Promotional == {"coupon", "payment_discount", "cashback"}
Fees        == {"delivery_fee", "platform_fee"}

FeeAdjustment(kind, amount) ==
    [kind |-> kind, amount |-> amount,
     eligibility |-> IF amount = None THEN "unavailable" ELSE "verified_eligible"]

\* The saving on the list price: shown to the user, part of no payable price.
DisplayedDiscount(offer) ==
    LET known  == offer.mrp # None /\ offer.displayed # None
        amount == IF ~known THEN None
                  ELSE IF offer.displayed >= offer.mrp THEN 0
                  ELSE offer.mrp - offer.displayed
    IN  [kind |-> "displayed_discount", amount |-> amount,
         eligibility |-> IF known THEN "verified_eligible" ELSE "unavailable"]

Adjustments(offer) ==
    offer.promotions \cup {DisplayedDiscount(offer),
                           FeeAdjustment("delivery_fee", offer.delivery),
                           FeeAdjustment("platform_fee", offer.platform)}

AffectsEffectivePrice(adj) ==
    /\ adj.eligibility = "verified_eligible"
    /\ adj.amount # None
    /\ adj.kind \in Promotional \cup Fees

\* compute_effective_price; with unverified it also counts every promotion
\* that is not known to be ineligible.
EffectivePrice(displayed, adjustments, unverified) ==
    LET counts(adj) == /\ adj.amount # None
                       /\ \/ AffectsEffectivePrice(adj)
                          \/ unverified /\ adj.kind \in Fees
                          \/ /\ unverified /\ adj.kind \in Promotional
                             /\ adj.eligibility # "ineligible"
        signed(adj) == IF adj.kind \in Fees THEN adj.amount ELSE 0 - adj.amount
        total       == displayed + SumFunction([adj \in {a \in adjustments : counts(a)} |->
                                                   signed(adj)])
    IN  IF displayed = None THEN None
        ELSE IF total < 0 THEN 0 ELSE total

PriceKind(offer) ==
    IF offer.displayed # None /\ \E adj \in Adjustments(offer) : AffectsEffectivePrice(adj)
    THEN "verified_effective" ELSE "displayed_only"

IsAvailable(offer) == offer.availability \in {"in_stock", "limited_stock"}

CanWinVerifiedRanking(offer) == IsAvailable(offer) /\ offer.displayed # None

SellerQuality(seller) ==
    IF seller = None THEN 0
    ELSE 1 + (IF seller.active THEN 1 ELSE 0) + (IF seller.firstParty THEN 2 ELSE 0)

-----------------------------------------------------------------------------
(* Freshness.                                                              *)

\* An observation of the future (clock skew) counts as fresh.
ClassifyFreshness(observedAt, asOf) ==
    IF observedAt = None                     THEN "missing"
    ELSE IF asOf - observedAt <= FreshWithin THEN "fresh"
    ELSE IF asOf - observedAt <= StaleAfter  THEN "aging"
    ELSE "stale"

\* Of the number of stale observations the summary keeps whether there is one.
OfferFreshness(observedAt, asOf) ==
    LET status == ClassifyFreshness(observedAt, asOf) IN
    [status |-> status, observedAt |-> observedAt, anyStale |-> status = "stale"]

\* aggregate_freshness of a set of summaries, those of offers or of variants.
AggregateFreshness(items) ==
    LET seen     == {i \in items : i.observedAt # None}
        statuses == {i.status : i \in items}
        anyStale == \E i \in items : i.anyStale
        status   == IF items = {}                                   THEN "missing"
                    ELSE IF "missing" \in statuses /\ seen = {}     THEN "missing"
                    ELSE IF "stale" \in statuses \/ anyStale        THEN "stale"
                    ELSE IF "missing" \in statuses                  THEN "stale"
                    ELSE IF "aging" \in statuses                    THEN "aging"
                    ELSE "fresh"
    IN  [status     |-> status,
         observedAt |-> IF seen = {} THEN None ELSE Max({i.observedAt : i \in seen}),
         anyStale   |-> anyStale]

\* resolve_offer_confidence: every weakness of the data costs one level,
\* a missing observation two, and no level is below low.
OfferConfidence(offer, asOf) ==
    LET levels    == <<"high", "medium", "low">>
        start     == IF offer.confidence = None THEN 3
                     ELSE CHOOSE i \in 1..3 : levels[i] = offer.confidence
        freshness == ClassifyFreshness(offer.observedAt, asOf)
        unsafe    == {adj \in offer.promotions :
                         /\ adj.kind \in Promotional
                         /\ adj.eligibility \notin {"verified_eligible", "unavailable"}}
        steps     == (CASE freshness = "stale" -> 1 [] freshness = "missing" -> 2 [] OTHER -> 0)
                     + Cardinality({w \in 1..4 :
                           \/ w = 1 /\ offer.displayed = None
                           \/ w = 2 /\ SellerQuality(offer.seller) = 0
                           \/ w = 3 /\ offer.delivery = None
                           \/ w = 4 /\ unsafe # {}})
    IN  IF start + steps > 3 THEN "low" ELSE levels[start + steps]

\* _build_offer: an offer as the comparison shows it.  An estimate that says
\* no more than the verified price is not shown.
BuildOffer(offer, asOf) ==
    LET verified  == EffectivePrice(offer.displayed, Adjustments(offer), FALSE)
        estimated == EffectivePrice(offer.displayed, Adjustments(offer), TRUE)
    IN  [id              |-> offer.id,
         retailer        |-> offer.retailer,
         displayed       |-> offer.displayed,
         delivery        |-> offer.delivery,
         availability    |-> offer.availability,
         seller          |-> offer.seller,
         payable         |-> verified,
         estimated       |-> IF estimated = verified THEN None ELSE estimated,
         priceKind       |-> PriceKind(offer),
         freshness       |-> OfferFreshness(offer.observedAt, asOf),
         shownConfidence |-> OfferConfidence(offer, asOf)]

-----------------------------------------------------------------------------
(* Ranking.                                                                *)

\* A key that may be missing is two: the missing ones come last.
IsMissing(amount) == IF amount = None THEN 1 ELSE 0
OrZero(amount)    == IF amount = None THEN 0 ELSE amount

VerifiedPrice(offer) == IF CanWinVerifiedRanking(offer) THEN offer.payable ELSE None

AvailabilityRank(availability) ==
    CASE availability = "in_stock"      -> 0
      [] availability = "limited_stock" -> 1
      [] availability = "out_of_stock"  -> 3
      [] OTHER                          -> 2

\* Mutant: the displayed price is compared before the payable one.
MutRankKey(offer) ==
    <<IsMissing(offer.displayed), OrZero(offer.displayed),
      IsMissing(VerifiedPrice(offer)), OrZero(VerifiedPrice(offer)),
      AvailabilityRank(offer.availability), 0 - SellerQuality(offer.seller),
      IsMissing(offer.delivery), OrZero(offer.delivery),
      offer.retailer, offer.id>>

\* ranking_sort_key: lower is better, compared from the left.
RankKey(offer) ==
    <<IsMissing(VerifiedPrice(offer)), OrZero(VerifiedPrice(offer)),
      IsMissing(offer.displayed), OrZero(offer.displayed),
      AvailabilityRank(offer.availability), 0 - SellerQuality(offer.seller),
      IsMissing(offer.delivery), OrZero(offer.delivery),
      offer.retailer, offer.id>>

\* The order of the ranked list, which is read from its front only.
RanksBefore(a, b) ==
    LET x == RankKey(a)
        y == RankKey(b)
    IN  \E i \in DOMAIN x : /\ x[i] < y[i]
                            /\ \A j \in 1..(i - 1) : x[j] = y[j]

\* _explain_selection: the first key on which the winner differs from the
\* next eligible offer; a winner without a rival is called the only available
\* offer.
Explanation(winner, rivals) ==
    LET next == First(rivals, RanksBefore) IN
    [winner    |-> winner,
     only      |-> rivals = {},
     criterion |->
        IF rivals = {} THEN IF winner.priceKind = "verified_effective"
                            THEN "verified_effective_price" ELSE "displayed_price"
        ELSE IF winner.payable # next.payable           THEN "verified_effective_price"
        ELSE IF winner.displayed # next.displayed       THEN "displayed_price"
        ELSE IF winner.availability # next.availability THEN "availability"
        ELSE IF SellerQuality(winner.seller) # SellerQuality(next.seller)
        THEN "seller_quality"
        ELSE "delivery"]

\* select_lowest_verified: the first ranked offer that can win.
SelectLowestVerified(offers) ==
    LET eligible == {o \in offers : CanWinVerifiedRanking(o)}
        winner   == First(eligible, RanksBefore)
    IN  IF eligible = {}
        THEN [winner |-> None, only |-> FALSE, criterion |-> "no_applicable_offer"]
        ELSE Explanation(winner, {o \in eligible : o.id # winner.id})

CompareVariant(offers, asOf) ==
    LET built == {BuildOffer(o, asOf) : o \in offers} IN
    [offers    |-> built,
     selection |-> SelectLowestVerified(built),
     freshness |-> AggregateFreshness({o.freshness : o \in built})]

\* compare_product: variants one by one, their summaries combined.
CompareProduct(offersOf, variants, asOf) ==
    LET compared == [v \in variants |-> CompareVariant(offersOf[v], asOf)]
    IN  [variant   |-> compared,
         freshness |-> AggregateFreshness({compared[v].freshness : v \in variants})]

-----------------------------------------------------------------------------
(* The offers of a variant (PriceComparisonService).                       *)

\* Mutant: the newest row of a listing, whoever sells.
MutLatestPerSeller(snapshots) ==
    {s \in snapshots : ~\E t \in snapshots : /\ t.listing = s.listing
                                             /\ t.observedAt > s.observedAt}

\* latest_per_seller_for_retailer_products: DISTINCT ON (listing, seller),
\* newest first.  Observations of one listing and seller never share an instant.
LatestPerSeller(snapshots) ==
    {s \in snapshots : ~\E t \in snapshots : /\ t.listing = s.listing
                                             /\ t.sellerId = s.sellerId
                                             /\ t.observedAt > s.observedAt}

ListingWithoutSnapshot(listing) ==
    [id |-> 0 - listing.id, variant |-> listing.variant, retailer |-> listing.retailer,
     observedAt |-> None, displayed |-> None, mrp |-> None, delivery |-> None,
     platform |-> None, availability |-> "unknown", confidence |-> None,
     seller |-> None, promotions |-> {}]

OfferFromSnapshot(listing, s) ==
    [id |-> s.id, variant |-> listing.variant, retailer |-> listing.retailer,
     observedAt |-> s.observedAt, displayed |-> s.displayed, mrp |-> s.mrp,
     delivery |-> s.delivery, platform |-> s.platform, availability |-> s.availability,
     confidence |-> s.confidence, seller |-> s.seller, promotions |-> s.promotions]

VariantOffers(variant, listings, snapshots) ==
    UNION {LET latest == {s \in LatestPerSeller(snapshots) : s.listing = listing.id} IN
           IF latest = {} THEN {ListingWithoutSnapshot(listing)}
           ELSE {OfferFromSnapshot(listing, s) : s \in latest}
           : listing \in {l \in listings : l.variant = variant}}

=============================================================================
