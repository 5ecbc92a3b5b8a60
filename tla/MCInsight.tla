------------------------------ MODULE MCInsight ------------------------------
(* A product of two variants: the first has two listings of one retailer, the
   second a single listing of another.  Prices are chosen around the
   thresholds: 100 is the low, 105 is within the weak band above it, 140 far
   above; 103, in the weak band nearer to the low, is tried as the
   lower price.  Sellers are numbers, 0 stands for none. *)
EXTENDS Insight

MCVariants == {"v1", "v2"}

MCCatalogue == {[id |-> 1, variant |-> "v1", retailer |-> 1],
                [id |-> 2, variant |-> "v1", retailer |-> 1],
                [id |-> 3, variant |-> "v2", retailer |-> 2]}

Seller(n) == IF n = 0 THEN None ELSE [active |-> TRUE, firstParty |-> n = 1]

Seen(price, effective, delivery, availability, confidence, n, promotions) ==
    [displayed |-> price, effective |-> effective, mrp |-> 150, delivery |-> delivery,
     platform |-> None, availability |-> availability, confidence |-> confidence,
     sellerId |-> n, seller |-> Seller(n), promotions |-> promotions]

\* Two equal coupons.
Coupons(eligibility) ==
    {[kind |-> "coupon", amount |-> 5, eligibility |-> eligibility, no |-> n] : n \in 1..2}

MCObserved == {Seen(100, None, 5, "in_stock", "high", 0, {}),
               Seen(110, 105, None, "limited_stock", "medium", 1, Coupons("verified_eligible")),
               Seen(140, None, 0, "out_of_stock", "high", 0, Coupons("unverified")),
               Seen(105, None, 0, "in_stock", "low", 0, {})}

MCSaleEvents == {[id |-> 1, start |-> 2, end |-> 3, source |-> "manual_curation",
                  confidence |-> "high"],
                 [id |-> 2, start |-> 2, end |-> 4, source |-> "observed_price_inference",
                  confidence |-> "high"]}

MCLowerPrices == {103}

MCPredictedPrice == [l \in 1..3 |-> IF l = 1 THEN 90 ELSE 138]
=============================================================================
