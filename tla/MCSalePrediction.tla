-------------------------- MODULE MCSalePrediction --------------------------
(* One product with a brand, offered by two sellers of one listing.  Three
   curated sales begin one after the other and overlap at the end; here one
   drop makes an inferred one.  Two more are curated later, if at all.  Rows of one
   start are ordered by their ends, inferred ones up and curated ones down. *)
EXTENDS SalePrediction

Offer(n, seller) ==
    [id |-> n, listing |-> 1, sellerId |-> seller, retailer |-> "r1", brand |-> "b",
     category |-> None]

MCOffers == {Offer(1, 0), Offer(2, 1)}

Sale(retailer, start, end) ==
    [retailer |-> retailer, category |-> None, brand |-> None, start |-> start,
     end |-> end, source |-> "manual_curation", confidence |-> "high", by |-> None]

MCTimings == {0, 1} \X {0, 1}

MCCurated == {Sale("r1", 1, 1), Sale(None, 2, 3), Sale("r1", 3, 3)}

MCAnnounced == {Sale(None, 1, 2), Sale("r1", 2, 2)}

MCRows == [retailer : {None, "r1"}, category : {None}, brand : {None, "b"},
           start : 0..MaxTime, end : 0..MaxTime,
           source : {"manual_curation", "observed_price_inference"},
           confidence : {"low", "medium", "high"}, by : Workers \cup {None}]

MCIdOf == [e \in MCRows |->
             10 * (IF e.source = "manual_curation" THEN MaxTime - e.end ELSE e.end)
             + (IF e.source = "manual_curation" THEN 4 ELSE 0)
             + (IF e.brand = None THEN 2 ELSE 0) + (IF e.retailer = None THEN 1 ELSE 0)]
=============================================================================
