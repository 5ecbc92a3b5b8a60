---------------------------- MODULE MCSaleWindows ----------------------------
(* One product with a brand and no category, offered by two sellers of one
   listing at the first retailer and by one at the second.  Here a
   single drop makes a window, and a second one at the same instant only raises
   its confidence.  A curated sale runs over the first days, and another one, of
   a brand that the product is not of, over the last.  A transaction begins when
   it observes. *)
EXTENDS SaleWindows

Offer(n, listing, seller, retailer) ==
    [id |-> n, listing |-> listing, sellerId |-> seller, retailer |-> retailer,
     brand |-> "b", category |-> None]

MCOffers == {Offer(1, 1, 0, "r1"), Offer(2, 1, 1, "r1"), Offer(3, 2, 0, "r2")}

MCTimings == {<<0, 0>>, <<1, 1>>}

Sale(retailer, brand, start, end) ==
    [retailer |-> retailer, category |-> None, brand |-> brand, start |-> start, end |-> end,
     source |-> "manual_curation", confidence |-> "high", by |-> None]

MCCurated == {Sale("r1", None, 0, 1), Sale(None, "c", 2, 3)}

Symmetry == Permutations(Workers)
=============================================================================
