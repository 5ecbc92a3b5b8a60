--------------------------- MODULE MCAdapterFleet ---------------------------
(* Two retailers.  Adapter a2 is a second adapter for the retailer of a1,  *)
(* of a kind of its own, so that it can be swapped in while a1's calls are *)
(* under way and can return what belongs to somebody else.                 *)
EXTENDS AdapterFleet, TLC

CONSTANTS amazon, flipkart, a1, a2, b1, phones

MCRetailerOf == (a1 :> amazon @@ a2 :> amazon @@ b1 :> flipkart)
MCConfigured == <<a1, b1>>
MCFamily == (a1 :> "amazon_in" @@ a2 :> "other" @@ b1 :> "flipkart")

MCServes == [a \in Adapters |-> IF a = b1 THEN {} ELSE {phones}]

\* Hits by how they differ from one that is complete.
Plain(id) == [id |-> id, title |-> TRUE, attributes |-> {"latin"}, named |-> FALSE,
              brand |-> "latin", path |-> <<"latin", "absent">>]
Offer(price) == [typed |-> TRUE, buyBox |-> FALSE, price |-> price,
                 basis |-> "absent", inStock |-> TRUE]
Item(id, offers) == [offers |-> offers, group |-> "absent", binding |-> "absent"] @@ Plain(id)
Entry(id, price) == [layout |-> "v1", prices |-> <<"absent", price, "garbled">>,
                     mrp |-> "amount", delivery |-> "nan", stock |-> "in_stock"] @@ Plain(id)
Flat(id, price) == [Entry(id, price) EXCEPT !.layout = "flat"]
Foreign(r) == ProductOf("amazon_in", r, Item("p1", <<Offer("amount")>>))

MCHitLists ==
  ( "priceless" :> << [Item("p1", <<>>) EXCEPT !.title = FALSE],
                      Item("p1", <<Offer("amount"), [Offer("garbled") EXCEPT !.buyBox = TRUE]>>),
                      [Item("p2", <<Offer("amount")>>) EXCEPT !.attributes = {}] >>
 @@ "junk offer" :> << Item("p1", <<Offer("amount")>>),
                       Item("p2", <<[Offer("amount") EXCEPT !.typed = FALSE]>>) >>
 @@ "foreign" :> << Foreign(flipkart), Foreign(amazon) >>
 @@ "full" :> << Flat("p2", "garbled"), [Flat("p1", "amount") EXCEPT !.layout = "none"],
                 Flat("p1", "amount") >>
 @@ "nan" :> << Entry("p1", "amount"), Flat("p2", "amount") >> )

MCAnswers == ( a1 :> {"errors:throttled", "priceless", "junk offer"}
            @@ a2 :> {"5xx", "foreign"}
            @@ b1 :> {"no list", "404", "full", "nan"} )
==============================================================================
