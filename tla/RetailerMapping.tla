--------------------------- MODULE RetailerMapping ---------------------------
(***************************************************************************)
(* What the Amazon.in and Flipkart adapters make of the hits of a search   *)
(* answer: amazon_in/mapping.py and flipkart/mapping.py turn a native item *)
(* into a RetailerProduct, the adapters' _search_products() skips the      *)
(* items that cannot be turned into one, and normalize_product() reduces a *)
(* RetailerProduct to the shape that the matching compares.                *)
(*                                                                         *)
(* A native amount is one of Nodes, a name the source gives is one of      *)
(* Names.  Raised(family, hit) is what stops the mapping of a hit: None,   *)
(* "invalid" for an InvalidRetailerResponseError, which costs the hit, or  *)
(* "leak" for any other exception, which costs the whole answer.           *)
(***************************************************************************)
EXTENDS Naturals, Sequences, FiniteSets, FiniteSetsExt

CONSTANT None

\* An amount that is missing or readable, text or below zero, the NaN that JSON
\* decoders accept, or one that the models refuse, as its currency is not three
\* letters.
Nodes == {"absent", "amount", "garbled", "nan", "odd_currency"}

\* A label that is missing, one that slugify() can use, and one without a
\* single latin letter or digit, on which it raises.
Names == {"absent", "latin", "other_script"}

\* An entry of offersV2.listings, which may also be no object at all.
Offers == [typed : BOOLEAN, buyBox : BOOLEAN, price : Nodes, basis : Nodes,
           inStock : BOOLEAN]

\* What both sources say of an item: attributes of either of the two places that
\* they are read from, the nodes of a category path.
Described == [id : {None, "p1", "p2"}, title : BOOLEAN, attributes : SUBSET Names,
              named : BOOLEAN, brand : Names, path : Seq(Names)]

Items == [offers : Seq(Offers), group : Names, binding : Names]

\* The layouts that _base_and_shipping knows; a flat entry has no shipping.
Entries == [layout : {"v1", "nested", "flat", "none"}, prices : [1..3 -> Nodes],
            mrp : Nodes, delivery : Nodes, stock : {"in_stock", "out_of_stock", "unknown"}]

------------------------------------------------------------------------------
\* The positions of what is there.
Named(names) == {i \in DOMAIN names : names[i] # "absent"}

LastOf(names) == IF Named(names) = {} THEN "absent" ELSE names[Max(Named(names))]

\* money_amount, _inr_amount: the first amount that cannot be read.  A number
\* that compares with nothing raises an ArithmeticError outside of the try.
ReadingRaises(nodes) ==
    LET bad == {i \in DOMAIN nodes : nodes[i] \in {"garbled", "nan"}}
    IN  IF bad = {}                          THEN None
        ELSE IF nodes[Min(bad)] = "garbled" THEN "invalid"
        ELSE "leak"

------------------------------------------------------------------------------
(* Amazon.in: the price is that of the offer that has the buy box.         *)

TypedOffers(item) == {i \in DOMAIN item.offers : item.offers[i].typed}

\* _buy_box_listing: typed[0] of an empty list when no entry is an object.
BuyBoxLeaks(item) == item.offers # <<>> /\ TypedOffers(item) = {}

BuyBox(item) ==
    LET typed == TypedOffers(item)
        winners == {i \in typed : item.offers[i].buyBox}
    IN  item.offers[Min(IF winners # {} THEN winners ELSE typed)]

\* to_price_observation: the price, then the saving basis.  The currency is
\* only checked when the PriceObservation is built.
AmazonPriceRaises(item) ==
    LET price == BuyBox(item).price
        reading == ReadingRaises(<<price, BuyBox(item).basis>>)
    IN  IF item.offers = <<>>          THEN "invalid"
        ELSE IF BuyBoxLeaks(item)      THEN "leak"
        ELSE IF price = "absent"       THEN "invalid"
        ELSE IF reading # None         THEN reading
        ELSE IF price = "odd_currency" THEN "leak"
        ELSE None

AmazonStock(item) ==
    IF item.offers = <<>> THEN "unknown"
    ELSE IF BuyBox(item).inStock THEN "in_stock" ELSE "out_of_stock"

\* to_attributes: the variation attributes, then colour and size of the product.
AmazonLabels(item) ==
    (item.attributes \ {"absent"}) \cup (IF item.named THEN {"latin"} ELSE {})

\* The end of to_category_path: the browse nodes, or else the binding and the
\* product group.
AmazonCategory(item) ==
    LastOf(IF Named(item.path) # {} THEN item.path ELSE <<item.binding, item.group>>)

------------------------------------------------------------------------------
(* Flipkart: the first of three price fields that is there.                *)

PricesThere(entry) == Named(entry.prices)

DisplayedPrice(entry) == entry.prices[Min(PricesThere(entry))]

\* _base_and_shipping
Delivery(entry) == IF entry.layout = "flat" THEN "absent" ELSE entry.delivery

\* displayed_price, and then the maximum retail price and the delivery charge,
\* of which only the amount is read.
FlipkartPriceRaises(entry) ==
    LET price == DisplayedPrice(entry)
        reading == ReadingRaises(<<price, entry.mrp, Delivery(entry)>>)
    IN  IF PricesThere(entry) = {}     THEN "invalid"
        ELSE IF reading # None         THEN reading
        ELSE IF price = "odd_currency" THEN "leak"
        ELSE None

\* to_attributes: the attributes, then the four fields of the entry itself.
FlipkartLabels(entry) ==
    (entry.attributes \ {"absent"}) \cup (IF entry.named THEN {"latin"} ELSE {})

\* parse_category_path; the root of Flipkart's tree counts as absent.
FlipkartCategory(entry) == LastOf(entry.path)

------------------------------------------------------------------------------
(* to_retailer_product.  A price that cannot be read leaves the product    *)
(* without one; a product needs its identity and its title.                *)

PriceRaises(family, hit) ==
    IF family = "amazon_in" THEN AmazonPriceRaises(hit) ELSE FlipkartPriceRaises(hit)

\* What every mapping needs before anything else.
Identified(family, hit) ==
    hit.id # None /\ (family = "flipkart" => hit.layout # "none")

\* Mutant: the error of an unreadable price is not caught.
MutRaised(family, hit) ==
    IF ~Identified(family, hit)             THEN "invalid"
    ELSE IF PriceRaises(family, hit) # None THEN PriceRaises(family, hit)
    ELSE IF ~hit.title                      THEN "invalid"
    ELSE None

Raised(family, hit) ==
    IF ~Identified(family, hit)               THEN "invalid"
    ELSE IF PriceRaises(family, hit) = "leak" THEN "leak"
    ELSE IF ~hit.title                        THEN "invalid"
    ELSE None

\* The part of a RetailerProduct that normalize_product() can choke on.
ProductOf(family, r, hit) ==
    LET byAmazon == family = "amazon_in" IN
    [retailer |-> r, sku |-> hit.id, brand |-> hit.brand,
     priced   |-> PriceRaises(family, hit) = None,
     stock    |-> IF byAmazon THEN AmazonStock(hit) ELSE hit.stock,
     labels   |-> IF byAmazon THEN AmazonLabels(hit) ELSE FlipkartLabels(hit),
     category |-> IF byAmazon THEN AmazonCategory(hit) ELSE FlipkartCategory(hit)]

\* normalize_product(): the labels, the brand and the last category are
\* slugified, and NormalizedProduct refuses a product without attributes.
Normalizes(product) ==
    /\ product.labels # {}
    /\ "other_script" \notin product.labels \cup {product.brand, product.category}

------------------------------------------------------------------------------
(* _search_products                                                        *)

\* The hits the loop looks at before it has `limit' products.
LookedAt(family, hits, limit) ==
    {i \in DOMAIN hits :
       Cardinality({k \in 1..(i - 1) : Raised(family, hits[k]) = None}) < limit}

SearchLeaks(family, hits, limit) ==
    \E i \in LookedAt(family, hits, limit) : Raised(family, hits[i]) = "leak"

SearchProducts(family, r, hits, limit) ==
    {ProductOf(family, r, hits[i]) :
       i \in {k \in LookedAt(family, hits, limit) : Raised(family, hits[k]) = None}}

------------------------------------------------------------------------------
(* get_product, get_price, get_availability of one SKU                     *)

\* find_item of the items Amazon.in returns, which need not be the one asked
\* for; Flipkart returns one entry, and it is not compared with the request.
Found(family, hits, sku) ==
    {i \in DOMAIN hits : family # "amazon_in" \/ hits[i].id = sku}

LookupRaises(family, operation, hit) ==
    IF operation = "get_product"                     THEN Raised(family, hit)
    ELSE IF ~Identified(family, hit)                 THEN "invalid"
    ELSE IF operation = "get_price"                  THEN PriceRaises(family, hit)
    ELSE IF family = "amazon_in" /\ BuyBoxLeaks(hit) THEN "leak"
    ELSE None
==============================================================================
