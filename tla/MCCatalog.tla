------------------------------ MODULE MCCatalog ------------------------------
(* Small instances of Catalog for TLC. *)
EXTENDS Catalog, TLC

CONSTANTS s1, s2, s3, skuA, skuB, gtin, ean, shop, title

\* Sellers: one with an id, and the retailer itself.
Shop      == Described(shop, FALSE)
Own       == Described(Nobody, TRUE)

Acme == [slug |-> "acme", name |-> "Acme"]

Offer(sku, idents, brand, d, t, priced) ==
    [do |-> "discover", sku |-> sku, idents |-> idents, title |-> title,
     brand |-> brand, seller |-> d, at |-> t, priced |-> priced,
     bySlug |-> TRUE]
Observe(do, sku, d, t, priced) ==
    [do |-> do, sku |-> sku, idents |-> <<>>, title |-> title, brand |-> Nobody,
     seller |-> d, at |-> t, priced |-> priced,
     bySlug |-> TRUE]

\* The retailer's row has another slug than its adapter's id.
ByName(o) == [o EXCEPT !.bySlug = FALSE]

\* Two skus of one title; two identifiers met in either order; one brand under
\* two slugs; a retailer found by its name; observations of one listing at
\* three times.
MCOperations ==
    {Offer(skuA, <<gtin, ean>>, Acme, Shop, 1, TRUE),
     Offer(skuB, <<ean, gtin>>, [Acme EXCEPT !.slug = "acme-in"], Own, 1, TRUE),
     ByName(Offer(skuA, <<>>, Nobody, Nobody, 2, FALSE)),
     Observe("price", skuA, Own, 3, TRUE),
     Observe("availability", skuA, Shop, 2, TRUE)}

MCMaxOps == [s \in Sessions |-> IF s = s1 THEN 2 ELSE 1]
==============================================================================
