--------------------------- MODULE MCListingMatch ---------------------------
(* Listings built from every combination of a few identifier sets, brands,
   titles and attribute lists: a book sold under its ISBN or the equal GTIN,
   barcodes that differ, a part number against a model name, storage given as
   two drives, and colors of two words or one word inside another.  Two brands
   are similar in one order and not in the other. *)
EXTENDS ListingMatch

Title(ram, storages, colors, words, accessory) ==
    [ram |-> ram, storages |-> storages, generation |-> None, colors |-> colors,
     words |-> words, accessoryWord |-> accessory, primaryWord |-> FALSE]

Listing(ids, brand, attrs, title) ==
    [identifiers |-> ids, brand |-> brand, accessoryCategory |-> FALSE,
     attributes |-> attrs, title |-> title]

MCIdentifiers == {{}, {<<"gtin", "978">>}, {<<"isbn", "978">>, <<"other", "-">>},
                  {<<"gtin", "890">>, <<"ean", "891">>, <<"mpn", "aurora">>}}

MCAttributes == {<<>>,
                 <<<<"ssd", "512gb">>, <<"hdd", "1tb">>>>,
                 <<<<"ssd", "256gb">>, <<"hdd", "1tb">>>>,
                 <<<<"color", {"blackcurrant", "blue"}>>, <<"model_number", "aurora">>>>}

MCTitles == {Title(None, <<>>, {}, None, FALSE),
             Title("8gb", <<"8gb", "1tb">>, {"blue"}, "aurora 5g", FALSE)}

Case == Title(None, <<"512gb">>, {"black"}, "nova", TRUE)
Novel == Title(None, <<>>, {"black"}, "nova", FALSE)

MCListings == {l \in {Listing(ids, brand, attrs, title) :
                         ids \in MCIdentifiers, brand \in {None, "orchard", "lotus"},
                         attrs \in MCAttributes, title \in MCTitles} :
                  l.brand = "lotus" => Cardinality(l.identifiers) < 2}
              \cup {Listing(ids, "orchard", <<>>, title) :
                        ids \in MCIdentifiers, title \in {Case, Novel}}

MCInside == {<<"aurora", "aurora 5g">>}
MCInsideColor == {<<{"black"}, {"blackcurrant", "blue"}>>}
MCAlike == {<<"orchard", "lotus">>}
MCWeight == <<45, 35, 12, 8>>
=============================================================================
