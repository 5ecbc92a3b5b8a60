---------------------------- MODULE ListingMatch ----------------------------
(***************************************************************************)
(* The matching engine (app/matching): are two retailers' listings the     *)
(* same product variant?  A comparison is a pure function of the two       *)
(* listings; the state is the pair compared, which may be any.             *)
(*                                                                         *)
(* A listing is a record: identifiers (a set of <<type, value>>), brand,   *)
(* accessoryCategory, attributes (<<key, value>> by position, as the       *)
(* retailer spells them, keys distinct) and title, the record of what the  *)
(* title mentions: ram, storages (in order, RAM sizes left out),           *)
(* generation, colors, words (the kept words a model hint is made of),     *)
(* accessoryWord, primaryWord.  A color is a set of words.  The text       *)
(* similarity of titles and embeddings is an input, in 1/10000: whatever   *)
(* goes into the texts compared may change it.                             *)
(***************************************************************************)
EXTENDS Integers, Sequences, FiniteSets, SequencesExt, FiniteSetsExt

CONSTANTS
    None,
    Listings,           \* the listings that may be compared
    Scores,             \* what a title or an embedding similarity may be
    Unusable,           \* identifier values of which normalization leaves nothing
    ShortIsbns,         \* ISBN values that are not 13 digits long
    Inside,             \* <<a, b>>: text a is a part of text b
    InsideColor,        \* <<a, b>>: color a, as written, is a part of color b
    Alike,              \* <<a, b>>: SequenceMatcher(a, b) is similar enough; the
                        \* ratio depends on the order of its arguments
    TitleHigh, TitleMedium, EmbeddingHigh, EmbeddingMedium,
    SameMin, PossibleMin, ReviewMin,        \* MatchingConfig, in 1/10000
    Weight              \* stage weights: identifiers, attributes, title, embedding

ASSUME ListingAssumption ==
    /\ None \notin Listings
    /\ Listings \subseteq
         [identifiers       : {l.identifiers : l \in Listings},
          brand             : {l.brand : l \in Listings},
          accessoryCategory : BOOLEAN,
          attributes        : {l.attributes : l \in Listings},
          title             : {l.title : l \in Listings}]
    /\ \A l \in Listings : l.attributes \in Seq(ToSet(l.attributes))

VARIABLES left, right, titleScore, embeddingScore

pair == <<left, right, titleScore, embeddingScore>>

-----------------------------------------------------------------------------
(* Stage 1: identifiers.                                                   *)

FamilyOf(type) == CASE type \in {"gtin", "ean", "upc"}       -> "barcode"
                    [] type = "isbn"                         -> "isbn"
                    [] type \in {"mpn", "model_number"}      -> "part"
                    [] OTHER                                 -> "other"

\* A model number attribute is also an identifier.
ModelIdentifiers(listing) ==
    {<<"model_number", attr[2]>> : attr \in {a \in ToSet(listing.attributes) :
                                              a[1] \in {"model_number", "model_no"}}}

\* from_normalized_product
Identifiers(listing) == listing.identifiers \cup ModelIdentifiers(listing)

\* normalized_values_by_family: an ISBN of 13 digits is also a barcode.
FamilyValues(listing, family) ==
    {id[2] : id \in {i \in Identifiers(listing) :
        /\ i[2] \notin Unusable
        /\ \/ FamilyOf(i[1]) = family
           \/ i[1] = "isbn" /\ family = "barcode" /\ i[2] \notin ShortIsbns}}

Families == {"barcode", "isbn", "part", "other"}

IdentifierMatches(l, r) ==
    {f \in Families : FamilyValues(l, f) \cap FamilyValues(r, f) # {}}

\* Mutant: a family only the left listing has is a conflict.
MutIdentifierConflicts(l, r) ==
    {f \in Families : /\ FamilyValues(l, f) # {}
                      /\ FamilyValues(l, f) \cap FamilyValues(r, f) = {}}

\* Mutant: all values of a family must agree.
MutAllIdentifierConflicts(l, r) ==
    {f \in Families : /\ FamilyValues(l, f) # {} /\ FamilyValues(r, f) # {}
                      /\ FamilyValues(l, f) # FamilyValues(r, f)}

IdentifierConflicts(l, r) ==
    {f \in Families : /\ FamilyValues(l, f) # {} /\ FamilyValues(r, f) # {}
                      /\ FamilyValues(l, f) \cap FamilyValues(r, f) = {}}

\* ExactIdentifierStage: None when the stage is not applicable.
IdentifierScore(matches, conflicts) ==
    CASE conflicts # {} -> 0
      [] matches # {} /\ conflicts = {} -> 10000
      [] OTHER -> None

-----------------------------------------------------------------------------
(* Stage 2: attributes.                                                    *)

CanonicalKey(key) ==
    CASE key \in {"color", "colour", "colors", "colours"}              -> "color"
      [] key \in {"ram", "memory", "memory_size"}                      -> "ram"
      [] key \in {"storage", "internal_storage", "rom", "ssd", "hdd"}  -> "storage"
      [] key \in {"size", "screen_size", "display_size"}               -> "size"
      [] key \in {"capacity", "coverage", "volume", "tank"}            -> "capacity"
      [] key \in {"generation", "gen"}                                 -> "generation"
      [] key \in {"variant", "style"}                                  -> "variant"
      [] key \in {"model", "model_number"}                             -> "model"
      [] OTHER                                                         -> key

VariantKeys == {"ram", "storage", "size", "color", "capacity", "generation", "variant"}
IdentityKeys == {"brand", "model"}

\* extract_title_attributes: of several sizes the last that is not the RAM.
TitleAttributes(title) ==
    LET sizes == SelectSeq(title.storages, LAMBDA s : s # title.ram) IN
    [ram        |-> title.ram,
     storage    |-> IF sizes = <<>> THEN None ELSE Last(sizes),
     generation |-> title.generation,
     color      |-> IF title.colors = {} THEN None ELSE title.colors]

\* Where a listing says something under a canonical key (normalize_attribute_map).
Positions(listing, key) ==
    {i \in DOMAIN listing.attributes : CanonicalKey(listing.attributes[i][1]) = key}

\* merge_attributes: the title's, overwritten by the listing's own, of which a
\* later key overwrites an earlier one with the same canonical key.
AttributeOf(listing, key) ==
    LET own   == Positions(listing, key)
        title == TitleAttributes(listing.title)
    IN  IF own # {} THEN listing.attributes[Max(own)][2]
        ELSE IF key \in DOMAIN title THEN title[key] ELSE None

StatedKeys(listing) ==
    {key \in VariantKeys \cup {CanonicalKey(a[1]) : a \in ToSet(listing.attributes)} :
        AttributeOf(listing, key) # None}

ModelHint(listing) ==
    IF AttributeOf(listing, "model") # None THEN AttributeOf(listing, "model")
    ELSE listing.title.words

\* brands_match and models_match: TRUE, FALSE or None.
TextsMatch(a, b) ==
    IF a = None \/ b = None THEN None
    ELSE a = b \/ <<a, b>> \in Inside \/ <<b, a>> \in Inside \/ <<a, b>> \in Alike

\* Colors agree when they share a word or one is a part of the other.
ColorsAgree(a, b) ==
    a = b \/ a \cap b # {} \/ <<a, b>> \in InsideColor \/ <<b, a>> \in InsideColor

ValuesAgree(key, a, b) == IF key = "color" THEN ColorsAgree(a, b) ELSE a = b

Overlapping(l, r) == (StatedKeys(l) \cap StatedKeys(r)) \ IdentityKeys

VariantConflicts(l, r) ==
    {key \in Overlapping(l, r) \cap VariantKeys :
        ~ValuesAgree(key, AttributeOf(l, key), AttributeOf(r, key))}

IsAccessory(listing) ==
    \/ listing.accessoryCategory
    \/ listing.title.accessoryWord /\ ~listing.title.primaryWord

\* Mutant: only an accessory against a product, not the other way round.
MutAccessoryMismatch(l, r) == IsAccessory(l) /\ ~IsAccessory(r)

AccessoryMismatch(l, r) == IsAccessory(l) # IsAccessory(r)

CompareAttributes(l, r) ==
    [brand     |-> TextsMatch(l.brand, r.brand),
     model     |-> TextsMatch(ModelHint(l), ModelHint(r)),
     variants  |-> VariantConflicts(l, r),
     accessory |-> AccessoryMismatch(l, r),
     overlap   |-> Cardinality(Overlapping(l, r) \cap VariantKeys)]

\* NormalizedAttributeStage: without a conflict every overlapping variant key agrees.
AttributeScore(attr) ==
    LET part(match) == CASE match = None -> 1750 [] match -> 3500 [] OTHER -> 0 IN
    IF attr.accessory \/ attr.variants # {} THEN 0
    ELSE IF attr.model = FALSE              THEN 500
    ELSE IF attr.brand = FALSE              THEN 1000
    ELSE part(attr.brand) + part(attr.model) + (IF attr.overlap > 0 THEN 3000 ELSE 0)

-----------------------------------------------------------------------------
(* The decision.                                                           *)

\* weighted_score: the identifier stage counts only when it is applicable.
Composite(identifierScore, attrScore, title, embedding) ==
    LET sum == attrScore * Weight[2] + title * Weight[3] + embedding * Weight[4]
        den == Weight[2] + Weight[3] + Weight[4]
        rounded(n, d) == (2 * n + d) \div (2 * d)
    IN  IF identifierScore = None THEN rounded(sum, den)
        ELSE rounded(sum + identifierScore * Weight[1], den + Weight[1])

Least(a, b)    == IF a < b THEN a ELSE b
Greatest(a, b) == IF a > b THEN a ELSE b

Result(class, method, confidence, score) ==
    [class |-> class, method |-> method, confidence |-> confidence,
     score |-> Least(score, 10000)]

\* Mutant: similar titles and embeddings under one brand are one product.
MutDecideBySimilarity(brand, title, embedding, composite) ==
    IF title >= TitleHigh /\ embedding >= EmbeddingHigh /\ brand = TRUE
    THEN Result("SAME_PRODUCT", "combined", "medium", Greatest(composite, SameMin))
    ELSE Result("DIFFERENT_PRODUCT", "combined", "medium", composite)

\* The tail of decide: no identifier decides and no attribute conflicts.
DecideBySimilarity(brand, title, embedding, composite) ==
    LET bothHigh  == title >= TitleHigh /\ embedding >= EmbeddingHigh
        anyMedium == title >= TitleMedium \/ embedding >= EmbeddingMedium
    IN  CASE bothHigh /\ brand = TRUE ->
                Result("POSSIBLE_MATCH", "combined", "medium", Greatest(composite, PossibleMin))
          [] bothHigh /\ brand = None ->
                Result("NEEDS_REVIEW", "combined", "low", Greatest(composite, ReviewMin))
          [] composite >= PossibleMin /\ anyMedium /\ ~bothHigh ->
                Result("POSSIBLE_MATCH", "combined", "low", composite)
          [] composite >= ReviewMin /\ ~bothHigh
               /\ ~(composite >= PossibleMin /\ anyMedium) ->
                Result("NEEDS_REVIEW", "combined", "low", composite)
          [] OTHER -> Result("DIFFERENT_PRODUCT", "combined", "medium", composite)

\* decide, in the order of its branches.
Decide(l, r, title, embedding) ==
    LET matches   == IdentifierMatches(l, r)
        conflicts == IdentifierConflicts(l, r)
        attr      == CompareAttributes(l, r)
        composite == Composite(IdentifierScore(matches, conflicts), AttributeScore(attr),
                               title, embedding)
        review    == Result("NEEDS_REVIEW", "conflicting_evidence", "medium",
                            Least(Greatest(composite, 4500), 7000))
        differ(method, cap) == Result("DIFFERENT_PRODUCT", method, "high", Least(composite, cap))
    IN  IF conflicts # {} THEN differ("exact_identifier", 2000)
        ELSE IF matches # {} /\ (attr.variants # {} \/ attr.brand = FALSE) THEN review
        ELSE IF attr.accessory THEN differ("normalized_attributes", 2500)
        ELSE IF attr.variants # {} THEN differ("normalized_attributes", 4500)
        ELSE IF matches # {}
             THEN Result("SAME_PRODUCT", "exact_identifier", "high", Greatest(composite, 9000))
        ELSE IF attr.model = FALSE THEN differ("normalized_attributes", 4000)
        ELSE IF attr.brand = FALSE THEN differ("normalized_attributes", 3500)
        ELSE IF attr.brand = TRUE /\ attr.model = TRUE
             THEN Result("SAME_PRODUCT", "normalized_attributes",
                         IF title >= TitleMedium THEN "high" ELSE "medium",
                         Greatest(composite, SameMin))
        ELSE DecideBySimilarity(attr.brand, title, embedding, composite)

-----------------------------------------------------------------------------

\* The candidate; it is compared with one other listing.
MatchInit == left \in Listings /\ right = None /\ titleScore = 0 /\ embeddingScore = 0

\* MatchingEngine.compare
Compare(other, title, embedding) ==
    /\ right = None
    /\ right' = other
    /\ titleScore' = title /\ embeddingScore' = embedding
    /\ UNCHANGED left

MatchNext == \E other \in Listings, title, embedding \in Scores : Compare(other, title, embedding)

MatchSpec == MatchInit /\ [][MatchNext]_pair

Verdict == Decide(left, right, titleScore, embeddingScore)

-----------------------------------------------------------------------------
(* Properties.                                                             *)

(* Similarity of titles and embeddings supports a merge and never makes one:
   if a pair is the same product, it is at any similarity, and a pair told
   apart by a conflict is told apart at any similarity (decide, whose
   composite score mixes all stages). *)
SimilarityNeverMerges ==
    right # None => \A title, embedding \in Scores :
        LET other == Decide(left, right, title, embedding) IN
        /\ (Verdict.class = "SAME_PRODUCT") = (other.class = "SAME_PRODUCT")
        /\ Verdict.method \in {"exact_identifier", "normalized_attributes"}
              => other.class = Verdict.class

WithoutIdentifier(listing, id) == [listing EXCEPT !.identifiers = @ \ {id}]
WithoutAttribute(listing, key) ==
    [listing EXCEPT !.attributes = [i \in DOMAIN @ \ Positions(listing, key) |-> @[i]]]

\* Leaving out an identifier of whose families the other listing has none.
UnilateralIdentifiersAreNeutral ==
    right # None => \A id \in left.identifiers :
        (\A f \in Families : FamilyValues(right, f) # {} =>
              FamilyValues(WithoutIdentifier(left, id), f) = FamilyValues(left, f))
        => Decide(WithoutIdentifier(left, id), right, titleScore, embeddingScore) = Verdict

\* Leaving out an attribute the other listing does not state, unless it also is
\* an identifier or a model name.  The embedded text gets shorter by it, so the
\* similarity of the embeddings may be any other.
UnilateralAttributesAreNeutral ==
    right # None =>
        \A key \in StatedKeys(left) \ (StatedKeys(right) \cup IdentityKeys \cup {"model_no"}),
           embedding \in Scores :
            LET without == Decide(WithoutAttribute(left, key), right, titleScore, embedding) IN
            /\ without.method = Verdict.method
            /\ without.method # "combined" => without.class = Verdict.class
            /\ embedding = embeddingScore => without = Verdict

(* What only one listing states is no evidence: an identifier changes nothing
   in the result (compare_identifiers, with the double family of an ISBN), an
   attribute nothing but the similarity of the embeddings (compare_attributes,
   EmbeddingSimilarityStage), so it makes and prevents no merge and no
   separation that other evidence decides. *)
UnilateralEvidenceIsNeutral ==
    UnilateralIdentifiersAreNeutral /\ UnilateralAttributesAreNeutral

\* The fuzzy comparison of brands and of models gives one answer in both orders.
TextsCompareAlike(l, r) ==
    /\ TextsMatch(l.brand, r.brand) = TextsMatch(r.brand, l.brand)
    /\ TextsMatch(ModelHint(l), ModelHint(r)) = TextsMatch(ModelHint(r), ModelHint(l))

(* Which listing is asked about which matters only to the fuzzy comparison of
   texts (SequenceMatcher): where that gives one answer in both orders, so does
   the engine.  And where it does not, and the titles compare differently as
   well, what an identifier decided in one order is decided so, or left to a
   review, in the other. *)
VerdictIsSymmetric ==
    right # None =>
        /\ TextsCompareAlike(left, right)
              => Decide(right, left, titleScore, embeddingScore) = Verdict
        /\ Verdict.method = "exact_identifier" =>
              \A title \in Scores :
                 Decide(right, left, title, embeddingScore).class
                    \in {Verdict.class, "NEEDS_REVIEW"}

Rank(class) == CASE class = "DIFFERENT_PRODUCT" -> 0 [] class = "NEEDS_REVIEW" -> 1
                 [] class = "POSSIBLE_MATCH" -> 2 [] OTHER -> 3

(* One more identifier in common never drives two listings apart, even where
   they also have different values of that family, as listings with several
   barcodes do, and even where brands or variants disagree. *)
SharedIdentifierNeverSeparates ==
    right # None => \A id \in left.identifiers \cup right.identifiers :
        LET both(listing) == [listing EXCEPT !.identifiers = @ \cup {id}] IN
        Rank(Decide(both(left), both(right), titleScore, embeddingScore).class)
            >= Rank(Verdict.class)

(* Variants are never merged: listings that give one attribute, under the same
   key, different values are not the same product.  (Violated: of the keys
   with one canonical key, like ssd and hdd, only the last is compared.) *)
VariantsAreNeverMerged ==
    right # None /\ Verdict.class = "SAME_PRODUCT" =>
        \A a \in ToSet(left.attributes), b \in ToSet(right.attributes) :
            a[1] = b[1] /\ CanonicalKey(a[1]) \in VariantKeys => a[2] = b[2]

=============================================================================
