SPECIFICATION FairSpec
CONSTANTS
    s1 = s1
    s2 = s2
    s3 = s3
    skuA = skuA
    skuB = skuB
    gtin = gtin
    ean = ean
    shop = shop
    title = title
    Sessions = {s1, s2, s3}
    Nobody = Nobody
    Operations <- MCOperations
    MaxOps <- MCMaxOps
INVARIANTS
    OnlyRacesFail
    OnlyRacesOrphan
    EveryPriceWasObserved
    StoredOnce
PROPERTIES
    SessionsEnd
