SPECIFICATION MatchSpec
CONSTANTS
    None = None
    Listings <- MCListings
    Scores = {4000, 9500}
    Unusable = {"-"}
    ShortIsbns = {}
    Inside <- MCInside
    InsideColor <- MCInsideColor
    Alike <- MCAlike
    TitleHigh = 8200
    TitleMedium = 6000
    EmbeddingHigh = 8600
    EmbeddingMedium = 7200
    SameMin = 7800
    PossibleMin = 5200
    ReviewMin = 3400
    Weight <- MCWeight
INVARIANTS
    SimilarityNeverMerges
    UnilateralEvidenceIsNeutral
    VerdictIsSymmetric
    SharedIdentifierNeverSeparates
CHECK_DEADLOCK FALSE
