SPECIFICATION Spec
CONSTANTS
    None = None
    FreshWithin = 0
    StaleAfter = 1
    MinAverage = 1
    MinExtrema = 1
    MinVolatility = 2
    MinPercentile = 2
    MinTrend = 2
    StablePercent = 2
    BuyPercentileMax = 50
    BuyStrongPercentileMax = 30
    WaitPercentileMin = 70
    NearLowPercent = 5
    NearLowStrongPercent = 2
    MinSavingsPercent = 5
    MinAboveAveragePercent = 5
    MinPredictionConfidence = 50
    UpcomingHorizon = 1
    MinObservations = 2
    Variants <- MCVariants
    Catalogue <- MCCatalogue
    Observed <- MCObserved
    SaleEvents <- MCSaleEvents
    PredictedPrice <- MCPredictedPrice
    PredictedConfidence = 80
    ShortWindow = 2
    LongWindow = 3
    UnitsPerDay = 1
    LowerPrices <- MCLowerPrices
    MaxSeller = 1
    MaxSnapshots = 3
    MaxTime = 2
INVARIANTS
    ExplanationIsTrue
    FreshMeansAllFresh
    CheaperIsNeverWorse
    EveryDecisionIsExplained
    CurrentIsOnOffer
PROPERTY HistoryStaysStale
CHECK_DEADLOCK FALSE
