SPECIFICATION Spec
CONSTANTS
    None = None
    FreshWithin = 0
    StaleAfter = 1
    MinAverage = 1
    MinExtrema = 1
    MinVolatility = 2
    MinPercentile = 2
    MinTrend = 2
    StablePercent = 2
    Workers = {w1, w2}
    Offers <- MCOffers
    Prices = {100, 80}
    Confidences = {"high"}
    Curated <- MCCurated
    Announced = {}
    DropPercent = 10
    MinListings = 1
    MaxGap = 1
    MinSaleStats = 1
    HighConfidenceListings = 3
    MediumConfidenceListings = 2
    Timings <- MCTimings
    MaxSnapshots = 4
    MaxTime = 3
SYMMETRY Symmetry
INVARIANTS
    WindowsStayJustified
    WindowsAreStoredOnce
    SaleStatsIgnoreRepeats
    DetectedSalesAreOver
CHECK_DEADLOCK FALSE
