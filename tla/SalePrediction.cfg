SPECIFICATION Spec
CONSTANTS
    None = None
    FreshWithin = 0
    StaleAfter = 1
    MinAverage = 1
    MinExtrema = 1
    MinVolatility = 2
    MinPercentile = 2
    MinTrend = 2
    StablePercent = 2
    Workers = {w1}
    Offers <- MCOffers
    Prices = {100, 80}
    Confidences = {"high"}
    Curated <- MCCurated
    Announced <- MCAnnounced
    IdOf <- MCIdOf
    DropPercent = 10
    MinListings = 1
    MaxGap = 1
    MinSaleStats = 1
    HighConfidenceListings = 3
    MediumConfidenceListings = 2
    Timings <- MCTimings
    MaxSnapshots = 3
    MaxTime = 3
    Week = 1
    Month = 2
    Quarter = 3
    MinTarget = 1
    MinTrainRows = 1
    MinValidationRows = 1
    MinTestRows = 1
    TrainPercent = 70
    ValidationPercent = 15
INVARIANT SplitIsChronological
PROPERTY FeaturesAreFrozen
\* Time ends, and the observations are bounded.
CHECK_DEADLOCK FALSE
