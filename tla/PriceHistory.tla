---------------------------- MODULE PriceHistory ----------------------------
(***************************************************************************)
(* What the historical price intelligence computes from the stored         *)
(* observations of one variant (app/pricing/history.py): window averages,  *)
(* extrema, percentile, volatility, the change against the previous        *)
(* observation of the same listing and seller, and the trend.              *)
(*                                                                         *)
(* A point is a stored observation: id, listing, sellerId, observedAt,     *)
(* createdAt (the database's stamp of the row), displayed, effective (None *)
(* when not recorded), confidence.  A metric that cannot be computed has   *)
(* the status "insufficient_history", the code of the reason and the value *)
(* None.                                                                   *)
(* Ratios stay unevaluated: a metric carries numerator and denominator,    *)
(* and AtMostPercent and AtLeastPercent compare what the code rounds.      *)
(***************************************************************************)
EXTENDS OfferComparison

CONSTANTS
    MinAverage, MinExtrema, MinVolatility, MinPercentile, MinTrend,
                    \* PricingConfig.min_observations_for_*
    StablePercent   \* PricingConfig.trend_stable_percent

ASSUME MinimaAreAllowed ==
    /\ {MinAverage, MinExtrema, MinVolatility, MinPercentile, MinTrend} \subseteq Nat
    /\ MinAverage >= 1 /\ MinExtrema >= 1
    /\ MinVolatility >= 2 /\ MinPercentile >= 2 /\ MinTrend >= 2
    /\ StablePercent >= 0

-----------------------------------------------------------------------------

AnalysisPrice(p) == IF p.effective # None THEN p.effective ELSE p.displayed

QualifiesForCalculations(p) == p.confidence \in {"high", "medium"}

\* Mutant: points in the order in which their rows were stored.
MutEarlier(p, q) == \/ p.createdAt < q.createdAt
                    \/ p.createdAt = q.createdAt /\ p.id < q.id

\* _sort_key: by observation time, then by insertion.
Earlier(p, q) == \/ p.observedAt < q.observedAt
                 \/ /\ p.observedAt = q.observedAt
                    /\ \/ p.createdAt < q.createdAt
                       \/ p.createdAt = q.createdAt /\ p.id < q.id

\* The last and the first of the list sorted that way.
Latest(points)   == First(points, LAMBDA p, q : Earlier(q, p))
Earliest(points) == First(points, Earlier)

QualifyingObservations(points) == {p \in points : QualifiesForCalculations(p)}

PriceSum(points) == SumFunction([p \in points |-> AnalysisPrice(p)])

Insufficient(code) == [status |-> "insufficient_history", code |-> code, value |-> None]
Available(value)   == [status |-> "available", code |-> None, value |-> value]
Ratio(num, den)    == [num |-> num, den |-> den]

\* quantize_ratio(num / den) <= bound and >= bound: rounded half up to four
\* decimals.
AtMostPercent(num, den, bound)  == 20000 * num < (20000 * bound + 1) * den
AtLeastPercent(num, den, bound) == 20000 * num + den >= 20000 * bound * den

\* The common first step of the metrics that need a number of observations.
BelowMinimum(n, noneCode) ==
    Insufficient(IF n = 0 THEN noneCode ELSE "below_minimum_observation_count")

WindowPoints(points, asOf, days) ==
    {p \in points : asOf - days <= p.observedAt /\ p.observedAt <= asOf}

WindowAverage(points, asOf, days) ==
    LET inWindow == WindowPoints(points, asOf, days)
        n        == Cardinality(inWindow)
    IN  IF n < MinAverage THEN BelowMinimum(n, "no_observations_in_window")
        ELSE Available(Ratio(PriceSum(inWindow), n))

\* historical_low and historical_high: the earliest point of the extreme price.
\* The sign is 1 for the low and -1 for the high.
Extremum(points, sign) ==
    LET n == Cardinality(points) IN
    IF n < MinExtrema THEN BelowMinimum(n, "no_qualifying_observations")
    ELSE Available(First(points, LAMBDA p, q :
            \/ sign * AnalysisPrice(q) > sign * AnalysisPrice(p)
            \/ AnalysisPrice(q) = AnalysisPrice(p) /\ Earlier(p, q)))

HistoricalLow(points)  == Extremum(points, 1)
HistoricalHigh(points) == Extremum(points, -1)

\* The share of the observations that cost no more than the current one.
CurrentPercentile(points, current) ==
    IF current = None THEN Insufficient("no_current_price")
    ELSE IF Cardinality(points) < MinPercentile
    THEN Insufficient("below_minimum_observation_count")
    ELSE Available(Ratio(100 * Cardinality({p \in points :
                                 AnalysisPrice(p) <= AnalysisPrice(current)}),
                         Cardinality(points)))

\* price_volatility: the sample variance, whose root the code returns.
Variance(points) ==
    LET n   == Cardinality(points)
        sum == PriceSum(points)
        sq  == SumFunction([p \in points |-> AnalysisPrice(p) * AnalysisPrice(p)])
    IN  IF n < MinVolatility THEN BelowMinimum(n, "no_qualifying_observations")
        ELSE Available(Ratio(n * sq - sum * sum, n * (n - 1)))

\* _baseline_for: the last earlier point of the same listing and seller.
BaselineFor(points, current) ==
    LET earlier == {p \in points : /\ p.listing = current.listing
                                   /\ p.sellerId = current.sellerId
                                   /\ Earlier(p, current)}
    IN  IF earlier = {} THEN None ELSE Latest(earlier)

\* percentage_change and detect_price_drop.
PriceChange(points, current) ==
    LET baseline == IF current = None THEN None ELSE BaselineFor(points, current)
        metric   == IF current = None                   THEN Insufficient("no_current_price")
                    ELSE IF baseline = None             THEN Insufficient("no_comparison_baseline")
                    ELSE IF AnalysisPrice(baseline) = 0 THEN Insufficient("zero_baseline_price")
                    ELSE Available(Ratio(
                            100 * (AnalysisPrice(current) - AnalysisPrice(baseline)),
                            AnalysisPrice(baseline)))
    IN  [change   |-> metric,
         baseline |-> baseline,
         drop     |-> IF metric.status = "available"
                      THEN AnalysisPrice(current) < AnalysisPrice(baseline) ELSE None]

\* historical_trend: the least-squares slope of price against time, as the
\* change it implies over the observed span in percent of the first price.
Trend(points) ==
    LET n     == Cardinality(points)
        first == Earliest(points)
        x(p)  == p.observedAt - first.observedAt
        y(p)  == AnalysisPrice(p)
        sx  == SumFunction([p \in points |-> x(p)])
        sy  == PriceSum(points)
        sxy == SumFunction([p \in points |-> x(p) * y(p)])
        sxx == SumFunction([p \in points |-> x(p) * x(p)])
        den == n * sxx - sx * sx
        num == (n * sxy - sx * sy) * x(Latest(points)) * 100
        stable(change) == AtMostPercent(change, den * y(first), StablePercent)
    IN  IF n < MinTrend                        THEN "insufficient_history"
        ELSE IF den = 0                        THEN "insufficient_history"
        ELSE IF y(first) = 0                   THEN "insufficient_history"
        ELSE IF stable(num) /\ stable(0 - num) THEN "stable"
        ELSE IF num > 0                        THEN "rising"
        ELSE "falling"

\* Mutant: only the newest point counts.
MutHistoryFreshness(points, asOf) ==
    IF points = {} THEN OfferFreshness(None, asOf)
    ELSE OfferFreshness(Latest(points).observedAt, asOf)

\* variant_freshness: over every stored point, unverified ones included.
HistoryFreshness(points, asOf) ==
    IF points = {} THEN OfferFreshness(None, asOf)
    ELSE AggregateFreshness({OfferFreshness(p.observedAt, asOf) : p \in points})

\* compute_product: the freshness of a product combines that of its variants,
\* given as the set of the points of each.
ComputeProduct(pointsOf, asOf) ==
    AggregateFreshness({HistoryFreshness(points, asOf) : points \in pointsOf})

\* compute_variant; short and long are the windows of 30 and of 90 days, the
\* two averages other components read.
ComputeVariant(points, asOf, short, long) ==
    LET seen    == QualifyingObservations(points)
        current == IF seen = {} THEN None ELSE Latest(seen)
    IN  [qualifying   |-> Cardinality(seen),
         current      |-> current,
         averageShort |-> WindowAverage(seen, asOf, short),
         averageLong  |-> WindowAverage(seen, asOf, long),
         low          |-> HistoricalLow(seen),
         high         |-> HistoricalHigh(seen),
         percentile   |-> CurrentPercentile(seen, current),
         volatility   |-> Variance(seen),
         change       |-> PriceChange(seen, current),
         trend        |-> Trend(seen),
         freshness    |-> HistoryFreshness(points, asOf)]

=============================================================================
