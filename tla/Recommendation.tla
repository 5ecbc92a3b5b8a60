--------------------------- MODULE Recommendation ---------------------------
(***************************************************************************)
(* The BUY_NOW / WAIT / WATCH decision (app/recommendation: rules, engine) *)
(* for one variant.  An evaluator returns the set of the rules that fired; *)
(* the wording of the reasons is left out, which rule a reason cites is    *)
(* not.                                                                    *)
(*                                                                         *)
(* An input is a record: price (None without a current observation),       *)
(* qualifying (number of observations), freshness, percentile, low,        *)
(* averageShort and averageLong (metrics of PriceHistory, the windows of   *)
(* 30 and 90 days), trend, prediction (None or status, price, confidence   *)
(* in percent) and events, a set of records start, days, status, source,   *)
(* confidence, id.                                                         *)
(***************************************************************************)
EXTENDS PriceHistory

CONSTANTS
    BuyPercentileMax, BuyStrongPercentileMax, WaitPercentileMin,
    NearLowPercent, NearLowStrongPercent,
    MinSavingsPercent, MinAboveAveragePercent, MinPredictionConfidence,
    UpcomingHorizon, MinObservations        \* RecommendationConfig

ASSUME ThresholdsAreOrdered ==
    /\ BuyStrongPercentileMax <= BuyPercentileMax
    /\ BuyPercentileMax < WaitPercentileMin
    /\ NearLowStrongPercent <= NearLowPercent
    /\ {BuyPercentileMax, BuyStrongPercentileMax, WaitPercentileMin, NearLowPercent,
        NearLowStrongPercent, MinSavingsPercent, MinAboveAveragePercent} \subseteq Nat
    /\ MinObservations \in Nat \ {0}

-----------------------------------------------------------------------------

\* quantize_money of num / den: half up, to a whole unit of the amounts.
RoundHalfUp(num, den) == (2 * num + den) \div (2 * den)

IsKnown(metric) == metric.status = "available"

AverageOf(metric) == RoundHalfUp(metric.value.num, metric.value.den)

PercentileAtMost(metric, bound) ==
    IsKnown(metric) /\ AtMostPercent(metric.value.num, metric.value.den, bound)
PercentileAtLeast(metric, bound) ==
    IsKnown(metric) /\ AtLeastPercent(metric.value.num, metric.value.den, bound)

IsNearHistoricalLow(in, percent) ==
    /\ in.price # None /\ IsKnown(in.low)
    /\ in.price <= RoundHalfUp(AnalysisPrice(in.low.value) * (100 + percent), 100)

\* predicted_savings: None when the prediction is not below the price.
PredictedSavings(price, predicted) ==
    IF price = None \/ predicted = None THEN None
    ELSE IF price <= 0 \/ predicted >= price THEN None
    ELSE price - predicted

SavingsAreMaterial(in, predicted) ==
    LET amount == PredictedSavings(in.price, predicted) IN
    amount # None /\ AtLeastPercent(100 * amount, in.price, MinSavingsPercent)

\* Nearest credible event inside the horizon; inferred windows never count.
IsCredible(event) ==
    /\ event.status = "before_event"
    /\ event.source # "observed_price_inference"
    /\ event.confidence \in {"high", "medium"}
    /\ event.days <= UpcomingHorizon

SelectCredibleUpcoming(events) ==
    LET credible == {e \in events : IsCredible(e)}
        before(e, f) == \/ e.days < f.days
                        \/ e.days = f.days /\ e.start < f.start
                        \/ e.days = f.days /\ e.start = f.start /\ e.id < f.id
    IN  IF credible = {} THEN None
        ELSE CHOOSE e \in credible : \A f \in credible : f = e \/ before(e, f)

-----------------------------------------------------------------------------
(* The rules.                                                              *)

\* evaluate_gates, in the order of the code: the first one names the reason.
GateNames == <<"no_current_price", "stale_data", "missing_data", "insufficient_history">>

Gates(in) ==
    {gate \in 1..4 : \/ gate = 1 /\ in.price = None
                     \/ gate = 2 /\ in.freshness = "stale"
                     \/ gate = 3 /\ in.freshness = "missing"
                     \/ gate = 4 /\ in.qualifying < MinObservations}

\* evaluate_prediction_usability: the rules that say why it is not used;
\* the prediction is used when none fires.
PredictionUnused(prediction) ==
    IF prediction = None THEN {"PRED_UNUSED_MISSING", "WATCH_PREDICTION_MISSING"}
    ELSE IF prediction.status # "PREDICTED" THEN {"PRED_UNUSED_INSUFFICIENT"}
    ELSE IF prediction.price = None THEN {"PRED_UNUSED_NO_PRICE"}
    ELSE IF prediction.confidence = None \/ prediction.confidence < MinPredictionConfidence
         THEN {"PRED_UNUSED_LOW_CONFIDENCE", "WATCH_PREDICTION_LOW_CONFIDENCE"}
    ELSE {}

PredictionUsed(in) == PredictionUnused(in.prediction) = {}
UsedPrice(in)      == IF PredictionUsed(in) THEN in.prediction.price ELSE None

AtOrBelowAverages(in) ==
    /\ in.price # None /\ IsKnown(in.averageShort) /\ IsKnown(in.averageLong)
    /\ in.price <= AverageOf(in.averageShort)
    /\ in.price <= AverageOf(in.averageLong)

BuyRules(in) ==
    LET favorable == PercentileAtMost(in.percentile, BuyPercentileMax)
        nearLow   == IsNearHistoricalLow(in, NearLowPercent)
        below     == AtOrBelowAverages(in)
        fires == [BUY_FAVORABLE_PERCENTILE |-> favorable,
                  BUY_STRONG_PERCENTILE |->
                      PercentileAtMost(in.percentile, BuyStrongPercentileMax),
                  BUY_NEAR_HISTORICAL_LOW |-> nearLow,
                  BUY_STRONG_NEAR_HISTORICAL_LOW |->
                      IsNearHistoricalLow(in, NearLowStrongPercent),
                  BUY_BELOW_AVERAGES |-> below,
                  BUY_PREDICTION_NO_MATERIAL_SAVINGS |->
                      PredictionUsed(in) /\ ~SavingsAreMaterial(in, UsedPrice(in)),
                  BUY_FALLING_TREND |->
                      in.trend = "falling" /\ (favorable \/ nearLow \/ below)]
    IN  {rule \in DOMAIN fires : fires[rule]}

StronglyFavorable(buy) ==
    \/ "BUY_STRONG_PERCENTILE" \in buy
    \/ "BUY_STRONG_NEAR_HISTORICAL_LOW" \in buy
    \/ "BUY_FAVORABLE_PERCENTILE" \in buy /\ "BUY_NEAR_HISTORICAL_LOW" \in buy
    \/ "BUY_FAVORABLE_PERCENTILE" \in buy /\ "BUY_BELOW_AVERAGES" \in buy

\* Mutant: being near the low is no weak sign.
MutWeaklyFavorable(buy) ==
    /\ ~StronglyFavorable(buy)
    /\ buy \cap {"BUY_FAVORABLE_PERCENTILE", "BUY_BELOW_AVERAGES"} # {}

WeaklyFavorable(buy) ==
    /\ ~StronglyFavorable(buy)
    /\ buy \cap {"BUY_FAVORABLE_PERCENTILE", "BUY_NEAR_HISTORICAL_LOW",
                 "BUY_BELOW_AVERAGES"} # {}

\* Mutant: a price far below the average counts as far from it.
MutMateriallyAbove(in, metric) ==
    /\ in.price # None /\ IsKnown(metric)
    /\ LET gap == in.price - AverageOf(metric) IN
       AtLeastPercent(100 * (IF gap < 0 THEN 0 - gap ELSE gap), AverageOf(metric),
                      MinAboveAveragePercent)

\* percent_above(price, average) >= min_above_average_percent.
MateriallyAbove(in, metric) ==
    /\ in.price # None /\ IsKnown(metric)
    /\ AverageOf(metric) > 0
    /\ AtLeastPercent(100 * (in.price - AverageOf(metric)), AverageOf(metric),
                      MinAboveAveragePercent)

WaitRules(in, buy) ==
    LET nearLow == buy \cap {"BUY_NEAR_HISTORICAL_LOW",
                             "BUY_STRONG_NEAR_HISTORICAL_LOW"} # {}
        unfavorable == PercentileAtLeast(in.percentile, WaitPercentileMin) /\ ~nearLow
        above == /\ MateriallyAbove(in, in.averageShort)
                 /\ IsKnown(in.averageLong) => MateriallyAbove(in, in.averageLong)
        event == /\ SelectCredibleUpcoming(in.events) # None
                 /\ ~StronglyFavorable(buy)
        fires == [WAIT_UNFAVORABLE_PERCENTILE |-> unfavorable,
                  WAIT_ABOVE_AVERAGES |-> above,
                  WAIT_PREDICTED_SAVINGS |-> SavingsAreMaterial(in, UsedPrice(in)),
                  WAIT_UPCOMING_SALE |-> event,
                  WAIT_RISING_TREND |->
                      in.trend = "rising" /\ (unfavorable \/ above \/ event)]
    IN  {rule \in DOMAIN fires : fires[rule]}

WaitEvidence(wait) == wait \ {"WAIT_RISING_TREND"} # {}

WatchRules(in, buy, wait) ==
    LET waits    == WaitEvidence(wait)
        strongly == StronglyFavorable(buy)
        weakEvent(e) == /\ e.status = "before_event"
                        /\ \/ e.confidence = "low"
                           \/ e.source = "observed_price_inference"
                           \/ e.days > UpcomingHorizon
        fires == [WATCH_CONFLICTING_SIGNALS |-> strongly /\ waits,
                  WATCH_NEUTRAL_HISTORY |->
                      /\ IsKnown(in.percentile)
                      /\ ~PercentileAtMost(in.percentile, BuyPercentileMax)
                      /\ ~PercentileAtLeast(in.percentile, WaitPercentileMin)
                      /\ ~strongly /\ ~waits,
                  WATCH_WEAK_FAVORABLE |-> WeaklyFavorable(buy) /\ ~waits,
                  WATCH_EVENT_NOT_CREDIBLE |->
                      /\ \E e \in in.events : weakEvent(e)
                      /\ SelectCredibleUpcoming(in.events) = None
                      /\ ~waits,
                  WATCH_NEUTRAL_TREND |-> in.trend = "stable" /\ ~strongly /\ ~waits]
    IN  {rule \in DOMAIN fires : fires[rule]}

-----------------------------------------------------------------------------
(* The decision.                                                           *)

\* _recommendation_confidence, in hundredths of a percent.
Score(in, conflict, decision) ==
    LET points(metric, n) == IF IsKnown(metric) THEN n ELSE 0
        sum == (IF in.price # None THEN 2000 ELSE 0)
               + points(in.percentile, 1500) + points(in.low, 1000)
               + points(in.averageShort, 1000) + points(in.averageLong, 1000)
               + (IF in.trend # "insufficient_history" THEN 500 ELSE 0)
               + (CASE in.freshness = "fresh" -> 1500 [] in.freshness = "aging" -> 700
                    [] OTHER -> 0)
               + (IF PredictionUsed(in) THEN 10 * in.prediction.confidence ELSE 0)
               + (IF SelectCredibleUpcoming(in.events) # None THEN 500 ELSE 0)
        mixed == IF conflict THEN RoundHalfUp(3 * sum, 4) ELSE sum
    IN  IF decision = "INSUFFICIENT_DATA" THEN RoundHalfUp(mixed, 2) ELSE mixed

\* _expected_saving: what a usable prediction promises.
ExpectedSaving(in) == PredictedSavings(in.price, UsedPrice(in))

\* _reasons: the rules cited, and why the prediction was not used.
Reasons(cited, unused) ==
    cited \cup (unused \ {"WATCH_PREDICTION_MISSING", "WATCH_PREDICTION_LOW_CONFIDENCE"})

\* RecommendationEngine.recommend; triggered is the set of the fired rules that
\* the decision cites.
Recommend(in) ==
    LET gates  == Gates(in)
        unused == PredictionUnused(in.prediction)
        buy    == BuyRules(in)
        wait   == WaitRules(in, buy)
        conflict == StronglyFavorable(buy) /\ WaitEvidence(wait)
        watch  == WatchRules(in, buy, wait)
        decision == IF gates # {}                  THEN "INSUFFICIENT_DATA"
                    ELSE IF conflict               THEN "WATCH"
                    ELSE IF WaitEvidence(wait)     THEN "WAIT"
                    ELSE IF StronglyFavorable(buy) THEN "BUY_NOW"
                    ELSE "WATCH"
        cited  == IF decision = "INSUFFICIENT_DATA" THEN {GateNames[gate] : gate \in gates}
                  ELSE IF decision = "WAIT"         THEN wait
                  ELSE IF decision = "BUY_NOW"      THEN buy
                  ELSE IF watch # {}                THEN watch
                  ELSE unused
    IN  [decision |-> decision,
         insufficient |-> IF gates = {} THEN None ELSE GateNames[Min(gates)],
         triggered |-> cited,
         reasons  |-> Reasons(cited, unused),
         saving   |-> ExpectedSaving(in),
         score    |-> Score(in, conflict, decision)]

\* input_from_variant_history.  The freshness is that of the current
\* observation, not the summary of the history.
InputFromHistory(history, prediction, events, asOf) ==
    LET current == history.current IN
    [price        |-> IF current = None THEN None ELSE AnalysisPrice(current),
     qualifying   |-> history.qualifying,
     freshness    |-> IF current = None THEN "missing"
                      ELSE ClassifyFreshness(current.observedAt, asOf),
     percentile   |-> history.percentile,
     low          |-> history.low,
     averageShort |-> history.averageShort,
     averageLong  |-> history.averageLong,
     trend        |-> history.trend,
     prediction   |-> prediction,
     events       |-> events]

\* _prediction_for_current: the first prediction of the retailer and seller
\* of the current observation, for this variant.
PredictionForCurrent(predictions, current) ==
    LET match == {p \in predictions : /\ p.retailer = current.retailer
                                      /\ p.sellerId = current.sellerId}
    IN  IF current = None \/ match = {} THEN None
        ELSE First(match, LAMBDA p, q : Earlier(p.first, q.first))

=============================================================================
