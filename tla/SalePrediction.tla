--------------------------- MODULE SalePrediction ---------------------------
(***************************************************************************)
(* What the sale price model learns from and is asked about (src/ml): the  *)
(* features of a listing at an instant, the labelled examples built from   *)
(* the stored observations and sale events, and their chronological split. *)
(* All of it is computed from the rows of SaleWindows, whose observations  *)
(* go on arriving, late ones too, and whose sale windows go on being       *)
(* inferred and curated.  Booster, metrics and encoding are numerical and  *)
(* left out; module ModelStore has what happens to a trained model.        *)
(*                                                                         *)
(* A feature is None when it is not available.  The features that the      *)
(* calendar alone determines, and the list price, are left out.            *)
(***************************************************************************)
EXTENDS SaleWindows

CONSTANTS
    IdOf,                   \* the identifiers of the rows of sale_events: they are
                            \* random, so they order rows anyhow
    Week, Month, Quarter,   \* the windows of the averages, in the unit of time
    MinTarget,              \* MLConfig.min_target_observations
    MinTrainRows, MinValidationRows, MinTestRows,
    TrainPercent, ValidationPercent     \* MLConfig.*_fraction

ASSUME SplitAssumption ==
    /\ {MinTarget, MinTrainRows, MinValidationRows, MinTestRows} \subseteq Nat \ {0}
    /\ {TrainPercent, ValidationPercent} \subseteq 1..99

-----------------------------------------------------------------------------
(* What was available at an instant.                                       *)

\* Mutant: only the time of observation counts.
MutObservationAvailableAt(p, asOf) == p.observedAt < asOf

ObservationAvailableAt(p, asOf) == p.observedAt < asOf /\ p.createdAt < asOf

ObservationsAvailableAt(points, asOf) ==
    {p \in QualifyingObservations(points) : ObservationAvailableAt(p, asOf)}

\* Announced sales are known beforehand, inferred ones when they are over.
EventScheduleKnownAt(e, asOf) ==
    e.source = "observed_price_inference" => e.end < asOf

CompletedEventsBefore(rows, asOf) == {e \in rows : e.end < asOf}

\* The order of sale events, here and in compute_variant.
Before(e, f) == e.start < f.start \/ (e.start = f.start /\ IdOf[e] <= IdOf[f])

\* known_active_or_upcoming_event: the target if it may be known, or else the
\* first of those that are not over.
KnownEvent(rows, asOf, target) ==
    LET usable(e)  == EventScheduleKnownAt(e, asOf) /\ e.end >= asOf
        candidates == {e \in rows : usable(e)}
    IN  IF target # None /\ usable(target) THEN target
        ELSE IF candidates = {}            THEN None
        ELSE CHOOSE e \in candidates : \A f \in candidates : Before(e, f)

-----------------------------------------------------------------------------
(* FeatureEngineer.build                                                   *)

Applicable(rows, offer) ==
    {e \in rows : /\ AppliesTo(e, offer.brand, offer.category)
                  /\ e.retailer \in {None, offer.retailer}}

\* What the sale history says of the sales that were over: how many of them
\* have statistics, and those of the last one.
PreviousSales(rows, available) ==
    LET stats  == [e \in rows |-> SaleStats(Once(During(e, available)))]
        known  == {e \in rows : stats[e].average.status = "available"}
        latest == CHOOSE e \in known : \A f \in known : Before(f, e)
    IN  [count |-> Cardinality(known),
         price |-> IF known = {} THEN None ELSE stats[latest].average.value,
         low   |-> IF known = {} THEN None ELSE stats[latest].low.value]

Build(points, rows, asOf, target) ==
    LET available  == ObservationsAvailableAt(points, asOf)
        current    == Latest(available)
        applicable == Applicable(rows, current)
        known      == KnownEvent(applicable, asOf, target)
    IN  IF available = {} THEN None
        ELSE [asOf       |-> asOf,
              price      |-> AnalysisPrice(current),
              seller     |-> current.sellerId,
              avgWeek    |-> WindowAverage(available, asOf, Week).value,
              avgMonth   |-> WindowAverage(available, asOf, Month).value,
              avgQuarter |-> WindowAverage(available, asOf, Quarter).value,
              low        |-> HistoricalLow(available).value,
              high       |-> HistoricalHigh(available).value,
              volatility |-> Variance(available).value,
              previous   |-> PreviousSales(CompletedEventsBefore(applicable, asOf), available),
              event      |-> known,
              daysUntil  |-> IF known = None THEN None ELSE Max({0, known.start - asOf})]

-----------------------------------------------------------------------------
(* Training data.                                                          *)

\* listing_group_key, for the one variant.
Group(points, offer) == {p \in points : SameSeries(p, [listing  |-> offer.listing,
                                                       sellerId |-> offer.sellerId])}

\* build_labeled_examples: a sale that a listing was observed in, with what was
\* known of the listing when the sale began.
IsExample(points, rows, offer, e) ==
    /\ e \in Applicable(rows, offer)
    /\ Cardinality(During(e, QualifyingObservations(Group(points, offer)))) >= MinTarget
    /\ ObservationsAvailableAt(Group(points, offer), e.start) # {}

Example(points, rows, offer, e) ==
    [event    |-> e,
     listing  |-> offer.listing,
     sellerId |-> offer.sellerId,
     features |-> Build(Group(points, offer), rows, e.start, e),
     target   |-> DoubledMedian(During(e, QualifyingObservations(Group(points, offer))))]

LabeledExamples(points, rows) ==
    {Example(points, rows, sale[1], sale[2]) :
        sale \in {s \in Offers \X rows : IsExample(points, rows, s[1], s[2])}}

AsOf(x) == x.features.asOf

InsufficientData(code) ==
    [status |-> "INSUFFICIENT_DATA", code |-> code, train |-> {}, validation |-> {}, test |-> {}]

\* Mutant: a fold may come out empty when the fractions leave it no instant.
MutFoldEnds(n, trainPercent, validationPercent) ==
    LET share1 == Max({1, (n * trainPercent) \div 100})
        share2 == Max({share1 + 1, (n * (trainPercent + validationPercent)) \div 100})
    IN  <<share1, Min({share2, n - 1})>>

\* How many of the n instants the first fold has, and the first two together.
FoldEnds(n, trainPercent, validationPercent) ==
    LET share1 == Max({1, (n * trainPercent) \div 100})
        share2 == Max({share1 + 1, (n * (trainPercent + validationPercent)) \div 100})
        end2   == Min({share2, n - 1})
    IN  <<IF share1 >= end2 THEN Max({1, end2 - 1}) ELSE share1, end2>>

\* unique_times[k - 1]
Instant(times, k) == CHOOSE t \in times : Cardinality({u \in times : u <= t}) = k

\* chronological_split
ChronologicalSplit(examples, trainPercent, validationPercent) ==
    LET times  == {AsOf(x) : x \in examples}
        ends   == FoldEnds(Cardinality(times), trainPercent, validationPercent)
        cut(k) == Instant(times, Max({1, k}))
        train      == {x \in examples : AsOf(x) <= cut(ends[1])}
        validation == {x \in examples : cut(ends[1]) < AsOf(x) /\ AsOf(x) <= cut(ends[2])}
        test       == {x \in examples : AsOf(x) > cut(ends[2])}
    IN  IF examples = {} THEN InsufficientData("no_labeled_examples")
        ELSE IF Cardinality(train) < MinTrainRows THEN
                InsufficientData("below_minimum_train_rows")
        ELSE IF Cardinality(validation) < MinValidationRows THEN
                InsufficientData("below_minimum_validation_rows")
        ELSE IF Cardinality(test) < MinTestRows THEN InsufficientData("below_minimum_test_rows")
        ELSE [status |-> "TRAINED", code |-> None,
              train |-> train, validation |-> validation, test |-> test]

\* train, up to the fit.
TrainingSplit == ChronologicalSplit(LabeledExamples(snapshots, events),
                                    TrainPercent, ValidationPercent)

-----------------------------------------------------------------------------
(* Properties.                                                             *)

FeaturesAt(o, points, rows, asOf) == Build(Group(points, o), rows, asOf, None)

\* The features that no row of sale_events is read for.
ButForSales(features) == [features EXCEPT !.previous = None, !.event = None, !.daysUntil = None]

(* Of the past only the sales change: the features of an instant, computed again
   later, differ from those computed then in the previous sales, when a sale that
   was over by that instant has been inferred or curated since, and in the sale to
   come, when one that was not over has been curated since; the prices stay, but
   for rows whose transaction had begun by that instant (their stamp is the
   transaction's) and that come after it (FeatureEngineer.build over
   ml/features/availability.py). *)
FeaturesAreFrozen ==
    [][\A points \in {snapshots'}, rows \in {events'}, asOf \in 1..now, o \in Offers :
          \A was \in {FeaturesAt(o, snapshots, events, asOf)},
             is \in {FeaturesAt(o, points, rows, asOf)} :
                \/ is = was
                \/ \E s \in points \ snapshots : s.createdAt < asOf
                \/ /\ ObservationsAvailableAt(Group(snapshots, o), asOf) # {}
                   /\ ButForSales(is) = ButForSales(was)
                   /\ is.previous # was.previous =>
                        \E e \in rows \ events : e.end < asOf
                   /\ <<is.event, is.daysUntil>> # <<was.event, was.daysUntil>> =>
                        \E e \in (rows \ events) \cap Announced : e.end >= asOf
      ]_<<snapshots, events>>

(* However the fractions are set, every labelled example is in one fold, all of
   a fold are earlier than all of the next, rows of one instant stay together,
   and no fold is empty once there are three instants (chronological_split). *)
SplitIsChronological ==
    LET examples == LabeledExamples(snapshots, events)
        times    == {AsOf(x) : x \in examples}
        before(xs, ys) == \A x \in xs, y \in ys : AsOf(x) < AsOf(y)
    IN  \A trainPercent \in {1, 34, 50, TrainPercent, 99},
           validationPercent \in {1, ValidationPercent, 50, 99} :
            LET split == ChronologicalSplit(examples, trainPercent, validationPercent)
            IN  /\ split.status = "TRAINED" =>
                      /\ split.train \cup split.validation \cup split.test = examples
                      /\ before(split.train, split.validation)
                      /\ before(split.train \cup split.validation, split.test)
                /\ {MinTrainRows, MinValidationRows, MinTestRows} = {1} =>
                      (split.status = "TRAINED" <=> Cardinality(times) >= 3)

=============================================================================
