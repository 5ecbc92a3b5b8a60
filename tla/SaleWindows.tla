----------------------------- MODULE SaleWindows -----------------------------
(***************************************************************************)
(* Sale windows inferred from observed price drops, and the sale history   *)
(* read from them (app/sales; the sale_event_refresh job of collectors).   *)
(*                                                                         *)
(* A refresh of one retailer reads that retailer's stored observations,    *)
(* clusters the discounted ones into windows and inserts every window that *)
(* has no row with the same scope and bounds.  No unique index guards the  *)
(* rows, and a refresh sees only rows committed before it looks.           *)
(*                                                                         *)
(* A row of sale_events is a record: retailer, category, brand (None when  *)
(* not constrained), start, end, source, confidence, by (the worker that   *)
(* inserted it, None for a curated row: the identity of the row).  The     *)
(* name of an inferred row is a function of its scope and start.           *)
(***************************************************************************)
EXTENDS PriceHistory

CONSTANTS
    Workers,            \* the workers that may run a refresh
    Offers,             \* listing and seller pairs: listing, sellerId, retailer,
                        \* brand, category
    Prices,             \* displayed prices an observation may have
    Confidences,        \* confidences an observation may have
    Curated,            \* the curated rows of sale_events
    Announced,          \* rows that may be curated later
    DropPercent,        \* SalesConfig.drop_percent_threshold
    MinListings,        \* SalesConfig.min_listings_for_detection
    MaxGap,             \* SalesConfig.max_gap_days, in the unit of time
    MinSaleStats,       \* SalesConfig.min_observations_for_sale_stats
    HighConfidenceListings, MediumConfidenceListings,
    Timings,            \* pairs: how long ago an observation was made and how
                        \* long ago its transaction began when it commits
    MaxSnapshots, MaxTime    \* bounds of the exploration

\* A row of sale_events does not end before it starts, and no price is negative
\* (their check constraints); a curated row is not inferred.  There are finitely
\* many of each.
ASSUME SalesAssumption ==
    /\ IsFiniteSet(Offers) /\ IsFiniteSet(Curated) /\ IsFiniteSet(Announced)
    /\ MaxGap \in Nat /\ MinListings \in Nat /\ MaxTime \in Nat
    /\ Prices \subseteq Nat /\ None \notin Nat
    /\ Timings \subseteq Nat \X Nat
    /\ \A o, q \in Offers : o.id \in Nat /\ (o.id = q.id => o = q)
    /\ \A e \in Curated \cup Announced :
          /\ e.start \in Int /\ e.end \in Int /\ e.start <= e.end
          /\ e.source # "observed_price_inference"
    /\ None \notin {"before_event", "during_event", "after_event"}

VARIABLES
    snapshots,          \* rows of price_snapshots
    events,             \* committed rows of sale_events
    pending,            \* the rows a refresh has inserted and not committed, or None
    now,
    late,               \* history: a series got an observation older than its newest
    overlapped          \* history: two refreshes with new rows ran at the same time

vars == <<snapshots, events, pending, now, late, overlapped>>

-----------------------------------------------------------------------------
(* Detection.                                                              *)

SameSeries(p, q) == p.listing = q.listing /\ p.sellerId = q.sellerId

\* Twice the median, so that it stays an integer.
DoubledMedian(points) ==
    LET n == Cardinality(points)
        below(p) == {q \in points :
                        \/ AnalysisPrice(q) < AnalysisPrice(p)
                        \/ AnalysisPrice(q) = AnalysisPrice(p) /\ Earlier(q, p)}
        ordered(k) == CHOOSE p \in points : Cardinality(below(p)) = k - 1
    IN  AnalysisPrice(ordered((n + 1) \div 2)) + AnalysisPrice(ordered(n \div 2 + 1))

\* Mutant: the baseline is the median of the whole series.
MutPrior(p, qualifying) == {q \in qualifying : SameSeries(p, q)}

Prior(p, qualifying) == {q \in qualifying : SameSeries(p, q) /\ Earlier(q, p)}

\* _discounted_observations
Discounted(points) ==
    LET qualifying == {p \in points : QualifiesForCalculations(p)}
        drops(p)   == LET baseline == DoubledMedian(Prior(p, qualifying)) IN
                      /\ baseline > 0
                      /\ 100 * (baseline - 2 * AnalysisPrice(p)) >= DropPercent * baseline
    IN  {p \in qualifying : Prior(p, qualifying) # {} /\ drops(p)}

DetectionConfidence(count) ==
    IF count >= HighConfidenceListings        THEN "high"
    ELSE IF count >= MediumConfidenceListings THEN "medium"
    ELSE "low"

\* The runs of a set of discounted points: a run begins where the distance
\* from the point before exceeds the gap.
Runs(points) ==
    LET begins(p) == ~\E q \in points : /\ Earlier(q, p)
                                        /\ p.observedAt - q.observedAt <= MaxGap
        starts    == {p \in points : begins(p)}
        runOf(s)  == {q \in points : /\ ~Earlier(q, s)
                                     /\ ~\E t \in starts : Earlier(s, t) /\ ~Earlier(q, t)}
    IN  {runOf(s) : s \in starts}

\* Mutant: the window is open until the gap has passed.
MutWindowEnd(run) == Max({p.observedAt : p \in run}) + MaxGap

WindowEnd(run) == Max({p.observedAt : p \in run})

\* _cluster and _window_from_cluster for one scope.
WindowsOf(discounted, scope) ==
    LET targets     == {p[scope] : p \in discounted} \ {None}
        ofTarget(t) == {p \in discounted : p[scope] = t}
        listings(run) == Cardinality({<<p.listing, p.sellerId>> : p \in run})
        field(f, t) == IF f = scope THEN t ELSE None
    IN  UNION {{[retailer |-> field("retailer", t), category |-> field("category", t),
                 brand |-> field("brand", t),
                 start |-> Min({p.observedAt : p \in run}), end |-> WindowEnd(run),
                 source |-> "observed_price_inference",
                 confidence |-> DetectionConfidence(listings(run))]
                : run \in {r \in Runs(ofTarget(t)) : listings(r) >= MinListings}}
               : t \in targets}

\* SaleEventDetector.detect
Detect(points) ==
    UNION {WindowsOf(Discounted(points), scope) : scope \in {"retailer", "category", "brand"}}

\* sale_price_points_for_retailer: the history query has no limit here.
PointsOfRetailer(r) == {p \in snapshots : p.retailer = r}

Scope(e) == <<e.retailer, e.category, e.brand>>

\* Mutant: a row with another confidence is another window.
MutEquivalent(e, w) ==
    /\ Scope(e) = Scope(w) /\ e.start = w.start /\ e.end = w.end
    /\ e.source = w.source /\ e.confidence = w.confidence

\* get_equivalent_inferred_window: name, scope, type, bounds and source.
Equivalent(e, w) ==
    /\ Scope(e) = Scope(w) /\ e.start = w.start /\ e.end = w.end
    /\ e.source = w.source

-----------------------------------------------------------------------------
(* Lifecycle and sale history of one variant; every point below is of that *)
(* variant, and the brand and category are those of its product.           *)

EventStatus(e, at) == IF at < e.start    THEN "before_event"
                      ELSE IF at > e.end THEN "after_event"
                      ELSE "during_event"

\* _apply_status: the rows a status filter selects.
HasStatus(e, status, at) ==
    \/ status = "before_event" /\ e.start > at
    \/ status = "after_event"  /\ e.end < at
    \/ status = "during_event" /\ e.start <= at /\ e.end >= at

\* What a request for sale events filters by: nothing, or a field as in some row;
\* and a status, or None.
NoFilter == [f \in {"retailer", "category", "brand", "source", "status"} |-> None]

Filters == {NoFilter} \cup {[NoFilter EXCEPT ![f] = e[f]] : f \in {"retailer", "brand"}, e \in events}

\* _filtered_stmt
Selects(filters, e, at) ==
    /\ \A f \in {"retailer", "category", "brand", "source"} : filters[f] \in {None, e[f]}
    /\ filters.status # None => HasStatus(e, filters.status, at)

\* list_filtered, count_filtered
FilteredRows(filters, at) == {e \in events : Selects(filters, e, at)}

Upcoming(filters) == [filters EXCEPT !.status = "before_event"]

\* A row as it is shown, with its status at that time.
View(e, at) == [event |-> e, status |-> EventStatus(e, at)]

\* list_events, and list_upcoming with its fixed status: the rows and their
\* number, at one reading of the clock.  Pages are left out.
ListEvents(filters, at) ==
    [items |-> {View(e, at) : e \in FilteredRows(filters, at)},
     total |-> Cardinality(FilteredRows(filters, at))]

ListUpcoming(filters, at) == ListEvents(Upcoming(filters), at)

\* list_applicable_to_product: a product without a brand has the events of no
\* brand only, and likewise its category.
ListApplicable(brand, category) ==
    {e \in events : /\ e.brand = None \/ (brand # None /\ e.brand = brand)
                    /\ e.category = None \/ (category # None /\ e.category = category)}

\* event_applies_to_product
AppliesTo(e, brand, category) ==
    e.brand \in {None, brand} /\ e.category \in {None, category}

\* observations_during_event: both bounds are inside.
During(e, qualifying) ==
    {p \in qualifying : /\ AppliesTo(e, p.brand, p.category)
                        /\ e.retailer \in {None, p.retailer}
                        /\ e.start <= p.observedAt /\ p.observedAt <= e.end}

\* A list of observations, whatever its order: a set of entries, pairs of an
\* observation and what tells its entries apart.
Once(points) == points \X {1}

\* Mutant: an observation counts once per window it is in.
MutInAnyEvent(rows, qualifying) == UNION {During(e, qualifying) \X {e} : e \in rows}

\* in_any_event: every observation once.
InAnyEvent(rows, qualifying) == Once(UNION {During(e, qualifying) : e \in rows})

ListSum(list) == SumFunction([x \in list |-> AnalysisPrice(x[1])])

Mean(list) == (2 * ListSum(list) + Cardinality(list)) \div (2 * Cardinality(list))

\* _stats_from_points.  The amounts are rounded to the unit of money.
SaleStats(list) ==
    LET n      == Cardinality(list)
        prices == {AnalysisPrice(x[1]) : x \in list}
        none   == Insufficient(IF n = 0 THEN "no_observations_during_event"
                               ELSE "below_minimum_observation_count")
    IN  IF n < MinSaleStats THEN [average |-> none, low |-> none, high |-> none]
        ELSE [average |-> Available(Mean(list)),
              low     |-> Available(Min(prices)),
              high    |-> Available(Max(prices))]

\* _baseline
Baseline(list) ==
    LET n == Cardinality(list) IN
    IF n = 0                 THEN Insufficient("no_qualifying_observations")
    ELSE IF n < MinSaleStats THEN Insufficient("below_minimum_observation_count")
    ELSE Available(Mean(list))

PercentBelowBaseline(average, baseline) ==
    IF average.status # "available"       THEN Insufficient(average.code)
    ELSE IF baseline.status # "available" THEN Insufficient(baseline.code)
    ELSE IF baseline.value = 0            THEN Insufficient("zero_baseline_price")
    ELSE Available(Ratio(100 * (baseline.value - average.value), baseline.value))

\* One EventWindowHistory.  Its baseline is every observation outside this
\* event, those of other sale events included.
EventWindow(e, qualifying) ==
    LET inside == During(e, qualifying)
        stats  == SaleStats(Once(inside))
    IN  [stats |-> stats, count |-> Cardinality(inside),
         percent |-> PercentBelowBaseline(stats.average, Baseline(Once(qualifying \ inside)))]

\* compute_variant over the applicable rows.
VariantSaleHistory(points, rows) ==
    LET qualifying == QualifyingObservations(points)
        inside     == InAnyEvent(rows, qualifying)
        none       == Insufficient("no_applicable_events")
        overall    == IF rows = {} THEN [average |-> none, low |-> none, high |-> none]
                      ELSE SaleStats(inside)
        baseline   == Baseline(Once(qualifying \ {x[1] : x \in inside}))
    IN  [windows  |-> [e \in rows |-> EventWindow(e, qualifying)],
         overall  |-> overall,
         baseline |-> baseline,
         percent  |-> PercentBelowBaseline(overall.average, baseline)]

\* compute_product, of a product with one variant:
\* the engine filters the rows of the repository once more.
ProductSaleHistory(points, rows, brand, category, at) ==
    LET applicable == {e \in rows : AppliesTo(e, brand, category)}
    IN  [events  |-> {View(e, at) : e \in applicable},
         variant |-> VariantSaleHistory(points, applicable)]

\* get_product_sale_history: the rows and the observations of a product, read
\* for the engine.
GetProductSaleHistory(brand, category, at) ==
    ProductSaleHistory({p \in snapshots : p.brand = brand /\ p.category = category},
                       ListApplicable(brand, category), brand, category, at)

------------------------------------------------------------------------------

Init ==
    /\ snapshots = {}
    /\ events = Curated
    /\ pending = [w \in Workers |-> None]
    /\ now = 0
    /\ late = FALSE /\ overlapped = FALSE

\* Identifiers are random: they only break ties, so any distinct ones do.
SnapshotId(offer, at) == (MaxTime + 1) * offer.id + at

\* A row of price_snapshots as its readers see it, with the retailer of its
\* listing and the brand and category of its product (_point_from_snapshot).
PointOf(offer, price, confidence, at, began) ==
    [id |-> SnapshotId(offer, at), listing |-> offer.listing,
     sellerId |-> offer.sellerId, retailer |-> offer.retailer,
     brand |-> offer.brand, category |-> offer.category,
     observedAt |-> at, createdAt |-> began, displayed |-> price,
     effective |-> None, confidence |-> confidence]

\* A row is stamped with the instant its transaction began (func.now() of
\* PostgreSQL), and is there for others when the transaction commits.
Observe(offer, price, confidence, at, began) ==
    LET seen == PointOf(offer, price, confidence, at, began)
    IN  /\ Cardinality(snapshots) < MaxSnapshots
        /\ {at, began} \subseteq Nat
        /\ ~\E s \in snapshots : SameSeries(s, seen) /\ s.observedAt = at
        /\ snapshots' = snapshots \cup {seen}
        /\ late' = (late \/ \E s \in snapshots : SameSeries(s, seen) /\ s.observedAt > at)
        /\ UNCHANGED <<events, pending, now, overlapped>>

\* The row that a worker inserts for a window.
RowOf(win, w) ==
    [retailer |-> win.retailer, category |-> win.category, brand |-> win.brand,
     start |-> win.start, end |-> win.end, source |-> win.source,
     confidence |-> win.confidence, by |-> w]

\* run_sale_event_refresh up to the last insert of its transaction: the points
\* are read, the windows detected, and those without a visible row inserted.
Refresh(w, retailer) ==
    LET fresh == {win \in Detect(PointsOfRetailer(retailer)) :
                     ~\E e \in events : Equivalent(e, win)}
    IN  /\ pending[w] = None
        /\ pending' = [pending EXCEPT ![w] = {RowOf(win, w) : win \in fresh}]
        /\ overlapped' = (overlapped \/ /\ fresh # {}
                                        /\ \E v \in Workers : pending[v] \notin {None, {}})
        /\ UNCHANGED <<snapshots, events, now, late>>

Commit(w) ==
    /\ pending[w] # None
    /\ events' = events \cup pending[w]
    /\ pending' = [pending EXCEPT ![w] = None]
    /\ UNCHANGED <<snapshots, now, late, overlapped>>

\* The worker dies or its transaction is rolled back.
Abort(w) ==
    /\ pending[w] # None
    /\ pending' = [pending EXCEPT ![w] = None]
    /\ UNCHANGED <<snapshots, events, now, late, overlapped>>

\* Somebody curates a sale, which may have begun or be over: the application
\* only reads these rows, scripts or people insert them.
Curate(e) ==
    /\ e \notin events /\ events' = events \cup {e}
    /\ UNCHANGED <<snapshots, pending, now, late, overlapped>>

Tick ==
    /\ now < MaxTime
    /\ now' = now + 1
    /\ UNCHANGED <<snapshots, events, pending, late, overlapped>>

Next ==
    \/ \E offer \in Offers, price \in Prices, confidence \in Confidences,
          timing \in Timings :
             Observe(offer, price, confidence, now - timing[1], now - timing[2])
    \/ \E w \in Workers, retailer \in {o.retailer : o \in Offers} : Refresh(w, retailer)
    \/ \E w \in Workers : Commit(w)
    \/ \E w \in Workers : Abort(w)
    \/ \E e \in Announced : Curate(e)
    \/ Tick

Spec == Init /\ [][Next]_vars

-----------------------------------------------------------------------------
(* Properties.                                                             *)

Inferred == {e \in events : e.source = "observed_price_inference"}

Covers(e, f) == Scope(e) = Scope(f) /\ e.start <= f.start /\ f.end <= e.end

(* A stored window is never disowned: as long as every series is observed in
   order, each inferred row lies inside a window that detection over today's
   observations of some retailer finds, although detection starts from nothing
   every time and matches rows by their exact bounds (detect,
   ingest_detected_windows). *)
WindowsStayJustified ==
    ~late => \A e \in Inferred :
                \E r \in {o.retailer : o \in Offers} :
                    \E win \in Detect(PointsOfRetailer(r)) : Covers(win, e)

(* A window is stored once unless two refreshes overlapped: the lookup by
   scope, bounds and source recognises the row of an earlier refresh, also
   when the window has gathered listings, and with them confidence, since. *)
WindowsAreStoredOnce ==
    ~overlapped => \A e, f \in Inferred :
        (Scope(e) = Scope(f) /\ e.start = f.start /\ e.end = f.end) => e = f

(* A sale that goes on is stored as a row per refresh, each inside the next,
   and overlapping refreshes store equal rows.  None of this shows in the
   statistics over all sales of a product: they are those of the outermost rows
   alone, and their low is the lowest of the windows.  They are over the rows
   that apply to the product, by the repository's filter and by the engine's,
   which agree where brand or category is missing (get_product_sale_history,
   compute_variant and its seen set). *)
SaleStatsIgnoreRepeats ==
    \A scope \in {<<o.brand, o.category>> : o \in Offers} :
        LET rows == ListApplicable(scope[1], scope[2])
            points == {p \in snapshots : <<p.brand, p.category>> = scope}
            outermost == {e \in rows :
                            ~\E f \in rows : /\ Covers(f, e)
                                             /\ \/ ~Covers(e, f)
                                                \/ f.by = None /\ e.by # None}
            equal(e) == {f \in outermost : Covers(e, f) /\ Covers(f, e)}
            one == {CHOOSE f \in equal(e) : TRUE : e \in outermost}
            all     == GetProductSaleHistory(scope[1], scope[2], now).variant
            reduced == VariantSaleHistory(points, one)
            lows    == {all.windows[e].stats.low.value : e \in rows} \ {None}
        IN  /\ rows = {e \in events : AppliesTo(e, scope[1], scope[2])}
            /\ all.overall = reduced.overall
            /\ all.baseline = reduced.baseline
            /\ all.overall.low.status = "available" /\ MinSaleStats = 1
                  => all.overall.low.value = Min(lows)

(* A detected sale is over when it is stored: no list of upcoming sales, however
   filtered, shows it, a list shows it as running only at the instant of its
   last observed drop, and the status filter of a list, written in SQL, selects
   the very rows that the list then labels with that status (list_events,
   list_upcoming). *)
DetectedSalesAreOver ==
    \A filters \in Filters :
        LET shown == ListEvents(filters, now).items IN
        /\ \A v \in ListUpcoming(filters, now).items : v.event \notin Inferred
        /\ \A status \in {"before_event", "during_event", "after_event"} :
              ListEvents([filters EXCEPT !.status = status], now).items =
                {v \in shown : v.status = status}
        /\ \A v \in shown :
              (v.event \in Inferred /\ v.status = "during_event") => v.event.end = now

=============================================================================
