# Formal model of price-intelligence-india

TLA+ modules, TLC configurations and TLAPS proofs about the backend of
`price-intelligence-india`: a service that collects product offers from Indian
retailers, keeps their price history and compares, matches and explains them.
Every module is translated from the code under `src/backend/app` and `src/ml`;
`PROJECT.json` maps each definition to its lines.

Contents: 1 the system, 2 the modules, 3 the runs, 4 the proofs, 5 divergences,
6 what is not covered, 7 the plan.

## 1. The system

| Component | State it keeps | Operations | What makes it correct |
|---|---|---|---|
| **Collection tasks and orchestrator** (`workers/tasks.py`, `collectors/`) | `collection_jobs`, `collection_errors`; one session per task; in-memory results | deliver, look up by idempotency key, claim, attempt loop, finalise, commit, acknowledge | only whole, finished runs become visible; a retry leaves evidence; overlapping runs neither deadlock nor contradict their own reports; every message ends |
| **Worker runtime** (`workers/celery_*.py`, `health*.py`) | broker queue, prefetch, time limits, beat schedule | publish, acknowledge late, redeliver, soft and hard time limit | a redelivered message does no harm |
| **Job bodies and ingestion** (`collectors/jobs.py`, `ingest.py`, `mapping.py`) | rows of the catalogue | select listings, fetch, upsert, count item failures | one bad item does not spoil the others |
| **Request pacing** (`retailer_adapters/base/rate_limit.py`) | tokens, refill time, semaphore, pacing lock | acquire, release, cancellation | no slot leaks, the rate is bounded, nobody starves |
| **Adapter executor, fleet, registry** (`retailer_adapters/base/`) | registrations with their last health, enabled flags, registered adapters | run one operation with retries, fan out, sweep, register, replace, enable, disable | a failing retailer stays its own problem; health belongs to the adapter it was measured on; every fan-out returns |
| **Retailer adapters** (`retailer_adapters/<retailer>/`) | an access token per client | authorize, ask, map hits to products | one odd hit does not cost the others |
| **Catalogue and discovery** (`services/product_discovery_service.py`, repositories) | products, variants, identifiers, listings, sellers, price snapshots | check-then-insert upserts by natural keys | one row per natural key under concurrent sessions; a snapshot belongs to the listing it was seen on |
| **Price comparison** (`pricing/`) | none | effective price, freshness, ranking, selection, explanation | the explanation is true of the choice; nothing stale is presented as fresh |
| **Price history** (`pricing/history.py`) | none | qualifying points, window averages, extrema, percentile, trend, freshness | agrees with the comparison about the current price |
| **Recommendation** (`recommendation/`) | none | gates, rules, decision, saving, confidence, reasons | each decision is explained; a lower price never makes the advice more reluctant |
| **Matching** (`matching/`) | none | identifiers, attributes, similarity, decision | similarity alone never merges; what one side alone states decides nothing |
| **Sales** (`sales/`, `services/sale_event_service.py`) | sale events and prices | detect windows, life cycle, filters, history | a window once stored stays justified; repeating the detection neither duplicates rows nor distorts statistics |
| **User data** (`services/watchlist_service.py` and its siblings) | users, watchlist, alerts, target prices, saved products | provision, create, change, delete under concurrency | one row per user and product; a request touches the items of its own identity only, and does what it was answered or dies |
| **Sale price prediction** (`ml/`) | artifact files, `latest.json` | features, labels, split, save, resolve, load | no feature looks into the future; a loaded model is one training's |
| **Authentication** (`auth/`) | signing-key cache of the library | verify a token | external library |
| **HTTP API** (`api/`) | sliding-window counters | route, serialise, limit | at most the configured requests per window |
| **Observability**, **frontend**, **infrastructure** | metrics; client caches; cloud resources | - | - |

How they interact. The beat schedule or the API publishes a Celery message. A
worker process takes it, opens one SQLAlchemy session and runs the
`CollectionOrchestrator` in an event loop. The orchestrator walks the
registered adapters; for each it claims a `collection_jobs` row and runs a job
body, which calls the adapter. The adapter's executor passes the
`TokenBucketRateLimiter` of that retailer, performs the request and retries. The
body writes listings and price snapshots through the ingestion helpers in the
same session. One commit at the end of the task publishes everything; then the
message is acknowledged. The pure parts (comparison, history, matching, sale
history, recommendation, the features of the price model) read the committed
catalogue when a request asks for them. Training scripts write model artifacts
to a directory from which the API process loads them.

What is hard here:

- several workers execute the same idempotency key, and their decisions rest on
  rows read without a lock while flushed rows block each other until the end of
  a whole run;
- a run of many retailers is one transaction without savepoints, so an error, a
  time limit or a lost worker at the last retailer concerns the first one too;
- late acknowledgement delivers a committed run again;
- coroutines share a limiter whose refill, lock, sleep and semaphore are
  separate steps, and may be cancelled at each of them;
- the catalogue, the sale events and the per-user collections are filled by
  check-then-insert from concurrent sessions, some under a unique index and some
  without;
- adapters are registered, replaced and switched while calls through them are
  under way, and what a retailer answers can stop a mapping anywhere;
- the same rows are summarised by services written apart (comparison, history,
  recommendation, sale statistics, features), which must agree about them while
  rows arrive late and out of order;
- model files are written and read one by one, without a lock.

`PROJECT.json` lists each hazard at its line with the properties that cover it,
or the reason why none does.

## 2. The modules

### CollectionTasks

`workers/tasks.py`, `collectors/orchestrator.py`, the two repositories and the
delivery settings of `workers/celery_config.py`. A *task* is one message; the
database is PostgreSQL at READ COMMITTED.

| State | Code |
|---|---|
| `table`, `errors` | committed rows of `collection_jobs` (status, retry_count) and the number of `collection_errors` rows, by idempotency key |
| `lock`, `draft`, `pending` | the open transaction that flushed a row, its uncommitted version, its uncommitted error rows |
| `pc`, `at`, `attempt` | the position in `run` / `_run_one_retailer` / `_execute_with_policy` |
| `job` | the ORM object as the session knows it; an UPDATE writes only the columns that differ from it (`Flushed`) |
| `report` | the statuses in the `CollectionRunResult` so far |
| `deliveries` | how often the broker handed out the message |

Actions, in the order a run meets them: `Deliver` (a worker takes the message;
at most `Concurrency` at once), `Reuse` or `Lookup` (`get_by_idempotency_key`),
`Claim` or `ClaimConflict` (INSERT or UPDATE to RUNNING, waiting for the
transaction that holds the key, or the IntegrityError that ends the run),
`StartAttempt`, then one of `BodyReturns`, `BodyFailsRetry` + `Backoff`,
`BodyFailsForGood`, `BodyRaises`, `BodyPoisonsSession`, and at the end `Commit`
and `Ack`, or `Abort`. `SoftTimeLimit` and `Crash` may strike at any of them;
after a crash the message is delivered again or lost.

A key is a scope and a retailer: job type, product and run key enter the key
through the scope only. Timestamps, durations, messages and metrics are left
out. A job body is represented by its outcome; the rows it writes to the
catalogue are not part of this module.

### RunLedger

The abstract promise to readers of `collection_jobs`: runs decide which keys to
work on, take them one owner at a time, and publish all of them together with a
final status or leave no trace. `CollectionTasks!ImplementsLedger` states that
the collection tasks implement it under the refinement mapping `Ledger` (a key
is decided on from `claim` on, held while its row is locked, and published with
the commit).

### TokenBucket

`TokenBucketRateLimiter` as `AdapterExecutor._run_attempt` uses it. An action is
what one coroutine does between two suspensions: `Acquire` (replenish, then the
semaphore), `Resume` (with a slot given by a releaser), `NextInLine` (with the
pacing lock), `WakeUp` (the sleep under the lock is over), `Release`, and
`CancelBeforeSlot`, `CancelInLine`, `CancelAsleep`. `Tick` moves the clock; a
sleeper may be late by `MaxLate`. One unit of tokens is what one tick refills, so
a request costs `Cost` units and no fractions occur. `asyncio.Semaphore` and
`asyncio.Lock` are external and modelled by how this code uses them.

### Catalog

`ProductDiscoveryService` and the repositories it uses: brands, products with
their variants, identifiers, listings, sellers and price snapshots of one
retailer. A *session* is a search request or a collection run; it does one kind
of work (`discover`, `price`, `availability`), one operation after the other, and
commits or rolls back once.

| State | Code |
|---|---|
| `db` | the committed rows of all tables; a row knows its unique keys, the row it belongs to and, for a snapshot, when and from whom its price was observed |
| `mine`, `touched` | rows a session has flushed; keys of committed listings it has updated |
| `pc`, `op`, `i`, `row`, `next` | the statement a session is at, its operation, the position in the identifiers, the row it is about to insert and where it goes on |
| `variant`, `seller` | the local variables of `_persist_listing` |
| `company` | history: another session was open at the same time |

Each look-up is an action, and each INSERT is one more (`Add`, or `AddFails` when
the key was taken meanwhile), so sessions interleave between them: `UpsertBrand`,
`ResolveByIdentifier`, `ResolveByListing`, `NewProduct`, `AttachIdentifier`,
`UpsertListing` with `TouchListing`, `UpsertSeller`, `PersistSnapshot`, `ShowHit`
for an offer; `UpsertSeller` and `PersistSnapshot` for a price; `ReadLatest` and
`CopyLatest` for an availability. PostgreSQL is external: a statement waits for
the session that holds one of its keys (`Blocked`), and a circle of waits costs
one of them its transaction (`DeadlockVictim`). `Abandon` is everything else that
ends a session: an exception, a time limit, a crash.

Categories are upserted as brands are and are left out; a product and its only
variant are one row, which keeps as history the offer it was made for; a third
slug with random digits needs no key. The retailer's row is there already. An
offer says in `bySlug` whether it has the adapter's id as its slug, or was found
by its name (`_upsert_retailer`): then `ResolveByListing` finds no listing, as it
looks under the slug only.
The UPDATE of a listing is taken to change something (`last_seen_at` does unless
the clock stands still).

### OfferComparison, PriceHistory, Recommendation, Insight

Three modules without state define what the services compute, each from the rows
the one before it reads, and `Insight` holds the rows.

| Module | Code | Defines |
|---|---|---|
| `OfferComparison` | `pricing/effective.py`, `freshness.py`, `ranking.py`, `engine.py`, `price_comparison_service.py` | `EffectivePrice` of the adjustments that are verified and unconditional, `OfferFreshness` and `AggregateFreshness`, `RankKey`, `SelectLowestVerified` with the `Explanation` of the criterion that decided, `CompareVariant`, `CompareProduct`, the newest observation per listing and seller |
| `PriceHistory` | `pricing/history.py` | `QualifyingObservations`, `WindowAverage`, `HistoricalLow`/`High`, `CurrentPercentile`, `Variance`, `PriceChange`, `Trend`, `HistoryFreshness`, `ComputeVariant`, `ComputeProduct` |
| `Recommendation` | `recommendation/rules.py`, `engine.py` | `Gates`, `BuyRules`, `WaitRules`, `WatchRules` as sets of the rules that fire, `Recommend` with decision, triggered rules, expected saving, confidence and reasons |
| `Insight` | the three services and the rows they read | state `listings`, `snapshots`, `now`; actions `DiscoverListing`, `Observe` (an observation may be stored later than it was made, and its id and its `created_at` order need not agree), `Tick` |

Offers, observations and rows are sets, since each list of the code is either
sorted by a key that tells its elements apart, and then read from its front
(`First`, `Latest`, `Earliest`), or only counted and summed; equal adjustments of
an offer are told apart by a number. A freshness summary
keeps of its counts whether anything is stale. Amounts are integers, in paise, and
an average is rounded to one before a rule compares it. Ratios are kept as numerator
and denominator; `AtMostPercent` and `AtLeastPercent` compare them as the
code does, rounded to four decimals of a percent. Which rule a reason cites
is modelled, its wording is not.

### SaleWindows

`sales/detection.py`, `lifecycle.py`, `history.py`, `sale_event_service.py` and
the sale-event job of `collectors`. An observation is discounted when it lies
far enough below the median of what its series held before (`Discounted`);
`Runs` clusters discounted observations by their gaps, `WindowsOf` and `Detect`
make windows of runs.

| State | Code |
|---|---|
| `snapshots`, `events` | committed rows of `price_snapshots` and `sale_events` |
| `pending` | per worker, the rows its refresh has inserted and not committed |
| `now` | the clock of the readers |
| `late`, `overlapped` | history: an observation was older than the newest of its series; two refreshes with new rows ran at once |

Actions: `Observe`, `Refresh` (reads the committed rows, detects, inserts what has
no row of its bounds), `Commit`, `Abort`, `Curate`, `Tick`. The application only
reads curated rows; `Curate` inserts one of `Announced` at any time, as
`scripts/seed_dev_data.py` does for sales that are over, running or to come.
Readers are functions:
`ListEvents` and `ListUpcoming` with every filter, `ProductSaleHistory` with the
statistics per window and over all windows; the lists these average over are sets
of entries, one for each time a point is counted (`Once`). No unique index guards
the rows.

### SalePrediction

Extends `SaleWindows` by what `ml/features`, `ml/training/dataset.py` and
`split.py` compute from the same rows: `Build` gives the features of a listing at
an instant from what was stored and known by then (`ObservationsAvailableAt`,
`KnownEvent`), with sales ordered by their start and then by their random ids
(`Before`, `IdOf`); `LabeledExamples` the examples of the sales that are over,
`ChronologicalSplit` their folds or the reason why there are too few.

### ModelStore

`ml/models/artifact.py`, the training script and the model loading of
`ml/inference`. A training makes its version from the clock, in seconds, writes
three files and then `latest.json`. Actions: `Fit`, `Open` (truncates), `Write`,
`GiveUp`, `Die` for a training; `Resolve`, `Load` (one file), `Predict`, with
`NoModel` in between, for a request; `Tick`. State: `clock`, `files` per version,
`latest`, and the local variables of trainings and requests. The content of a
file is the training that wrote it, or `Torn`.

### ListingMatch

`matching/`: identifier families and their conflicts, attributes with their
aliases and what is read from titles, the composite score, the cascade `Decide`.
The only action, `Compare`, chooses a pair of listings and the two similarities.
Similarity of titles and of embeddings is an input: it is a property of texts
and of a language model, and may change with whatever goes into the texts. So are
the relations of texts: `Inside` and `InsideColor` are ordered pairs of a text and
one that contains it, `Alike` the pairs that `SequenceMatcher` finds similar, in
that order only, since its ratio depends on the order. Its specification is
`MatchSpec`, so that one module can extend it together with the catalogue.

### RetailerMapping, AdapterFleet

`RetailerMapping` has no state: what the Amazon and Flipkart mappings make of a
hit, by how it differs from a complete one. `Raised` says whether a hit becomes a
product, is skipped, or raises something that the search does not catch;
`Normalizes` whether the result survives `normalize_product`.

`AdapterFleet` (`base/execution.py`, `fleet.py`, `registry.py`, `interface.py`,
and the token of the Amazon client) extends it by everything between a
caller and an answer.

| State | Code |
|---|---|
| `regs`, `registry` | every registration ever made, with its adapter and last health; the one that is current for each retailer |
| `enabled` | `_enabled` of each adapter |
| `jobs`, `tasks` | searches, look-ups and health sweeps with the registrations they captured; per adapter the coroutine gathered, its attempt, its request and its result |
| `tokens` | the adapters whose client holds an access token |
| `outcome` | what a finished search or look-up returned |
| `changes` | counts operator calls |

Actions: `Register`, `Unregister`, `SetEnabled`; `StartSearch`, `StartLookup`,
`StartSweep`, `Begin`; for a coroutine `Acquire`, `Authorized`, `Refused`,
`Answered`, `Retry`; `ReturnSearch` and `ReturnSweep`. An action is what one
coroutine does between two suspensions. A search is for a category or for none,
and asks the adapters that serve it (`Serving`). `SearchPage` is the page that
`ProductDiscoveryService.search` cuts out of a finished search.

### UserStore, UserData

`UserStore` is what a client may expect of its watchlist, alerts, target prices
and saved products, and no more than that. A create and a delete take effect in
one step, on items of the request's own identity. A patch has two: it reads its
item (`See`) and later sets the columns that differ from what it read (`Decide`),
so it is not atomic, and one of two patches may be lost in part (see section 5).
`Answer` may come before the effect: what is then told is what the request does,
or it dies and does nothing.

`UserData` is the code: provisioning of the user on the first request under a
savepoint, the look-up, the INSERT that may find its key taken, the UPDATE of
changed columns on an object read before, the DELETE of a row that may be gone,
and one COMMIT or ROLLBACK. Every statement is an action and waits for
transactions that hold its key or row. `Answer` sends an outcome before the commit
or after it: `db/session.py:49-51` commits after the `yield` of a dependency, which
FastAPI runs after the response from release 0.118 on and before it in earlier
ones, and `backend/pyproject.toml:14` allows both. A client may ask for anything in `Asks`:
patches of one column or both, to values read or not. `ImplementsStore` maps the
committed rows, with users replaced by their identities, to the store.

The `MC` module of a module holds its instance for TLC. The theorems are in
`CollectionTasks_proofs`, `TokenBucket_proofs`, `UserData_proofs`,
`Catalog_proofs` (the catalogue and the matching that guards it),
`ModelStore_proofs`, `AdapterFleet_proofs`, `SaleWindows_proofs` (sales and the
examples of the price model) and `Insight_proofs` (comparison, history and
advice).

## 3. The runs

| Run | Instance | Shows |
|---|---|---|
| `collection_tasks` | two tasks with one key set, two retailers, two attempts, two workers, two deliveries each | no PENDING or RUNNING row is ever committed; each committed retry is backed by a `collection_errors` row; reports match the flushed rows; a committed run is complete; tasks wait for each other only along the registration order; the aggregate result matches the rows; the protocol implements `RunLedger`; every message is finished with |
| `token_bucket` | three callers, two slots, burst one, three ticks a request | slots are conserved; the rate is at most doubled; every caller leaves |
| `catalog` | three sessions, the first with two operations; five operations on two skus of one title, two identifiers met in either order, one brand under two slugs, one offer of a retailer found by its name, observations at three times | a session that is alone never violates a key, and its products have their listings, unless the listing was there and the retailer was found by name; a copied price was observed on that listing from that seller; observations of identifiable sellers are stored once; sessions end |
| `insight` | two variants, three listings, four kinds of observation, three observations, two units of time | the explanation of the winner is true; fresh means every offer is fresh; a stale history stays stale, unlike a comparison; a markedly lower current price never makes the advice more reluctant; every decision cites a rule, and no saving contradicts it; the price advised on is one the comparison offers |
| `sale_windows` | two sellers of one listing and one seller at another retailer, two prices, four observations up to one unit late, two workers, two curated sales | stored windows lie inside what is detected today; windows are stored once unless refreshes overlap; statistics ignore repeats; a detected sale is over, to every filter |
| `price_prediction` | two sellers of one listing, three curated sales and two curated later, observations stored up to one unit late, one worker | the prices among the features of the past do not change, but for rows of transactions begun before; the previous sales change only with a row stored since of a sale that was over, the coming sale only with one curated since that was not; folds are in order, disjoint and complete at every pair of fractions |
| `model_store` | three trainings, one of them with the last release's features, and one request | what a request loads is one training's, unless two trainings share a version |
| `matching` | every pair of 88 listings at every pair of two similarities; brands and models of which one contains the other, and two brands that are alike in one order only | similarity never merges; an identifier of one side alone changes nothing, an attribute of one side alone nothing but through the similarity of the embeddings (a model number, which is an identifier as well, as identifier); where the texts compare alike in both orders, the verdict is the same in both, and elsewhere what an identifier decided is not reversed; a shared identifier never drives listings apart |
| `fleet` | two retailers, three adapters, a search (in a category, which one retailer serves, or in none) or look-up, a sweep, two attempts, one operator call | complete hits are returned, failures recorded under the retailer they are of, nothing under a foreign name; the pages of a search are cut from one list when a page is at least as large as a retailer's answer; health stays with its adapter; every fan-out returns |
| `user_data` | two requests of one identity with different emails, one of another; one known product, one unknown; patches of both columns, to what was there or not, and of one; answers before and after the commit; one death | one user and item of each; the requests implement `UserStore`; every request is answered or dies |

Two more runs each check a promise of the repository that the code does not keep, on
the instance of a run above, and find it violated.

| Run | Instance | Promise, and what happens |
|---|---|---|
| `variants_are_never_merged` | as `matching` | `DATA_FLOW.md:94-95`: different variants are never merged. Of several keys with one canonical key (`matching/attributes.py:203`) only the last is compared, so a pair with a shared barcode and different values under the same key is merged |
| `crashes_are_visible` | as `collection_tasks` | `db/models/collection_job.py:3-5`: a worker crash is still visible. What a run flushed is committed at its end only (`workers/tasks.py:60`), so a run that dies leaves no row of what it had begun |

**Bounds.** Two tasks of one key set are enough for every race of the protocol:
a row has one holder, and a third task would meet it as the second does. Two
retailers give a run that has one row behind it while it works on, or waits for,
another, which is what the deadlock and all-or-nothing properties are about. Two
attempts have one retry and one exhausted retry. Two deliveries contain a crash and a
redelivery, before and after the commit, and a last crash that loses the message.
`MaxItems` is 0: a body succeeds or fails as a whole, and no row is a partial
success. Nothing in the protocol asks whether a success is partial, only the
aggregate result does, and that is partial whenever one retailer fails; the
theorems hold for any `MaxItems`. In the bucket run, three
callers on two slots let one sleep, one wait in line and one wait for a slot;
`LastCall` and `MaxTime` bound the time in which requests start and the time
afterwards in which the last sleeper, late each time, is served.

In the catalogue, one session with
two operations shows what a session does to itself, and the other two race with
it or with each other for a catalogue it has committed: a listing must be
committed before prices of it can race. Identifiers in opposite orders give the
circle of waits. The offer of a retailer found by its name needs a listing that is
there, hence no identifiers of its own. The sellers of the instance are one with
an id and the retailer itself; an id always comes with the same first-party flag,
as the mappings compute it.

In `insight`, three observations are one more than the smallest minimum, so a
variant may have a current price, a baseline and a window average that differ;
two units of time make an observation fresh, ageing and stale. The lower price
tried, 103, is above the low and inside the band around it: a marked drop from
every price but the low, and from 105 the least marked one. Sellers are numbers
up to `MaxSeller`. In `sale_windows`, four observations of
two prices give a base price, a run, a gap and a second run or a run that grows;
`MaxGap` 1 and `MaxTime` 3 let a run end and be detected, grow, and be detected
again. Two workers can overlap; they are symmetric. In `price_prediction` three
observations give one example each at three instants, the least that fills three
folds, and timings of 0 or 1 let any row be observed, begun and stored at
different instants. The two sales curated later share their starts with others of
the instance, so that ids decide which is first, and may be inserted before, during
and after. In `model_store` two trainings of today's code may overlap,
`MaxClock` 1 lets them share a second or not, and the third has features the
server no longer understands. One request is enough: requests do not meet. In
`matching`, a listing is built from each kind of evidence a stage looks at, in
every combination for which the stages interact. In `fleet`, `a2` replaces `a1`
for the same retailer, and its answer may be one for another retailer; `b1` may
be off. One slot lets the search and the sweep wait for each other; two attempts
give one retry. One operator call can strike at any suspension. The clients' cap
of 10 hits is `ItemCap` 2, the limit of 100 of a query is `SearchMax` 3, and
pages of 1 and 2 hits from offsets 0 to 2 are smaller than, and as large as, an
answer. In `user_data`, two requests of one identity race on its first visit,
and for each item; the third, of another identity, must be left alone. The item
that may be there is (1, enabled); patches to (1, off), (2, enabled) and of one
column let two of them write different columns.

**Fairness.** `CollectionTasks!FairSpec` assumes weak fairness of each task's own
steps, and nothing about crashes, time limits and deliveries that do not occur.
The code justifies it: a job body runs under `wait_for` with the operation and
retailer timeouts, the backoff is capped and attempts are counted, and a
statement that waits for a row goes on when the holder's transaction ends. That
those waits form no circle is not assumed but checked and proved
(`NoWaitCycle`). The bound on deliveries is an assumption about the environment:
a worker that always dies is redelivered for ever. `TokenBucket!FairSpec` assumes
that the clock advances, that the event loop runs what is ready, and that each
admitted request ends, which `_run_attempt` ensures with `wait_for`; it assumes
nothing about new requests or cancellations.

`Catalog!FairSpec` assumes that an open session
goes on with its statements, which wait only for other sessions; nothing opens or
abandons one. `AdapterFleet!FairSpec` is weak fairness of the disjunction of all
steps the event loop takes by itself: the loop runs while something can run, no
coroutine is preferred. Every attempt is under `wait_for` and every pause is
finite, so an answer or a timeout comes. Operators need not do anything.
`UserData!FairSpec` is weak fairness of the disjunction of all requests'
statements: threads of the pool run while one is not waiting for a lock; nobody
has to die or to start. `insight`, `sale_windows`, `price_prediction`,
`model_store` and `matching` check safety only and assume none.

**Deadlock** is checked in the collection and catalogue runs, whose only resting
point is the named action `Idle`, when all messages or sessions are done. It is not
checked where the instance really ends: a limiter nobody calls rests, the clock is
bounded, a pair of listings is compared once, and jobs, trainings and requests run
once.

**Symmetry.** `sale_windows` identifies its two workers; `model_store` the two
trainings of today's code. No liveness property is checked with it.

## 4. The proofs

All constants are arbitrary: any number of tasks, retailers, attempts, sessions,
requests, adapters, workers; any plan, operation, answer, price or threshold.
What is assumed of them are the named `ASSUME`s of the modules, and TLC
evaluates each of them on every instance. Nearly all say that a "none" value is
not one of the values it stands beside, that a bound, a threshold or an amount
is a natural number (the check constraints of the tables and the validated
settings), or that a table is defined where it is looked up. Three say more:
`CallersAssumption` (finitely many callers), `AnswersAssumption` of
`AdapterFleet` (a client turns each answer either into a list of hits or into a
failure) and `SalesAssumption` (no curated sale ends before it starts, and a
database has finitely many rows).

Hardly any property is inductive as it stands. A proof module defines an
invariant of named parts (`IInv`, where it has no other name below), proves that the
initial states have it and that every action keeps each part, and concludes the
properties. Only the verdicts of the matching need none: they are computed from the
pair compared.

### Collection tasks

| Part | Says | Needed because |
|---|---|---|
| `PositionInv` | a working run is at a retailer of its plan, a committing one is past the last | a plan may skip retailers: "everything before `at`" must mean everything of the plan |
| `CounterInv` | attempts and deliveries stay inside their bounds | the type of both counters |
| `LockInv` | a transaction holds rows of its plan and scope only, up to the retailer it is at; that one's exactly while it works on it | a writer must be known to own what it writes; a finished task owns nothing |
| `DraftInv` | a held row the run has left behind is final and equals its report; the current one is RUNNING to the session | an UPDATE omits unchanged columns, so "the status was written" depends on what the session believed |
| `CoverInv` | each retailer left behind is held, or was found finished | turns "the run is past the last retailer" into "the plan is complete" at the commit |
| `EvidenceInv` | committed and flushed errors cover committed and flushed retries and the current attempt | two runs of a key add errors to, and overwrite retries of, the same row |

The step from `IInv` to `IInv'` has one lemma per part, and a case per action in
each; `NextCases` groups the actions that end a job, give a run up, or do neither.
From it follow `TypeCorrect`, `CommittedRowsFinal`, `RetriesRecorded`,
`ReportMatches`, `CommittedRunComplete` and `NoWaitCycles`.

The second part of the module adds `ReuseInv` (a retailer left behind without
holding its row was reported as the success it reused) and proves from it and
`IInv`: `ResultMatches`, the aggregate status agrees with the rows; and
`TasksImplementLedger`, the refinement of `RunLedger`: a look-up without a
success is the ledger's `Decide`, a claim its `Take`, the commit its `Publish`,
giving up its `Drop`, and the other steps leave the ledger alone. `CoverInv` is
what makes a commit complete enough to be a `Publish`.

### Request pacing

`RateBounded`: for every number of callers, burst and
rate, and however late sleepers wake up, the requests admitted by time `now` cost
at most the burst and twice `now`. Its invariant `RateInv` accounts for each
stretch of time being credited once by a refill and once more by the sleep that
spans it, and never a third time, since only one caller sleeps at a time. The
double credit does happen: the bound is what the code keeps, not the average.

`SlotsConserved`: the slots free, held and being handed over are always all of
them. `SlotInv` ties the two queues to the phases of the callers: a queue holds
exactly the callers in its phase, each once, the sleeper has the lock, and a slot
given by a releaser belongs to one waiter. What a cancellation does to a queue is
`Removed`: the caller's position is known, the rest keeps its order.

### User data

`AlwaysOneOfEach`: one user per identity, one item per user and product. The
invariant says what makes check-then-insert safe: the key of a user (`UserInv`)
or an item (`LockInv`) is locked from the INSERT to the end of the transaction,
an updated or deleted row from its statement on, and what a request at its
commit has seen of its own rows is still so (`AtCommit`, `PhaseInv`), since
nobody could write them meanwhile.

`RequestsImplementStore`: the statements refine `UserStore`. A patch's look-up is
the store's `See`; its commit, as that of a create or delete, the `Decide` with
the outcome it had or will have told; a refusal decides at the statement that
finds the reason. Every other step is a call, an answer, or one that the store
does not see, the death of a request included. `AtCommit` gives the store's guard
at the commit, and already at an answer before it. What this says of a patch is
no more than `UserStore` says: it is no proof that patches are atomic, which they
are not.

### Catalogue

`KeyInv`: no two rows share a unique key, committed or flushed, in the view of
any session. `CompanyInv`: a session that has been alone found free each key it
is about to insert; hence `FailuresAreRaces`. `OrphanInv` follows a new product
on its way to its listing, with the offer it is made for, and tells whether the
listing was looked up; hence `OrphansAreRaces`. `PriceInv` gives each copied
price a witness that the session sees and that stays; hence `PricesAreObserved`.
One lemma, `DatabaseGrows`, serves all parts: rows are only added.

`ObservationsAreStoredOnce` proves `StoredOnce` under `SellersAreConsistent`: no
external seller id is given both to the retailer itself and to a third party.
The code does not check that; the retailers' mappings compute the flag from the
id. Without it the property is false: the same id with both flags is two
sellers, and one observation is then stored once for each.

### Adapter fleet

`IInv` types the registrations and jobs, ties each coroutine to the job and
adapter that started it, and includes `HealthStays`: registrations captured by a
sweep stay where they are, so a result written late lands on the registration
whose adapter produced it, whatever has replaced it.

`FanOutsAreIsolated` is about outcomes, and an outcome is computed from answers
that no variable keeps. `SearchInv` (`SearchesAnswered`) says that the result of
a coroutine that is over is what its adapter makes of some answer to its last
attempt, and that an outcome returned is `OutcomeOf` such results. The rest is
about `RetailerMapping`: a mapping goes through the hits in order and stops at
the first that raises, or once it has as many products as were asked for, so a
complete hit is there unless as many came before it. That stop is the least
position of its kind (`LeastNumber`); no induction over the hits is needed.

`LargePagesAgree` (`PagesShareOneList`): with pages of at least the clients' cap,
every page is cut from the same list and states the same total.

### Sales

| Part | Says |
|---|---|
| `PointsInv` | observations are finitely many and lie in the past, and their ids tell them apart |
| `TimeInv` | no row ends before it begins, and each inferred one is over |
| `OnceInv` | unless refreshes overlapped, a window has one row, uncommitted rows included |
| `JustifiedInv` | unless an observation was late, each inferred row, uncommitted ones included, lies inside a window found today |

The last part holds because detection is monotone in the observations while they
arrive in order: an observation's base price looks only at earlier ones, so it
is discounted or not for ever; a gap that splits a run of the larger set splits
the smaller one's; so each run lies inside one of today's. `StoredOnce` needs,
besides, that a scope and a start determine a window of one detection. From
these `StoredOnce`, `StayJustified` and `DetectedAreOver`.

`SplitsAreChronological` is about the examples of the price model, made of the
same rows. The rows are finitely many (`RowsAreFinite`), so ranks number their
instants (`InstantIsThere`: an injection into as many numbers is onto); the
arithmetic of `FoldEnds` puts both cuts among them, in order (`FoldEndsAre`). It is
proved for any pair of fractions (`SplitIs`).

`FrozenFeatures`: what `Build` reads is cut out of the stored rows by their
instants before anything is added up, so it is enough that the cut is the same
set. A step only adds rows (`StoreGrows`); an event it adds is inferred
(`InsertedAreInferred`) or curated now. Of the features only those about sales
read events (`OnlySalesDiffer`); the previous ones read those over by the instant,
and the coming one is the first by start and id, or the target, of those known and
not over (`KnownEventStays`), which an inferred row never joins. So each change
comes with a new row of the kind that `FeaturesAreFrozen` names (`FeaturesStay`).
That there are such rows is a divergence (section 5).

`RepeatsDoNotShow` (`SaleStatsIgnoreRepeats`): each row lies inside an outermost
one, one of each bounds is enough, so these cover the same observations, of
which the overall statistics count every one once. The low is that of some
window, and that of none is lower (`PricesAreNatural`).

### Model files

`LoadedModelsAreWhole`. `FileInv`: who wrote a file wrote it under its own version.
`Whole`: if no two trainings share a version, then files and versions determine
each other, `latest.json` names a version whose training is past its last
file (`Pointed`), and a request that follows it will find them (`Followed`).

### Matching

The verdict depends on a pair only through its *basis*, the branch of `decide`
that is taken (`DecideByBasis`), and the composite score. `VerdictSymmetric`:
each stage but the fuzzy comparison of texts is symmetric, so the verdict is where
that one is; and no branch that an identifier decides asks for more of the texts
than that they conflict, which costs a merge at most a review.
`SimilarityMergesNothing`: no branch that merges looks
at a similarity. `SharedIdentifiersJoin`: one more common identifier can only
add matches and remove conflicts, and `BasisJoins` says where that leads in the
order of the branches. `UnilateralEvidenceDecidesNothing`: what is left out takes
part in no comparison; for attributes that is so because a key overwritten or
left out disturbs no other canonical key (`SamePositions`, `SameAttribute`). The
embedded text does contain the attribute, so the similarity of the embeddings is
any other afterwards: the branch stays, and a class changes only in the last one,
which that similarity is for.

### Product insight

The state is little, `RowsInv` (`RowsAreSound`): stored rows are observations
that were made, of listings in the catalogue, finitely many, and one listing and
seller has one at an instant. What is hard is that the properties speak of what
three services compute from the same rows.

- `FreshIsFresh`: a fresh summary has only fresh parts (`AggregateFreshness`),
  and the newest row of a listing and seller is one of those parts.
- `StaleStays`: of a finite set of rows with one older than the window, that row
  stays, and the clock only moves on.
- `CurrentIsListed`: the newest qualifying observation is the newest of its
  listing and seller, or a later one of the same is stored and does not qualify.
- `ExplanationsAreTrue`: `RanksBefore` compares keys of ten numbers from the
  left and is a total order on offers told apart by their ids (`LexOrders`), so
  the winner and the next offer exist. The criterion is the first component on
  which the two differ, and a third offer that agrees with the winner on all of
  the components before has the next one between them.
- `DecisionsAreExplained`: the percentile is in the buying, the waiting or the
  neutral band, and a rule is attached to each. This needs a percentile whenever
  an advice is given, hence its hypothesis `MinPercentile <= MinObservations` (2
  and 3 in `pricing/config.py:36` and `recommendation/config.py:47`). Settings
  otherwise are accepted by the code, and then a WATCH may cite nothing.
- `CheaperIsNoWorse`: `Keener` says what a cheaper current observation does to
  the input of the rules: the same gates, a percentile that is not higher,
  nearness to the low that stays, an average that the price is not further
  above, the same prediction with a saving that is not larger. Each is a lemma
  about exchanging one point of a set; then a case for each decision
  (`recommend`). The averages are why the drop has to be marked: see *Readers*
  below. `NoneIsNoRecord` says that the absent value is not one of the records
  it stands for.

The averages are sums over sets. Such a sum is, by its definition, taken from a
chosen function on all subsets that fulfils the recursion. That there is one
(`SumOf`), that it agrees with any other (`SumsAgree`), and that any element may be
added first (`AnyFirst`) is shown by a least counterexample in place of
induction; so exchanging an element changes the sum by the difference.

### Only model-checked

- Liveness (`EveryTaskEnds`, `EveryCallerLeaves`, `SessionsEnd`,
  `EveryFanOutReturns`, `EveryRequestEnds`): out of the prover's reach.
- The properties of the two runs that find them violated.

Every other property of the runs is a theorem. What TLC adds to these is that the
instances do what the properties speak of.

## 5. Divergences

Where the code does something else than a doc, comment or name of it says, or
than its users would expect. The two promises that a run finds violated are in
section 3, and in `PROJECT.json` under `findings`; these are the others, where
possible with a property that states what does hold instead. Paths are relative to
`src/backend/app` unless they start with `ml`.

Collection and catalogue:

- `orchestrator.py:3` isolates retailers. A database error in the second
  retailer's body rolls back the first one's rows: they share a transaction
  without savepoints.
- "A completed SUCCESS/PARTIAL_SUCCESS job is returned as-is and is not executed
  again" (`collectors/idempotency.py:15-16`). A run that read FAILED
  (`orchestrator.py:251-252`) waits for the row of a run that commits a success, then
  executes the job once more and may replace the success. `RunLedger` says that a
  run works only on keys it has seen without a success.
- A listing "that already exists is updated in place; otherwise a new Product
  [...] is created" (`product_discovery_service.py:15-16`). The listing is looked up
  under the retailer's slug only (`:357-358`), the retailer also by its name
  (`:302-304`): each search at a retailer whose slug differs creates a product, which
  stays without a listing. `OnlyRacesOrphan` allows for it.
- The price of an availability is "copied forward" from "a previous legitimately
  observed price" (`:222-223`). The latest one is copied (`:227`), which may be later
  than the availability. `EveryPriceWasObserved` says that it was observed.
- "`PriceSnapshot` uniqueness on `(retailer_product, observed_at, seller)` prevents
  duplicate observations for the same instant" (`collectors/idempotency.py:19-20`). A
  third party without an external id is a new row each time (`:464` of the service),
  and the key contains it. `StoredOnce` leaves these sellers out.
- `ProductSearchHit` (`schemas/discovery.py:25`) is a variant as listed by a
  retailer. The variant is found by identifier, the listing by sku
  (`product_discovery_service.py:355`), and after a sku has changed its identifier
  they disagree.

Adapters:

- `base/rate_limit.py:48-49` promises the configured average. A caller that
  arrives while another sleeps credits the slept time, and the sleeper credits it
  again (`:82`, `:110`): at most twice the rate, which is proved.
- An adapter that replaces another brings a limiter of its own, so for a while
  both bounds of `base/config.py:136` apply side by side.
- An older health sweep that overlaps a newer one may write `last_health` last
  (`registry.py:237`).
- `delay_for` caps a retailer's Retry-After at the backoff maximum.
- "Skip individual unmappable hits rather than failing the whole search"
  (`amazon_in/adapter.py:99`). A hit whose offers contain no object raises something
  else than what is caught there, and the whole search of that retailer fails, which
  `FanOutIsIsolated` allows for.
- The token of the Amazon client is kept after a 401
  (`amazon_in/client.py:128-163`), and a health probe that finds a token asks
  nothing and reports healthy.
- The Flipkart look-up does not compare the product returned with the sku asked.

Matching:

- `brands_match` and `models_match` compare with `SequenceMatcher.ratio()`
  (`matching/attributes.py:255`, `:289`), which depends on the order of its
  arguments. At the threshold, which of two listings is the candidate may decide
  between a merge and a separation; `VerdictIsSymmetric` is stated for pairs whose
  texts compare alike in both orders, and for what an identifier decides.
- An attribute that only one side states is in the text that is embedded
  (`matching/stages.py:164-165`, `titles.py:153-156`), so it may tip the tail of the
  cascade, which similarity decides.

User data:

- A patch is not atomic (`services/alert_service.py:76-83`). Of the alert (1, on),
  one client sets (1, off) and another (2, on); if both read before either commits,
  each writes the column that differs, both are told "updated", and the alert is
  (2, off), which no order of the two leaves.
- With FastAPI from 0.118 on the commit comes after the answer
  (`db/session.py:49-51`), so a client may have been told of a change that a failing
  commit then undoes; the docstring (`:44-45`) only asks for a commit at the end of a
  successful request.

Readers:

- One would expect of a lower price that it never makes the advice worse.
  `window_average` is rounded to a paisa (`pricing/history.py:153`) before
  `percent_above` divides by it (`recommendation/rules.py:66-69`, used at
  `:443-446`). With two observations of 30.00 before the windows and one of
  19.00 inside them, a current price of 21.00 gets WAIT where 21.01 gets WATCH:
  21.00 is 5% above 20.00, and the mean of 19.00 and 21.01 is rounded up to
  20.01. `CheaperIsNeverWorse` is stated for drops that no rounding hides
  (`MarkedlyLower`: two paise at the default 5%), and for those it is proved.
- "Another listing's prediction is never reused" (`recommendation_service.py:237`).
  `_prediction_for_current` takes the first prediction of the same variant,
  retailer and seller; a retailer that lists a variant under two skus has two
  listings with these, and one may get the other's.
- A variant without observations makes the history of its product stale, until its
  first (`pricing/history.py:681-718`).
- Pages of a search smaller than the 10 hits a client asks for at most
  (`amazon_in/client.py:106`, `flipkart/client.py:51`) repeat hits and never show
  others, as each is cut from a list of its own, in the order of retailer and SKU, and
  their totals differ, although a total is to ignore pagination
  (`schemas/common.py:20`): it counts the offset + limit hits that a page asks for
  (`product_discovery_service.py:136`).
  `PagesShareOneList` is what holds from 10 on.
- A sale that goes on is stored as one row per refresh; statistics ignore the
  repeats (`SaleStatsIgnoreRepeats`), `previous_sale_count` of the price model
  counts them.

Price model:

- "Features only use information available at prediction time"
  (`ml/features/availability.py:1`). Observations have to pass by the time of their
  row (`:26`), sale events by their dates alone: one that was over counts although it
  was inferred, or inserted, since (`:72`), and a curated one counts as announced
  (`:58-63`, where the comment takes it as published). `FeaturesAreFrozen` names
  these as what may change.
- `created_at` is when a transaction began, so a row committed after an instant may
  count as known at it (`ml/features/availability.py:25`); `FeaturesAreFrozen` is
  stated up to these rows.
- Sales of one start are ordered by random ids (`sales/history.py:359`), so which is
  the last previous sale, and hence its price and low, is arbitrary.
- Targets of training examples may be observed after a test example's instant:
  the split orders instants, not targets.
- Training takes the event of the label as known, serving uses the earliest
  unfinished one.
- Two trainings within a second share a directory (`ml/models/artifact.py:25-27`).
  A crash while `latest.json` is rewritten leaves it empty, and every request that
  names no version fails until the next training; an older training that ends last
  moves the pointer back.

## 6. What is not covered

- What job bodies write to the catalogue is in `Catalog`, their outcomes are in
  `CollectionTasks`, and the two are not composed: a violated key or a deadlock
  in the catalogue (`AddFails`, `DeadlockVictim`) appears there as
  `BodyPoisonsSession`. `TokenBucket` and `AdapterFleet` are not composed
  either: the fleet reduces the limiter to its slots, whose conservation is
  checked in both.
- Pages of the readers, and their answers for unknown ids.
- The mapping of identifiers, sellers, URLs and texts, and the mock adapters.
- Similarity of titles and embeddings, the choice among several candidates
  (`find_best_match`) and the evaluation report: floats and texts.
- The booster, its metrics and encoding and the uncertainty bounds: numerical.
- Plain reads and `PATCH /me`; the token verification of `auth/`, which a library
  does.
- The HTTP API's routing and its in-process edge limiter.
- The beat schedule: the scope of a key is a constant of the task here, so the
  schedule's missing run key (see the hazards) is not examined.
- Two different limits on retries that lie below the orchestrator: the
  15 s operation timeout around a whole job body, and the executor's own
  retries inside it.
- Observability, deployment, the frontend: no core logic of their own.

## 7. The plan

Every safety property that a run checks is proved. Further models, if their parts
grow: the beat schedule's keys, the edge limiter, and `CollectionTasks` composed
with `Catalog`.
