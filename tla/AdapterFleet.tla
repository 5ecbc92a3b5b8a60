---------------------------- MODULE AdapterFleet ----------------------------
(***************************************************************************)
(* RetailerRegistry, RetailerFleet and the AdapterExecutor around every    *)
(* retailer call (backend/app/retailer_adapters/base): fan-out searches    *)
(* and health sweeps of one event loop, while adapters are registered,     *)
(* replaced, removed, enabled and disabled.                                *)
(*                                                                         *)
(* A job is one RetailerFleet.search, RetailerRegistry.health_check or     *)
(* health_check_all, which gathers one task per adapter, or one look-up of *)
(* a SKU by a collection job.  One action is what one coroutine does       *)
(* between two awaits that suspend.  The adapter's limiter is reduced to   *)
(* its slots (TokenBucket has the rest of it), and the retailer's answer   *)
(* to a request is any member of Answers: a failure, or hits, which        *)
(* RetailerMapping turns into products.                                    *)
(***************************************************************************)
EXTENDS RetailerMapping, Functions

CONSTANTS
    Retailers, Adapters,
    RetailerOf,        \* the retailer_id in each adapter's configuration
    Configured,        \* the adapters that build_retailer_registry() registers
    MayBeOff,          \* those that the configuration may switch off
    Categories,        \* the categories that a search may be restricted to
    Serves,            \* those that each adapter's configuration serves
    Searches, Sweeps,  \* jobs; a search may be a look-up instead
    Wanted,            \* the SKU of a look-up
    Family,            \* "amazon_in", "flipkart", or "other" for an adapter
                       \*   whose mapping is not modelled
    MaxAttempts,       \* retry_policy.max_attempts of searches
    Slots,             \* rate_limit.max_concurrent_requests
    Limit,             \* limit of the search query
    ItemCap,           \* the most hits a client asks a retailer for
    SearchMax,         \* _ADAPTER_SEARCH_LIMIT_MAX
    PageLimits, Offsets,    \* PaginationParams
    HitLists,          \* the hits of each search answer that has a list of them
    Answers,           \* what each adapter's retailer may answer: a hit list,
                       \*   by its name, or a failure
    Refusals,          \* how a token request may fail
    MaxChanges         \* bound: register(), unregister(), enable() and
                       \*   disable() calls after the start

ASSUME FleetAssumption ==
    /\ RetailerOf \in [Adapters -> Retailers]
    /\ Configured \in Seq(Adapters) /\ MayBeOff \subseteq Adapters
    /\ \A i, k \in DOMAIN Configured :
         RetailerOf[Configured[i]] = RetailerOf[Configured[k]] => i = k
    /\ Family \in [Adapters -> {"amazon_in", "flipkart", "other"}]
    /\ Serves \in [Adapters -> SUBSET Categories]
    /\ {MaxAttempts, Slots, Limit, ItemCap, SearchMax} \cup PageLimits \subseteq Nat \ {0}
    /\ Offsets \subseteq Nat /\ Offsets # {} /\ ItemCap <= SearchMax
    /\ Searches \cap Sweeps = {}

VARIABLES
    regs,      \* every registration made: its adapter and its last_health
    registry,  \* _registrations: the index in regs, 0 when absent
    enabled,   \* _enabled of each adapter
    jobs,      \* per job: where it is, its operation and the registrations
               \*   it captured
    tasks,     \* per job and adapter: the coroutine gathered
    tokens,    \* the adapters that were given a token; it may be near its
               \*   expiry by the time somebody looks at it
    outcome,   \* what each finished search returned
    changes    \* counts the calls MaxChanges bounds

vars == <<regs, registry, enabled, jobs, tasks, tokens, outcome, changes>>

Jobs == Searches \cup Sweeps
Tasks == Jobs \X Adapters
Registered == {registry[r] : r \in Retailers} \ {0}

Idle == [pc |-> "idle", attempt |-> 0, answer |-> None,
         products |-> {}, code |-> None]

------------------------------------------------------------------------------
(* What an answer becomes: request_json, the clients and the executor turn *)
(* everything but the hits of a search into a code of the error taxonomy.  *)

IsList(answer) == answer \in DOMAIN HitLists

\* None for what is no failure.
CodeOf(answer) ==
    CASE answer \in {"429", "errors:throttled"}  -> "rate_limited"
      [] answer \in {"408", "slow"}              -> "timeout"
      [] answer \in {"5xx", "errors:internal"}   -> "temporary_retailer_failure"
      [] answer = "unreachable"                  -> "adapter_unavailable"
      [] answer \in {"401", "403"}               -> "adapter_misconfigured"
      [] answer \in {"404", "4xx", "garbled", "no list", "no token"}
                                               -> "invalid_retailer_response"
      [] answer = "leak"                         -> "unexpected_adapter_failure"
      [] OTHER                                 -> None

RetryableCodes == {"adapter_unavailable", "timeout", "rate_limited",
                   "temporary_retailer_failure"}

\* Answers are lists of hits or failures, token requests are answered by failures
\* only, a hit has the fields that its mapping reads, and None is no code.
ASSUME AnswersAssumption ==
    /\ \A name \in DOMAIN HitLists : HitLists[name] \in Seq(Range(HitLists[name]))
    /\ \A a \in Adapters : \A answer \in Answers[a] :
         /\ IsList(answer) <=> CodeOf(answer) = None
         /\ IsList(answer) => \A hit \in Range(HitLists[answer]) :
              /\ Family[a] = "amazon_in" => hit.offers \in Seq(Range(hit.offers))
              /\ Family[a] = "flipkart"  => DOMAIN hit.prices = 1..3
    /\ \A answer \in Refusals : ~IsList(answer) /\ CodeOf(answer) # None
    /\ None \notin RetryableCodes
    /\ None \notin {"adapter_misconfigured", "invalid_retailer_response", "invalid", "leak",
                    "unexpected_adapter_failure", "product_not_found", "adapter_disabled"}

\* The products of a search answer, in the adapter's own mapping; that of an
\* adapter of another kind is not modelled, its hits are its products.
ProductsIn(a, answer) ==
    IF Family[a] = "other" THEN Range(HitLists[answer])
    ELSE SearchProducts(Family[a], RetailerOf[a], HitLists[answer], Limit)

SearchCode(a, answer) ==
    IF /\ IsList(answer) /\ Family[a] # "other"
       /\ SearchLeaks(Family[a], HitLists[answer], Limit)
    THEN CodeOf("leak") ELSE CodeOf(answer)

\* Only Flipkart's client takes a 404 of a look-up to mean that there is no such
\* product.
NotFound(a, answer) == answer = "404" /\ Family[a] = "flipkart"

FoundIn(a, answer) == Found(Family[a], HitLists[answer], Wanted)
FirstFound(a, answer) == HitLists[answer][Min(FoundIn(a, answer))]

\* A look-up turns the item it finds into what was asked for.
LookupCode(a, operation, answer) ==
    IF NotFound(a, answer)             THEN "product_not_found"
    ELSE IF ~IsList(answer)            THEN CodeOf(answer)
    ELSE IF FoundIn(a, answer) = {}    THEN "product_not_found"
    ELSE IF Family[a] = "other"        THEN None
    ELSE LET raised == LookupRaises(Family[a], operation, FirstFound(a, answer)) IN
         CASE raised = "invalid" -> "invalid_retailer_response"
           [] raised = "leak"    -> CodeOf("leak")
           [] OTHER              -> None

LookupProducts(a, answer) ==
    IF Family[a] = "other" THEN {FirstFound(a, answer)}
    ELSE {ProductOf(Family[a], RetailerOf[a], FirstFound(a, answer))}

\* A probe is satisfied with any object: it does not look for a list.
ProbeCode(answer) == IF answer = "no list" THEN None ELSE CodeOf(answer)

AnswerCode(a, operation, answer) ==
    CASE operation = "search_products" -> SearchCode(a, answer)
      [] operation = "health_check"    -> ProbeCode(answer)
      [] OTHER                         -> LookupCode(a, operation, answer)

AnswerProducts(a, operation, answer) ==
    CASE operation = "search_products" -> ProductsIn(a, answer)
      [] operation = "health_check"    -> {}
      [] OTHER                         -> LookupProducts(a, answer)

\* Mutant: what is returned is not compared with the adapter's retailer_id.
MutOwnPayload(a, products) == TRUE

\* _assert_own_payload of the result and of every listing in it.
OwnPayload(a, products) == \A l \in products : l.retailer = RetailerOf[a]

\* The operations a collection job calls for one SKU.
Lookups == {"get_product", "get_price", "get_availability"}

\* What a request ends with, for each answer: a failure, or products that are
\* all the adapter's own.
Result(a, operation, answer) ==
    LET code == AnswerCode(a, operation, answer)
        products == IF code = None THEN AnswerProducts(a, operation, answer) ELSE {}
    IN  IF OwnPayload(a, products)
        THEN [answer |-> answer, products |-> products, code |-> code]
        ELSE [answer |-> answer, products |-> {}, code |-> "invalid_retailer_response"]

Results == [a \in Adapters |->
    {[operation |-> operation, result |-> Result(a, operation, answer)] :
       operation \in {"search_products", "health_check"} \cup Lookups,
       answer \in Answers[a]}]

\* collectors/mapping.py: what a job records of a failed call.
CategoryOf(code) ==
    CASE code = "timeout"                          -> "timeout"
      [] code = "rate_limited"                     -> "rate_limited"
      [] code \in {"adapter_unavailable", "temporary_retailer_failure"} -> "temporary_failure"
      [] code = "invalid_retailer_response"        -> "validation"
      [] code \in {"product_not_found", "adapter_disabled"} -> "permanent"
      [] code = "adapter_misconfigured"            -> "configuration"
      [] OTHER                                     -> "unexpected"

CollectionFailure(code) ==
    [category |-> CategoryOf(code), retryable |-> code \in RetryableCodes]

RetryableCategories == {"timeout", "rate_limited", "temporary_failure"}

HealthOf(code) ==
    CASE code = None               -> "healthy"
      [] code = "adapter_disabled" -> "unknown"
      [] code \in RetryableCodes   -> "degraded"
      [] OTHER                     -> "unhealthy"

------------------------------------------------------------------------------
Init ==
    /\ regs = [i \in DOMAIN Configured |-> [adapter |-> Configured[i], health |-> None]]
    /\ registry = [r \in Retailers |->
         LET mine == {i \in DOMAIN Configured : RetailerOf[Configured[i]] = r}
         IN  IF mine = {} THEN 0 ELSE CHOOSE i \in mine : TRUE]
    /\ enabled \in {[a \in Adapters |-> a \notin off] : off \in SUBSET MayBeOff}
    /\ jobs = [j \in Jobs |-> [pc |-> "idle", operation |-> None, targets |-> {}]]
    /\ tasks = [t \in Tasks |-> Idle]
    /\ tokens = {}
    /\ outcome = [s \in Searches |-> None]
    /\ changes = 0

------------------------------------------------------------------------------
(* The registry.  register() of a retailer that is there needs replace.    *)

Change == changes < MaxChanges /\ changes' = changes + 1

Register(a) ==
    /\ Change
    /\ regs' = Append(regs, [adapter |-> a, health |-> None])
    /\ registry' = [registry EXCEPT ![RetailerOf[a]] = Len(regs) + 1]
    /\ UNCHANGED <<enabled, jobs, tasks, tokens, outcome>>

Unregister(r) ==
    /\ registry[r] # 0 /\ Change
    /\ registry' = [registry EXCEPT ![r] = 0]
    /\ UNCHANGED <<regs, enabled, jobs, tasks, tokens, outcome>>

SetEnabled(r, value) ==
    /\ registry[r] # 0 /\ Change
    /\ enabled[regs[registry[r]].adapter] # value
    /\ enabled' = [enabled EXCEPT ![regs[registry[r]].adapter] = value]
    /\ UNCHANGED <<regs, registry, jobs, tasks, tokens, outcome>>

------------------------------------------------------------------------------
(* Starting a job: the registrations are captured and their coroutines     *)
(* gathered.                                                               *)

Gather(j, operation, captured) ==
    /\ jobs[j].pc = "idle"
    /\ jobs' = [jobs EXCEPT ![j] = [pc |-> "gathering", operation |-> operation,
                                    targets |-> captured]]
    /\ tasks' = [t \in Tasks |->
         IF t[1] = j /\ \E i \in captured : regs[i].adapter = t[2]
         THEN [tasks[t] EXCEPT !.pc = "ready"] ELSE tasks[t]]
    /\ UNCHANGED <<regs, registry, enabled, tokens, outcome, changes>>

EnabledOnes == {i \in Registered : enabled[regs[i].adapter]}

\* adapters_supporting, within a category if there is one.
Serving(category) ==
    {i \in EnabledOnes : category = None \/ category \in Serves[regs[i].adapter]}

\* RetailerFleet.search
StartSearch(s) ==
    \E category \in Categories \cup {None} : Gather(s, "search_products", Serving(category))

\* A collection job asks one adapter of its plan for one SKU.
StartLookup(s) ==
    \E i \in EnabledOnes, operation \in Lookups : Gather(s, operation, {i})

\* health_check_all(include_disabled=...) and health_check(retailer_id)
StartSweep(h) ==
    \E captured \in {Registered, EnabledOnes} \cup {{i} : i \in Registered} :
      Gather(h, "health_check", captured)

------------------------------------------------------------------------------
(* One adapter call.                                                       *)

\* Mutant: the slot of a request that failed for good is not given back.
MutHolders(a) ==
    {t \in Tasks : /\ t[2] = a
                   /\ \/ tasks[t].pc \in {"authorizing", "requesting"}
                      \/ tasks[t].pc = "done" /\ tasks[t].code \notin {None, "adapter_disabled"}}

\* release() is in a finally: only an attempt under way holds a slot.
Holders(a) == {t \in Tasks : t[2] = a /\ tasks[t].pc \in {"authorizing", "requesting"}}

Settle(t, result) ==
    tasks' = [tasks EXCEPT ![t].pc = "done", ![t].answer = result.answer,
                           ![t].products = result.products, ![t].code = result.code]

\* The gathered coroutines start, one right after the other:
\* _ensure_operable, or the check of health_check().  A disabled adapter is
\* not asked; nothing later looks at enabled again.
Begin(j) ==
    /\ \E t \in Tasks : t[1] = j /\ tasks[t].pc = "ready"
    /\ tasks' = [t \in Tasks |->
         IF t[1] # j \/ tasks[t].pc # "ready" THEN tasks[t]
         ELSE IF enabled[t[2]] THEN [tasks[t] EXCEPT !.pc = "pacing", !.attempt = 1]
         ELSE [tasks[t] EXCEPT !.pc = "done", !.code = "adapter_disabled"]]
    /\ UNCHANGED <<regs, registry, enabled, jobs, tokens, outcome, changes>>

IsProbe(t) == t[1] \in Sweeps

\* acquire(): a slot is shared by the searches and the probes of an adapter.
\* Amazon.in needs a token that does not expire soon, and asks nothing else of
\* a probe: with such a token in hand the probe is healthy at once.
AfterAcquire(t) ==
    IF Family[t[2]] # "amazon_in" THEN {"requesting"}
    ELSE IF t[2] \notin tokens    THEN {"authorizing"}
    ELSE {"authorizing", IF IsProbe(t) THEN "done" ELSE "requesting"}

Acquire(t) ==
    /\ tasks[t].pc = "pacing"
    /\ Cardinality(Holders(t[2])) < Slots
    /\ \E next \in AfterAcquire(t) : tasks' = [tasks EXCEPT ![t].pc = next]
    /\ UNCHANGED <<regs, registry, enabled, jobs, tokens, outcome, changes>>

AttemptsOf(t) == IF IsProbe(t) THEN 1 ELSE MaxAttempts

\* The attempt is over and the slot is given back.  A failure that is worth a
\* retry is retried.
Conclude(t, result) ==
    IF result.code \in RetryableCodes /\ tasks[t].attempt < AttemptsOf(t)
    THEN tasks' = [tasks EXCEPT ![t].pc = "backing_off"]
    ELSE Settle(t, result)

\* ensure_access_token: the token is kept until shortly before it expires.
Authorized(t) ==
    /\ tasks[t].pc = "authorizing"
    /\ tokens' = tokens \cup {t[2]}
    /\ tasks' = [tasks EXCEPT ![t].pc = IF IsProbe(t) THEN "done" ELSE "requesting"]
    /\ UNCHANGED <<regs, registry, enabled, jobs, outcome, changes>>

Refused(t, answer) ==
    /\ tasks[t].pc = "authorizing"
    /\ Conclude(t, [answer |-> answer, products |-> {}, code |-> CodeOf(answer)])
    /\ UNCHANGED <<regs, registry, enabled, jobs, tokens, outcome, changes>>

\* The retailer answers the request itself.
Answered(t) ==
    /\ tasks[t].pc = "requesting"
    /\ \E r \in Results[t[2]] :
         r.operation = jobs[t[1]].operation /\ Conclude(t, r.result)
    /\ UNCHANGED <<regs, registry, enabled, jobs, tokens, outcome, changes>>

Retry(t) ==
    /\ tasks[t].pc = "backing_off"
    /\ tasks' = [tasks EXCEPT ![t].pc = "pacing", ![t].attempt = @ + 1]
    /\ UNCHANGED <<regs, registry, enabled, jobs, tokens, outcome, changes>>

------------------------------------------------------------------------------
(* The gather() is over when its last task is.                             *)

Gathered(j) == /\ jobs[j].pc = "gathering"
               /\ \A t \in Tasks : t[1] = j => tasks[t].pc \in {"idle", "done"}
               /\ jobs' = [jobs EXCEPT ![j].pc = "returned"]

Asked(j) == {regs[i].adapter : i \in jobs[j].targets}

\* RetailerFleet.search: the tasks' results, one after the other; or the result
\* of a look-up, which is not normalized.
OutcomeOf(s) ==
    LET isLookup == jobs[s].operation \in Lookups
        products == UNION {tasks[<<s, a>>].products : a \in Asked(s)}
        failed == {a \in Asked(s) : tasks[<<s, a>>].code # None}
        unnormalized == {l \in products : ~isLookup /\ ~Normalizes(l)}
    IN  [products   |-> products,
         normalized |-> IF isLookup THEN {} ELSE products \ unnormalized,
         failures   |-> {<<RetailerOf[a], tasks[<<s, a>>].code>> : a \in failed}
                        \cup {<<l.retailer, "invalid_retailer_response">> :
                                l \in unnormalized},
         consulted  |-> {RetailerOf[a] : a \in Asked(s)},
         errors     |-> IF isLookup
                        THEN {CollectionFailure(tasks[<<s, a>>].code) : a \in failed}
                        ELSE {}]

ReturnSearch(s) ==
    /\ Gathered(s)
    /\ outcome' = [outcome EXCEPT ![s] = OutcomeOf(s)]
    /\ UNCHANGED <<regs, registry, enabled, tasks, tokens, changes>>

------------------------------------------------------------------------------
(* A page of a search: each asks the retailers anew, for as many hits as    *)
(* the pages up to it may show.                                             *)

Least(a, b) == IF a < b THEN a ELSE b

AdapterLimit(offset, limit) == Least(offset + limit, SearchMax)

\* Mutant: a client passes on what it is asked for.
MutItemCount(n) == n

\* search_items() and search(): itemCount and resultCount.
ItemCount(n) == Least(n, ItemCap)

\* What is persisted and shown, of the answers that search s got: what can be
\* normalized and has a price.  A retailer returns no more than it was asked for.
PageHits(s, n) ==
    LET first(answer) == SubSeq(HitLists[answer], 1,
                                Least(Len(HitLists[answer]), ItemCount(n)))
        from(a) == LET task == tasks[<<s, a>>] IN
            IF task.code = None /\ IsList(task.answer) /\ Family[a] # "other"
            THEN SearchProducts(Family[a], RetailerOf[a], first(task.answer), n)
            ELSE {}
    IN  {l \in UNION {from(a) : a \in Asked(s)} : l.priced /\ Normalizes(l)}

\* The page is cut out of all hits, in the order of retailers and SKUs.
SearchPage(s, offset, limit) ==
    LET hits == PageHits(s, AdapterLimit(offset, limit)) IN
    [from |-> hits, total |-> Cardinality(hits)]

------------------------------------------------------------------------------
\* The HealthCheckResult of one probe; checked_at stands for the sweep.
Report(h, a) == [status |-> HealthOf(tasks[<<h, a>>].code), sweep |-> h]

\* Mutant: the result is remembered under the retailer's id.
MutReturnSweep(h) ==
    /\ Gathered(h)
    /\ regs' = [i \in DOMAIN regs |->
         IF \E a \in Asked(h) : registry[RetailerOf[a]] = i
         THEN [regs[i] EXCEPT !.health = Report(h, CHOOSE a \in Asked(h) :
                                              registry[RetailerOf[a]] = i)]
         ELSE regs[i]]
    /\ UNCHANGED <<registry, enabled, tasks, tokens, outcome, changes>>

\* health_check, health_check_all: last_health of the captured registrations,
\* which may have been replaced or removed in the meantime.
ReturnSweep(h) ==
    /\ Gathered(h)
    /\ regs' = [i \in DOMAIN regs |->
         IF i \in jobs[h].targets
         THEN [regs[i] EXCEPT !.health = Report(h, regs[i].adapter)] ELSE regs[i]]
    /\ UNCHANGED <<registry, enabled, tasks, tokens, outcome, changes>>

------------------------------------------------------------------------------
Operate == \/ \E a \in Adapters : Register(a)
           \/ \E r \in Retailers : Unregister(r)
           \/ \E r \in Retailers, value \in BOOLEAN : SetEnabled(r, value)

Call(t) == \/ Acquire(t) \/ Authorized(t) \/ Answered(t) \/ Retry(t)
           \/ \E answer \in Refusals : Refused(t, answer)

Return(j) == \/ j \in Searches /\ ReturnSearch(j)
             \/ j \in Sweeps /\ ReturnSweep(j)

\* What the event loop does by itself once a job has been started.
Progress == \/ \E j \in Jobs : Begin(j) \/ Return(j)
            \/ \E t \in Tasks : Call(t)

Next == \/ Operate
        \/ \E s \in Searches : StartSearch(s) \/ StartLookup(s)
        \/ \E h \in Sweeps : StartSweep(h)
        \/ Progress

Spec == Init /\ [][Next]_vars

\* The event loop does not stop while a coroutine can go on: a slot is free,
\* a pause is over, or a request is answered or runs into its timeout.  No
\* coroutine is preferred.
FairSpec == Spec /\ WF_vars(Progress)

------------------------------------------------------------------------------
\* A hit that has what a product needs.
Complete(family, hit) ==
    hit.id # None /\ hit.title /\ (family = "flipkart" => hit.layout # "none")

\* A hit with something that neither mapping expects: no offer is an object, or
\* an amount is NaN or in no currency.
Poison(family, hit) ==
    IF family = "flipkart"
    THEN \E i \in DOMAIN hit.prices :
           {hit.prices[i], hit.mrp, hit.delivery} \cap {"nan", "odd_currency"} # {}
    ELSE \/ hit.offers # <<>> /\ \A i \in DOMAIN hit.offers : ~hit.offers[i].typed
         \/ \E i \in DOMAIN hit.offers :
              {hit.offers[i].price, hit.offers[i].basis} \cap {"nan", "odd_currency"} # {}

\* Every complete hit of an answer is among the products of the search, unless as
\* many as were asked for precede it and are.
HasItsHits(s, a) ==
    LET hits == HitLists[tasks[<<s, a>>].answer]
        returned == {i \in DOMAIN hits : Complete(Family[a], hits[i]) /\
                       \E l \in outcome[s].products :
                         l.retailer = RetailerOf[a] /\ l.sku = hits[i].id}
    IN  \A i \in DOMAIN hits : Complete(Family[a], hits[i]) =>
          i \in returned \/ Cardinality({k \in returned : k < i}) >= Limit

\* A consulted retailer that failed, or has a product that cannot be normalized,
\* is in the failures; one that did not fail has its hits among the products;
\* and no answer is lost to a hit that one of the mappings expects.
EveryRetailerIsHeard(s) ==
    /\ outcome[s].consulted = {RetailerOf[a] : a \in Asked(s)}
    /\ \A a \in Asked(s) : LET task == tasks[<<s, a>>] IN
         /\ task.code # None => <<RetailerOf[a], task.code>> \in outcome[s].failures
         /\ task.code = None /\ Family[a] # "other" /\ jobs[s].operation \notin Lookups
              => HasItsHits(s, a)
         /\ task.code = "unexpected_adapter_failure" /\ IsList(task.answer) =>
              \E hit \in Range(HitLists[task.answer]) : Poison(Family[a], hit)
    /\ \A l \in outcome[s].products :
         \/ l \in outcome[s].normalized \/ jobs[s].operation \in Lookups
         \/ \E f \in outcome[s].failures : f[1] = l.retailer

\* A product was returned by the retailer whose name it bears.
NothingIsForeign(s) ==
    \A l \in outcome[s].products : \E a \in Asked(s) :
      /\ RetailerOf[a] = l.retailer /\ IsList(tasks[<<s, a>>].answer)
      /\ \E hit \in Range(HitLists[tasks[<<s, a>>].answer]) :
           l.sku = IF Family[a] = "other" THEN hit.sku ELSE hit.id

\* What a collection job may retry has used up the adapter's own attempts.
RetriesAreUsedUp(s) ==
    \A e \in outcome[s].errors :
      /\ e.retryable = (e.category \in RetryableCategories)
      /\ e.retryable => \A a \in Asked(s) : tasks[<<s, a>>].attempt = MaxAttempts

\* Whatever the other retailers do, whatever happens to the registry meanwhile
\* and whatever else is in a retailer's answer, a search that returns has every
\* complete hit of every retailer that answered, with or without a price; a
\* consulted retailer without its hits, or with one that cannot be normalized,
\* is in the failures; and no answer is lost to a hit unless that hit has
\* something no mapping expects.  Neither a search nor a look-up returns
\* anything under the name of a retailer that did not return it, and a look-up
\* is recorded as worth a retry only when its own attempts are used up
\* (fleet.py: "A retailer failing never fails the whole fan-out";
\* amazon_in/adapter.py: "Skip individual unmappable hits rather than failing
\* the whole search").
FanOutIsIsolated ==
    \A s \in Searches : outcome[s] # None =>
      EveryRetailerIsHeard(s) /\ NothingIsForeign(s) /\ RetriesAreUsedUp(s)

\* All pages of a search are cut out of one list and state one total ("Total
\* number of matching records, ignoring pagination", Page.total), although each
\* asks for as many hits as the pages so far need and sorts what it gets, if a
\* page is at least as large as a retailer's answers get (10; the default page
\* is of 50).  Smaller pages repeat some hits and never show others
\* (ProductDiscoveryService.search over the clients' caps).
PagesShareOneList ==
    \A s \in Searches : outcome[s] # None /\ jobs[s].operation \notin Lookups =>
      \A limit \in {n \in PageLimits : n >= ItemCap} :
        Cardinality({SearchPage(s, offset, limit) : offset \in Offsets}) = 1

\* What a registration remembers as its last health was measured by a sweep
\* that captured it, on its own adapter: a probe that outlives a replacement
\* says nothing about the new adapter (registry.py, health_check_all).
HealthIsOfThisAdapter ==
    \A i \in DOMAIN regs : regs[i].health # None =>
      \E h \in Sweeps : /\ jobs[h].pc = "returned" /\ i \in jobs[h].targets
                        /\ regs[i].health = Report(h, regs[i].adapter)

\* Every search and every health sweep returns, however the retailers answer
\* and whoever else uses their slots: failures, retries and disabled adapters
\* leave nobody waiting (execution.py: every attempt gives its slot back).
EveryFanOutReturns ==
    \A j \in Jobs : jobs[j].pc = "gathering" ~> jobs[j].pc = "returned"
==============================================================================
