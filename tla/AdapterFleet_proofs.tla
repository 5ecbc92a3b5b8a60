------------------------ MODULE AdapterFleet_proofs ------------------------
(***************************************************************************)
(* Health results stay with the adapter they were measured on, and pages   *)
(* that are at least as large as an answer share one list, for every set   *)
(* of retailers, adapters, searches and sweeps, and any answers.           *)
(***************************************************************************)
EXTENDS AdapterFleet, Integers, FiniteSetTheorems, SequenceTheorems, TLAPS

\* A registration is never taken back, and a job refers to those it captured.
Registration == [adapter : Adapters, health : {None} \cup
                 [status : {"healthy", "unknown", "degraded", "unhealthy"}, sweep : Sweeps]]

RegistryInv ==
    /\ regs \in Seq(Registration)
    /\ registry \in [Retailers -> 0..Len(regs)]
    /\ jobs \in [Jobs -> [pc : {"idle", "gathering", "returned"},
                          operation : {None, "search_products", "health_check"} \cup Lookups,
                          targets : SUBSET (1..Len(regs))]]

\* The coroutines of a job that has returned are over.
TaskInv ==
    /\ DOMAIN tasks = Tasks
    /\ \A t \in Tasks : jobs[t[1]].pc = "returned" => tasks[t].pc \in {"idle", "done"}

IInv == RegistryInv /\ TaskInv /\ HealthIsOfThisAdapter

-----------------------------------------------------------------------------
LEMMA SomeReport ==
    ASSUME NEW h \in Sweeps, NEW a
    PROVE  Report(h, a) \in [status : {"healthy", "unknown", "degraded", "unhealthy"},
                             sweep : Sweeps]
BY DEF Report, HealthOf

LEMMA RegisteredAdapters ==
    ASSUME RegistryInv
    PROVE  \A i \in DOMAIN regs : regs[i].adapter \in Adapters
<1>1. \A i \in DOMAIN regs : regs[i] \in Registration
  BY DEF RegistryInv
<1> QED  BY <1>1 DEF Registration

\* Initially nothing was measured and no job has been started.
LEMMA InitInv == ASSUME Init PROVE IInv
<1>1. /\ Configured \in Seq(Adapters) /\ DOMAIN Configured = 1..Len(Configured)
      /\ Len(Configured) \in Nat
  BY FleetAssumption
<1>2. regs \in Seq(Registration) /\ Len(regs) = Len(Configured)
  <2>1. \A i \in 1..Len(Configured) :
          [adapter |-> Configured[i], health |-> None] \in Registration
    BY <1>1 DEF Registration
  <2> QED  BY <1>1, <2>1 DEF Init
<1>3. registry \in [Retailers -> 0..Len(regs)]
  <2>1. ASSUME NEW r \in Retailers PROVE registry[r] \in 0..Len(regs)
    <3> DEFINE mine == {i \in DOMAIN Configured : RetailerOf[Configured[i]] = r}
    <3>1. registry[r] = IF mine = {} THEN 0 ELSE CHOOSE i \in mine : TRUE
      BY DEF Init
    <3>2. mine \subseteq 1..Len(regs)
      BY <1>1, <1>2
    <3> QED  BY <1>1, <1>2, <3>1, <3>2
  <2> QED  BY <2>1 DEF Init
<1>4. jobs \in [Jobs -> [pc : {"idle", "gathering", "returned"},
                         operation : {None, "search_products", "health_check"} \cup Lookups,
                         targets : SUBSET (1..Len(regs))]]
  BY DEF Init
<1>5. TaskInv
  BY DEF Init, TaskInv, Tasks
<1>6. HealthIsOfThisAdapter
  BY <1>1 DEF Init, HealthIsOfThisAdapter
<1> QED  BY <1>2, <1>3, <1>4, <1>5, <1>6 DEF IInv, RegistryInv

\* A step of coroutines: those of a job that has returned do not move.
LEMMA CoroutineStep ==
    ASSUME IInv, UNCHANGED <<regs, registry, jobs>>, DOMAIN tasks' = Tasks,
           \A t \in Tasks : tasks'[t] = tasks[t] \/ jobs[t[1]].pc # "returned"
    PROVE  IInv'
<1>1. RegistryInv'
  BY DEF IInv, RegistryInv
<1>2. TaskInv'
  BY DEF IInv, TaskInv
<1>3. ASSUME NEW h \in Sweeps, jobs[h].pc = "returned", NEW a \in Adapters
      PROVE  Report(h, a)' = Report(h, a)
  <2>1. <<h, a>> \in Tasks
    BY DEF Tasks, Jobs
  <2> QED  BY <2>1, <1>3 DEF Report
<1>4. HealthIsOfThisAdapter'
  BY <1>3, RegisteredAdapters DEF IInv, HealthIsOfThisAdapter
<1> QED  BY <1>1, <1>2, <1>4 DEF IInv

\* An operator's call measures nothing, and takes no registration back.
LEMMA OperateKeeps ==
    ASSUME IInv, Operate
    PROVE  IInv'
<1>1. jobs' = jobs /\ tasks' = tasks
  BY DEF Operate, Register, Unregister, SetEnabled
<1>2. \A h, a : Report(h, a)' = Report(h, a)
  BY <1>1 DEF Report
<1>3. regs \in Seq(Registration) /\ Len(regs) \in Nat /\ DOMAIN regs = 1..Len(regs)
  BY DEF IInv, RegistryInv
<1>4. CASE regs' = regs /\ registry' \in [Retailers -> 0..Len(regs)]
  BY <1>1, <1>2, <1>4 DEF IInv, RegistryInv, TaskInv, HealthIsOfThisAdapter
<1>5. ASSUME NEW a \in Adapters, Register(a) PROVE IInv'
  <2> DEFINE new == [adapter |-> a, health |-> None]
  <2>1. new \in Registration
    BY DEF Registration
  <2>2. /\ regs' = Append(regs, new) /\ regs' \in Seq(Registration)
        /\ Len(regs') = Len(regs) + 1 /\ DOMAIN regs' = 1..Len(regs')
        /\ \A i \in 1..Len(regs) : regs'[i] = regs[i]
        /\ regs'[Len(regs) + 1] = new
    BY <1>3, <1>5, <2>1, AppendProperties DEF Register
  <2>3. registry' \in [Retailers -> 0..Len(regs')]
    <3>1. Len(regs) + 1 \in 0..Len(regs') /\ RetailerOf[a] \in Retailers
      BY <1>3, <2>2, FleetAssumption
    <3>2. registry \in [Retailers -> 0..Len(regs')]
      BY <1>3, <2>2 DEF IInv, RegistryInv
    <3> QED  BY <1>5, <3>1, <3>2 DEF Register
  <2>4. jobs' \in [Jobs -> [pc : {"idle", "gathering", "returned"},
                            operation : {None, "search_products", "health_check"} \cup Lookups,
                            targets : SUBSET (1..Len(regs'))]]
    <3>1. SUBSET (1..Len(regs)) \subseteq SUBSET (1..Len(regs'))
      BY <1>3, <2>2
    <3> QED  BY <1>1, <3>1 DEF IInv, RegistryInv
  <2>5. HealthIsOfThisAdapter'
    <3> SUFFICES ASSUME NEW i \in DOMAIN regs', regs'[i].health # None
                 PROVE  \E h \in Sweeps : /\ jobs[h].pc = "returned" /\ i \in jobs[h].targets
                                          /\ regs'[i].health = Report(h, regs'[i].adapter)
      BY <1>1, <1>2 DEF HealthIsOfThisAdapter
    <3>1. i \in DOMAIN regs /\ regs'[i] = regs[i]
      BY <1>3, <2>2
    <3> QED  BY <3>1 DEF IInv, HealthIsOfThisAdapter
  <2> QED  BY <1>1, <2>2, <2>3, <2>4, <2>5 DEF IInv, RegistryInv, TaskInv
<1>6. ASSUME NEW r \in Retailers, Unregister(r) PROVE IInv'
  BY <1>4, <1>6, <1>3 DEF Unregister, IInv, RegistryInv
<1>7. ASSUME NEW r \in Retailers, NEW value \in BOOLEAN, SetEnabled(r, value) PROVE IInv'
  BY <1>4, <1>7 DEF SetEnabled, IInv, RegistryInv
<1> QED  BY <1>5, <1>6, <1>7 DEF Operate

\* A job that starts captures registrations that exist, and none of its
\* coroutines has been seen by anybody.
LEMMA GatherKeeps ==
    ASSUME IInv, NEW j \in Jobs, NEW captured \in SUBSET Registered,
           NEW operation \in {"search_products", "health_check"} \cup Lookups,
           Gather(j, operation, captured)
    PROVE  IInv'
<1>1. /\ jobs[j].pc = "idle" /\ regs' = regs /\ registry' = registry
      /\ jobs' = [jobs EXCEPT ![j] = [pc |-> "gathering", operation |-> operation,
                                      targets |-> captured]]
      /\ DOMAIN tasks' = Tasks
      /\ \A t \in Tasks : t[1] # j => tasks'[t] = tasks[t]
  BY DEF Gather
<1>2. captured \subseteq 1..Len(regs)
  BY DEF Registered, IInv, RegistryInv
<1>3. RegistryInv'
  BY <1>1, <1>2 DEF IInv, RegistryInv
<1>4. \A k \in Jobs : jobs'[k].pc = "returned" => k # j /\ jobs'[k] = jobs[k]
  BY <1>1 DEF IInv, RegistryInv
<1>5. TaskInv'
  BY <1>1, <1>4 DEF IInv, TaskInv, Tasks
<1>6. ASSUME NEW h \in Sweeps, jobs[h].pc = "returned", NEW a \in Adapters
      PROVE  Report(h, a)' = Report(h, a) /\ jobs'[h] = jobs[h]
  <2>1. <<h, a>> \in Tasks /\ h \in Jobs /\ h # j
    BY <1>1, <1>6 DEF Tasks, Jobs
  <2> QED  BY <1>1, <2>1 DEF Report, IInv, RegistryInv
<1>7. HealthIsOfThisAdapter'
  BY <1>1, <1>6, RegisteredAdapters DEF IInv, HealthIsOfThisAdapter
<1> QED  BY <1>3, <1>5, <1>7 DEF IInv

LEMMA StartKeeps ==
    ASSUME IInv
    PROVE  /\ \A s \in Searches : StartSearch(s) \/ StartLookup(s) => IInv'
           /\ \A h \in Sweeps : StartSweep(h) => IInv'
<1>1. EnabledOnes \subseteq Registered /\ \A c : Serving(c) \subseteq Registered
  BY DEF EnabledOnes, Serving
<1>2. ASSUME NEW s \in Searches, StartSearch(s) PROVE IInv'
  BY <1>1, <1>2, GatherKeeps DEF StartSearch, Jobs
<1>3. ASSUME NEW s \in Searches, StartLookup(s) PROVE IInv'
  <2>1. PICK i \in EnabledOnes, operation \in Lookups : Gather(s, operation, {i})
    BY <1>3 DEF StartLookup
  <2> QED  BY <1>1, <2>1, GatherKeeps DEF Jobs
<1>4. ASSUME NEW h \in Sweeps, StartSweep(h) PROVE IInv'
  <2>1. PICK captured \in {Registered, EnabledOnes} \cup {{i} : i \in Registered} :
          Gather(h, "health_check", captured)
    BY <1>4 DEF StartSweep
  <2>2. captured \in SUBSET Registered
    BY <1>1
  <2> QED  BY <2>1, <2>2, GatherKeeps DEF Jobs
<1> QED  BY <1>2, <1>3, <1>4

\* Calls move only coroutines that have begun and are not over.
LEMMA CallKeeps ==
    ASSUME IInv
    PROVE  /\ \A j \in Jobs : Begin(j) => IInv'
           /\ \A t \in Tasks : Call(t) => IInv'
<1>1. \A t \in Tasks : tasks[t].pc \notin {"idle", "done"} => jobs[t[1]].pc # "returned"
  BY DEF IInv, TaskInv
<1>2. ASSUME NEW j \in Jobs, Begin(j) PROVE IInv'
  <2>1. \A t \in Tasks : tasks'[t] = tasks[t] \/ tasks[t].pc = "ready"
    BY <1>2 DEF Begin
  <2> QED  BY <1>1, <1>2, <2>1, CoroutineStep DEF Begin
<1>3. ASSUME NEW t \in Tasks, Call(t) PROVE IInv'
  <2>1. /\ tasks[t].pc \in {"pacing", "authorizing", "requesting", "backing_off"}
        /\ UNCHANGED <<regs, registry, jobs>>
    BY <1>3 DEF Call, Acquire, Authorized, Answered, Retry, Refused
  <2>2. DOMAIN tasks' = Tasks /\ \A u \in Tasks : tasks'[u] = tasks[u] \/ u = t
    BY <1>3 DEF Call, Acquire, Authorized, Answered, Retry, Refused, Conclude, Settle,
                IInv, TaskInv
  <2> QED  BY <1>1, <2>1, <2>2, CoroutineStep
<1> QED  BY <1>2, <1>3

LEMMA ReturnSearchKeeps ==
    ASSUME IInv, NEW s \in Searches, ReturnSearch(s)
    PROVE  IInv'
<1>1. /\ jobs[s].pc = "gathering" /\ UNCHANGED <<regs, registry, tasks>>
      /\ \A t \in Tasks : t[1] = s => tasks[t].pc \in {"idle", "done"}
      /\ jobs' = [jobs EXCEPT ![s].pc = "returned"]
  BY DEF ReturnSearch, Gathered
<1>2. RegistryInv'
  BY <1>1 DEF IInv, RegistryInv, Jobs
<1>3. TaskInv'
  BY <1>1 DEF IInv, RegistryInv, TaskInv, Tasks
<1>4. \A h \in Sweeps : h \in Jobs /\ h # s /\ jobs'[h] = jobs[h]
  BY <1>1, FleetAssumption DEF IInv, RegistryInv, Jobs
<1>5. \A h, a : Report(h, a)' = Report(h, a)
  BY <1>1 DEF Report
<1>6. HealthIsOfThisAdapter'
  BY <1>1, <1>4, <1>5 DEF IInv, HealthIsOfThisAdapter
<1> QED  BY <1>2, <1>3, <1>6 DEF IInv

\* A sweep writes to the registrations that it captured, each its own result.
LEMMA ReturnSweepKeeps ==
    ASSUME IInv, NEW h \in Sweeps, ReturnSweep(h)
    PROVE  IInv'
<1>1. /\ jobs[h].pc = "gathering" /\ UNCHANGED <<registry, tasks>>
      /\ \A t \in Tasks : t[1] = h => tasks[t].pc \in {"idle", "done"}
      /\ jobs' = [jobs EXCEPT ![h].pc = "returned"]
      /\ regs' = [i \in DOMAIN regs |->
           IF i \in jobs[h].targets
           THEN [regs[i] EXCEPT !.health = Report(h, regs[i].adapter)] ELSE regs[i]]
  BY DEF ReturnSweep, Gathered
<1>2. regs \in Seq(Registration) /\ Len(regs) \in Nat /\ DOMAIN regs = 1..Len(regs)
  BY DEF IInv, RegistryInv
<1>3. \A i \in DOMAIN regs :
        /\ regs'[i] \in Registration /\ regs'[i].adapter = regs[i].adapter
        /\ i \in jobs[h].targets => regs'[i].health = Report(h, regs[i].adapter)
        /\ i \notin jobs[h].targets => regs'[i] = regs[i]
  <2> SUFFICES ASSUME NEW i \in DOMAIN regs
               PROVE  /\ regs'[i] \in Registration /\ regs'[i].adapter = regs[i].adapter
                      /\ i \in jobs[h].targets => regs'[i].health = Report(h, regs[i].adapter)
                      /\ i \notin jobs[h].targets => regs'[i] = regs[i]
    OBVIOUS
  <2> DEFINE mine == Report(h, regs[i].adapter)
  <2>1. regs[i] \in Registration
    BY <1>2
  <2>2. mine \in [status : {"healthy", "unknown", "degraded", "unhealthy"}, sweep : Sweeps]
    BY SomeReport
  <2>3. regs'[i] = IF i \in jobs[h].targets THEN [regs[i] EXCEPT !.health = mine] ELSE regs[i]
    BY <1>1
  <2> HIDE DEF mine
  <2>4. [regs[i] EXCEPT !.health = mine] \in Registration
    BY <2>1, <2>2 DEF Registration
  <2>5. /\ [regs[i] EXCEPT !.health = mine].health = mine
        /\ [regs[i] EXCEPT !.health = mine].adapter = regs[i].adapter
    BY <2>1 DEF Registration
  <2> QED  BY <2>1, <2>3, <2>4, <2>5 DEF mine
<1>4. regs' \in Seq(Registration) /\ Len(regs') = Len(regs) /\ DOMAIN regs' = DOMAIN regs
  BY <1>1, <1>2, <1>3
<1>5. h \in Jobs
  BY DEF Jobs
<1>6. /\ jobs'[h].pc = "returned" /\ jobs'[h].targets = jobs[h].targets
      /\ \A j \in Jobs : j # h => jobs'[j] = jobs[j]
  BY <1>1, <1>5 DEF IInv, RegistryInv
<1>7. RegistryInv'
  BY <1>1, <1>4, <1>5 DEF IInv, RegistryInv
<1>8. TaskInv'
  BY <1>1, <1>6 DEF IInv, TaskInv, Tasks
<1>9. \A k, a : Report(k, a)' = Report(k, a)
  BY <1>1 DEF Report
<1>10. HealthIsOfThisAdapter'
  <2> SUFFICES ASSUME NEW i \in DOMAIN regs, regs'[i].health # None
               PROVE  \E k \in Sweeps : /\ jobs'[k].pc = "returned" /\ i \in jobs'[k].targets
                                        /\ regs'[i].health = Report(k, regs'[i].adapter)
    BY <1>4, <1>9 DEF HealthIsOfThisAdapter
  <2>1. CASE i \in jobs[h].targets
    BY <1>3, <1>6, <2>1
  <2>2. CASE i \notin jobs[h].targets
    <3>1. PICK k \in Sweeps : /\ jobs[k].pc = "returned" /\ i \in jobs[k].targets
                              /\ regs[i].health = Report(k, regs[i].adapter)
      BY <1>3, <2>2 DEF IInv, HealthIsOfThisAdapter
    <3>2. k # h /\ k \in Jobs
      BY <1>1, <3>1 DEF Jobs
    <3> QED  BY <1>3, <1>6, <2>2, <3>1, <3>2
  <2> QED  BY <2>1, <2>2
<1> QED  BY <1>7, <1>8, <1>10 DEF IInv

\* Registrations, jobs and coroutines agree in every state.
THEOREM InductiveInvariant == Spec => []IInv
<1>1. IInv /\ [Next]_vars => IInv'
  <2> SUFFICES ASSUME IInv, [Next]_vars PROVE IInv'
    OBVIOUS
  <2>1. CASE UNCHANGED vars
    BY <2>1, CoroutineStep DEF vars, IInv, TaskInv
  <2>2. ASSUME NEW j \in Jobs, Return(j) PROVE IInv'
    BY <2>2, ReturnSearchKeeps, ReturnSweepKeeps DEF Return
  <2>3. CASE Progress
    BY <2>2, <2>3, CallKeeps DEF Progress
  <2> QED  BY <2>1, <2>3, OperateKeeps, StartKeeps DEF Next
<1> QED  BY <1>1, InitInv, PTL DEF Spec

\* What a registration remembers as its last health was measured on its own
\* adapter, by a sweep that captured it, however adapters are swapped meanwhile
\* (health_check_all).
THEOREM HealthStays == Spec => []HealthIsOfThisAdapter
<1>1. IInv => HealthIsOfThisAdapter
  BY DEF IInv
<1> QED  BY <1>1, InductiveInvariant, PTL

-----------------------------------------------------------------------------
(* The first of some numbers.                                              *)

LEMMA BelowIsWellFounded == IsWellFoundedOn(OpToRel(<, Nat), Nat)
BY NatLessThanWellFounded

LEMMA MinimalNumber ==
    ASSUME NEW R, IsWellFoundedOn(R, Nat), NEW S \in SUBSET Nat, S # {}
    PROVE  \E m \in S : \A n \in S : ~(<<n, m>> \in R)
BY WFMin

LEMMA BelowIsRelated ==
    ASSUME NEW x \in Nat, NEW y \in Nat, y < x
    PROVE  <<y, x>> \in OpToRel(<, Nat)
BY Zenon DEF OpToRel

LEMMA LeastNumber ==
    ASSUME NEW S \in SUBSET Nat, S # {}
    PROVE  \E m \in S : \A n \in S : m <= n
<1>1. PICK m \in S : \A n \in S : ~(<<n, m>> \in OpToRel(<, Nat))
  BY BelowIsWellFounded, MinimalNumber
<1>2. \A n \in S : ~(n < m)
  BY <1>1, BelowIsRelated
<1>3. m \in Nat /\ \A n \in S : n \in Nat
  OBVIOUS
<1> QED  BY <1>2, <1>3

LEMMA MinIsThere ==
    ASSUME NEW S \in SUBSET Nat, S # {}
    PROVE  Min(S) \in S
BY LeastNumber, Zenon DEF Min

-----------------------------------------------------------------------------
(* What stops the mapping of a hit.                                        *)

LEMMA ReadingOf ==
    ASSUME NEW n \in Nat, NEW nodes, DOMAIN nodes = 1..n, ReadingRaises(nodes) = "leak"
    PROVE  \E i \in 1..n : nodes[i] = "nan"
<1> DEFINE bad == {i \in DOMAIN nodes : nodes[i] \in {"garbled", "nan"}}
<1>1. bad # {} /\ nodes[Min(bad)] # "garbled"
  BY AnswersAssumption DEF ReadingRaises
<1>2. Min(bad) \in bad
  BY <1>1, MinIsThere
<1> QED  BY <1>1, <1>2

\* What stops a price only costs the price, or it is nothing a mapping expects.
LEMMA PriceOf ==
    ASSUME NEW family \in {"amazon_in", "flipkart"}, NEW hit,
           family = "amazon_in" => hit.offers \in Seq(Range(hit.offers)),
           family = "flipkart" => DOMAIN hit.prices = 1..3
    PROVE  /\ PriceRaises(family, hit) \in {None, "invalid", "leak"}
           /\ PriceRaises(family, hit) = "leak" => Poison(family, hit)
           /\ family = "amazon_in" /\ BuyBoxLeaks(hit) => Poison(family, hit)
<1>0. \A nodes : ReadingRaises(nodes) \in {None, "invalid", "leak"}
  BY DEF ReadingRaises
<1>1. family = "amazon_in" /\ BuyBoxLeaks(hit) => Poison(family, hit)
  BY DEF BuyBoxLeaks, TypedOffers, Poison
<1>2. CASE family = "amazon_in"
  <2>1. PriceRaises(family, hit) = AmazonPriceRaises(hit)
    BY <1>2 DEF PriceRaises
  <2>2. AmazonPriceRaises(hit) \in {None, "invalid", "leak"}
    BY <1>0, Zenon DEF AmazonPriceRaises
  <2>3. ASSUME AmazonPriceRaises(hit) = "leak", ~BuyBoxLeaks(hit) PROVE Poison(family, hit)
    <3> DEFINE typed == TypedOffers(hit)
               winners == {i \in typed : hit.offers[i].buyBox}
               of == IF winners # {} THEN winners ELSE typed
    <3>1. hit.offers # <<>> /\ typed # {}
      BY <2>3, AnswersAssumption DEF AmazonPriceRaises, BuyBoxLeaks
    <3>2. typed \subseteq DOMAIN hit.offers /\ DOMAIN hit.offers \subseteq Nat
      BY <1>2 DEF TypedOffers
    <3>3. of # {} /\ of \subseteq typed
      BY <3>1
    <3>4. Min(of) \in DOMAIN hit.offers /\ BuyBox(hit) = hit.offers[Min(of)]
      BY <3>2, <3>3, MinIsThere DEF BuyBox
    <3> HIDE DEF of
    <3>5. \/ BuyBox(hit).price = "odd_currency"
          \/ ReadingRaises(<<BuyBox(hit).price, BuyBox(hit).basis>>) = "leak"
      BY <2>3, AnswersAssumption DEF AmazonPriceRaises
    <3>6. BuyBox(hit).price \in {"nan", "odd_currency"} \/ BuyBox(hit).basis = "nan"
      <4> DEFINE nodes == <<BuyBox(hit).price, BuyBox(hit).basis>>
      <4>1. DOMAIN nodes = 1..2 /\ nodes[1] = BuyBox(hit).price /\ nodes[2] = BuyBox(hit).basis
        OBVIOUS
      <4> HIDE DEF nodes
      <4>2. ReadingRaises(nodes) = "leak" => \E i \in 1..2 : nodes[i] = "nan"
        BY <4>1, ReadingOf
      <4> QED  BY <3>5, <4>1, <4>2 DEF nodes
    <3> QED  BY <1>2, <3>4, <3>6 DEF Poison
  <2> QED  BY <1>1, <1>2, <2>1, <2>2, <2>3
<1>3. CASE family = "flipkart"
  <2>1. PriceRaises(family, hit) = FlipkartPriceRaises(hit)
    BY <1>3 DEF PriceRaises
  <2>2. FlipkartPriceRaises(hit) \in {None, "invalid", "leak"}
    BY <1>0, Zenon DEF FlipkartPriceRaises
  <2>3. ASSUME FlipkartPriceRaises(hit) = "leak" PROVE Poison(family, hit)
    <3>1. PricesThere(hit) # {} /\ PricesThere(hit) \subseteq 1..3
      BY <1>3, <2>3, AnswersAssumption DEF FlipkartPriceRaises, PricesThere, Named
    <3>2. Min(PricesThere(hit)) \in DOMAIN hit.prices
      BY <1>3, <3>1, MinIsThere
    <3>3. \/ DisplayedPrice(hit) = "odd_currency"
          \/ ReadingRaises(<<DisplayedPrice(hit), hit.mrp, Delivery(hit)>>) = "leak"
      BY <2>3, AnswersAssumption DEF FlipkartPriceRaises
    <3>4. \/ DisplayedPrice(hit) \in {"nan", "odd_currency"}
          \/ hit.mrp = "nan" \/ Delivery(hit) = "nan"
      <4> DEFINE nodes == <<DisplayedPrice(hit), hit.mrp, Delivery(hit)>>
      <4>1. /\ DOMAIN nodes = 1..3 /\ nodes[1] = DisplayedPrice(hit)
            /\ nodes[2] = hit.mrp /\ nodes[3] = Delivery(hit)
        OBVIOUS
      <4> HIDE DEF nodes
      <4>2. ReadingRaises(nodes) = "leak" => \E i \in 1..3 : nodes[i] = "nan"
        BY <4>1, ReadingOf
      <4> QED  BY <3>3, <4>1, <4>2 DEF nodes
    <3> QED  BY <1>3, <3>2, <3>4 DEF Poison, DisplayedPrice, Delivery
  <2> QED  BY <1>3, <2>1, <2>2, <2>3
<1> QED  BY <1>2, <1>3

\* A hit becomes a product if it is complete, and unless it is poison.
LEMMA HitOf ==
    ASSUME NEW family \in {"amazon_in", "flipkart"}, NEW hit,
           family = "amazon_in" => hit.offers \in Seq(Range(hit.offers)),
           family = "flipkart" => DOMAIN hit.prices = 1..3
    PROVE  /\ Raised(family, hit) = None => Complete(family, hit)
           /\ Complete(family, hit) => Raised(family, hit) \in {None, "leak"}
           /\ Raised(family, hit) = "leak" => Poison(family, hit)
           /\ \A operation : LookupRaises(family, operation, hit) = "leak" => Poison(family, hit)
<1>1. /\ PriceRaises(family, hit) \in {None, "invalid", "leak"}
      /\ PriceRaises(family, hit) = "leak" => Poison(family, hit)
      /\ family = "amazon_in" /\ BuyBoxLeaks(hit) => Poison(family, hit)
  BY PriceOf
<1>2. Complete(family, hit) <=> Identified(family, hit) /\ hit.title
  BY DEF Complete, Identified
<1>3. Raised(family, hit) = "leak" => PriceRaises(family, hit) = "leak"
  BY AnswersAssumption DEF Raised
<1>4. \A operation : LookupRaises(family, operation, hit) = "leak" => Poison(family, hit)
  BY <1>1, <1>3, AnswersAssumption, Zenon DEF LookupRaises
<1> QED  BY <1>1, <1>2, <1>3, <1>4, AnswersAssumption DEF Raised

\* A search that no hit stops has every hit that can be a product, unless as many
\* as it may return precede it.
LEMMA SearchOf ==
    ASSUME NEW family, NEW r, NEW m \in Nat, NEW hits, DOMAIN hits = 1..m,
           NEW n \in Nat, NEW i \in 1..m
    PROVE  \/ i \in LookedAt(family, hits, n)
           \/ Cardinality({k \in LookedAt(family, hits, n) :
                             k < i /\ Raised(family, hits[k]) = None}) >= n
<1> DEFINE Good(j) == {k \in 1..(j - 1) : Raised(family, hits[k]) = None}
           Full == {j \in 1..m : ~(Cardinality(Good(j)) < n)}
           got == {k \in LookedAt(family, hits, n) : k < i /\ Raised(family, hits[k]) = None}
<1>1. LookedAt(family, hits, n) = 1..m \ Full
  BY DEF LookedAt
<1>2. ASSUME i \in Full PROVE Cardinality(got) >= n
  <2>1. PICK j \in Full : \A k \in Full : j <= k
    <3>1. Full \subseteq 1..m /\ 1..m \subseteq Nat /\ i \in Full
      BY <1>2
    <3> HIDE DEF Full
    <3> QED  BY <3>1, LeastNumber
  <2>2. j \in 1..m /\ j <= i
    BY <1>2, <2>1
  <2>3. Good(j) \subseteq got
    <3> SUFFICES ASSUME NEW k \in 1..(j - 1), Raised(family, hits[k]) = None
                 PROVE  k \in got
      OBVIOUS
    <3>1. k \in 1..m /\ k < j /\ k < i
      BY <2>2
    <3>2. k \notin Full
      <4> HIDE DEF Full
      <4> QED  BY <2>1, <2>2, <3>1
    <3> HIDE DEF Full
    <3> QED  BY <1>1, <3>1, <3>2
  <2>4. IsFiniteSet(got) /\ IsFiniteSet(Good(j))
    <3>1. got \subseteq 1..m /\ Good(j) \subseteq 1..m /\ IsFiniteSet(1..m)
      BY <1>1, <2>2, FS_Interval
    <3> HIDE DEF got, Good
    <3> QED  BY <3>1, FS_Subset
  <2>5. Cardinality(Good(j)) <= Cardinality(got)
    <3> HIDE DEF got, Good
    <3> QED  BY <2>3, <2>4, FS_Subset
  <2>6. Cardinality(Good(j)) \in Nat /\ Cardinality(got) \in Nat
    <3> HIDE DEF got, Good
    <3> QED  BY <2>4, FS_CardinalityType
  <2>7. ~(Cardinality(Good(j)) < n)
    BY <2>1
  <2> HIDE DEF got, Good
  <2> QED  BY <2>5, <2>6, <2>7
<1> HIDE DEF Full
<1> QED  BY <1>1, <1>2

-----------------------------------------------------------------------------
(* What a search or a look-up ends with.                                   *)

Working == {"pacing", "authorizing", "requesting", "backing_off"}

\* A coroutine of s that is over was not run, or ended with what a retailer or
\* the token endpoint answered to its last attempt.
Over(s, a, task) ==
    \/ task.code = "adapter_disabled" /\ task.products = {}
    \/ /\ \/ \E answer \in Answers[a] :
               [answer |-> task.answer, products |-> task.products, code |-> task.code]
                 = Result(a, jobs[s].operation, answer)
          \/ \E answer \in Refusals : /\ task.answer = answer /\ task.products = {}
                                      /\ task.code = CodeOf(answer)
       /\ task.code \in RetryableCodes => task.attempt = MaxAttempts

TaskOK(s, a, task) ==
    /\ task = [pc |-> task.pc, attempt |-> task.attempt, answer |-> task.answer,
               products |-> task.products, code |-> task.code]
    /\ task.pc \in Working \cup {"idle", "ready", "done"}
    /\ task.pc \in {"idle", "ready"} => task.products = {}
    /\ task.pc \in Working => task.attempt \in 1..MaxAttempts
    /\ task.pc = "backing_off" => task.attempt < MaxAttempts
    /\ task.pc = "done" => Over(s, a, task)

\* A job asks those that it captured, and a look-up captured one.
SearchOK(s) ==
    /\ \A a \in Adapters : TaskOK(s, a, tasks[<<s, a>>])
    /\ jobs[s].pc = "idle" => \A a \in Adapters : tasks[<<s, a>>].pc = "idle"
    /\ jobs[s].pc # "idle" =>
         /\ jobs[s].operation \in {"search_products"} \cup Lookups
         /\ jobs[s].operation \in Lookups => \E i \in DOMAIN regs : jobs[s].targets = {i}
         /\ \A a \in Asked(s) : tasks[<<s, a>>].pc # "idle"
    /\ outcome[s] # None => jobs[s].pc = "returned" /\ outcome[s] = OutcomeOf(s)

SearchInv == DOMAIN outcome = Searches /\ \A s \in Searches : SearchOK(s)

\* The codes.
LEMMA SomeCodes ==
    /\ CodeOf("leak") = "unexpected_adapter_failure"
    /\ "adapter_disabled" \notin RetryableCodes
    /\ \A code : code \in RetryableCodes <=> CategoryOf(code) \in RetryableCategories
BY DEF CodeOf, RetryableCodes, CategoryOf, RetryableCategories

LEMMA HitsOfAnswers ==
    ASSUME NEW a \in Adapters, NEW answer \in Answers[a], IsList(answer),
           Family[a] # "other", NEW i \in DOMAIN HitLists[answer]
    PROVE  LET hit == HitLists[answer][i] IN
           /\ hit \in Range(HitLists[answer])
           /\ Raised(Family[a], hit) = None => Complete(Family[a], hit)
           /\ Complete(Family[a], hit) => Raised(Family[a], hit) \in {None, "leak"}
           /\ Raised(Family[a], hit) = "leak" => Poison(Family[a], hit)
           /\ \A operation : LookupRaises(Family[a], operation, hit) = "leak"
                               => Poison(Family[a], hit)
<1>1. HitLists[answer][i] \in Range(HitLists[answer])
  BY DEF Range
<1>2. Family[a] \in {"amazon_in", "flipkart"}
  BY FleetAssumption
<1> QED  BY <1>1, <1>2, HitOf, AnswersAssumption

LEMMA HitsAreListed ==
    ASSUME NEW answer, IsList(answer)
    PROVE  /\ Len(HitLists[answer]) \in Nat
           /\ DOMAIN HitLists[answer] = 1..Len(HitLists[answer])
<1>1. HitLists[answer] \in Seq(Range(HitLists[answer]))
  BY AnswersAssumption DEF IsList
<1> QED  BY <1>1

LEMMA FoundIsThere ==
    ASSUME NEW a, NEW answer, IsList(answer), FoundIn(a, answer) # {}
    PROVE  Min(FoundIn(a, answer)) \in DOMAIN HitLists[answer]
<1>1. FoundIn(a, answer) \subseteq DOMAIN HitLists[answer] /\ FoundIn(a, answer) \in SUBSET Nat
  BY HitsAreListed DEF FoundIn, Found
<1> QED  BY <1>1, MinIsThere

\* What an answer becomes.
LEMMA ResultOf ==
    ASSUME NEW a \in Adapters, NEW answer \in Answers[a],
           NEW operation \in {"search_products"} \cup Lookups
    PROVE  LET result == Result(a, operation, answer) IN
           /\ result.answer = answer
           /\ result.products # {} => result.code = None
           /\ result.code = None =>
                IsList(answer) /\ result.products = AnswerProducts(a, operation, answer)
           /\ \A l \in result.products : l.retailer = RetailerOf[a]
           /\ result.code = None /\ Family[a] # "other" /\ operation = "search_products" =>
                ~SearchLeaks(Family[a], HitLists[answer], Limit)
           /\ result.code = None /\ operation \in Lookups => FoundIn(a, answer) # {}
           /\ result.code = "unexpected_adapter_failure" /\ IsList(answer) =>
                \E hit \in Range(HitLists[answer]) : Poison(Family[a], hit)
<1> DEFINE code == AnswerCode(a, operation, answer)
           products == IF code = None THEN AnswerProducts(a, operation, answer) ELSE {}
           result == Result(a, operation, answer)
<1>1. /\ OwnPayload(a, products) => result = [answer |-> answer, products |-> products, code |-> code]
      /\ ~OwnPayload(a, products) =>
           result = [answer |-> answer, products |-> {}, code |-> "invalid_retailer_response"]
  BY DEF Result
<1>2. "invalid_retailer_response" \notin {None, "unexpected_adapter_failure"}
  BY AnswersAssumption
<1>3. IsList(answer) <=> CodeOf(answer) = None
  BY AnswersAssumption
<1>4. \/ operation = "search_products" /\ code = SearchCode(a, answer)
      \/ operation \in Lookups /\ operation # "search_products"
           /\ code = LookupCode(a, operation, answer)
  BY DEF AnswerCode, Lookups
<1>5. SearchCode(a, answer) = None =>
        /\ IsList(answer)
        /\ Family[a] # "other" => ~SearchLeaks(Family[a], HitLists[answer], Limit)
  BY <1>3, SomeCodes, AnswersAssumption DEF SearchCode
<1>6. LookupCode(a, operation, answer) = None => IsList(answer) /\ FoundIn(a, answer) # {}
  BY <1>3, AnswersAssumption DEF LookupCode
<1>7. SearchCode(a, answer) = "unexpected_adapter_failure" /\ IsList(answer) =>
        \E hit \in Range(HitLists[answer]) : Poison(Family[a], hit)
  <2> SUFFICES ASSUME SearchCode(a, answer) = "unexpected_adapter_failure", IsList(answer)
               PROVE  \E hit \in Range(HitLists[answer]) : Poison(Family[a], hit)
    OBVIOUS
  <2>1. Family[a] # "other" /\ SearchLeaks(Family[a], HitLists[answer], Limit)
    BY <1>3, AnswersAssumption DEF SearchCode
  <2>2. PICK i \in DOMAIN HitLists[answer] : Raised(Family[a], HitLists[answer][i]) = "leak"
    BY <2>1 DEF SearchLeaks, LookedAt
  <2> QED  BY <2>1, <2>2, HitsOfAnswers
<1>8. LookupCode(a, operation, answer) = "unexpected_adapter_failure" /\ IsList(answer) =>
        \E hit \in Range(HitLists[answer]) : Poison(Family[a], hit)
  <2> SUFFICES ASSUME LookupCode(a, operation, answer) = "unexpected_adapter_failure",
                      IsList(answer)
               PROVE  \E hit \in Range(HitLists[answer]) : Poison(Family[a], hit)
    OBVIOUS
  <2>1. /\ FoundIn(a, answer) # {} /\ Family[a] # "other"
        /\ LookupRaises(Family[a], operation, FirstFound(a, answer)) = "leak"
    BY AnswersAssumption DEF LookupCode
  <2>2. Min(FoundIn(a, answer)) \in DOMAIN HitLists[answer]
    BY <2>1, FoundIsThere
  <2> QED  BY <2>1, <2>2, HitsOfAnswers DEF FirstFound
<1>9. \A l \in result.products : l.retailer = RetailerOf[a]
  <2> HIDE DEF products, code, result
  <2> QED  BY <1>1 DEF OwnPayload
<1>10. products # {} => code = None
  OBVIOUS
<1>11. code = None => products = AnswerProducts(a, operation, answer)
  OBVIOUS
<1> HIDE DEF products, code
<1>12. result.answer = answer /\ (result.products # {} => result.code = None)
  BY <1>1, <1>10
<1>13. result.code = None =>
         /\ code = None /\ IsList(answer)
         /\ result.products = AnswerProducts(a, operation, answer)
  BY <1>1, <1>2, <1>4, <1>5, <1>6, <1>11
<1>14. result.code = "unexpected_adapter_failure" => code = "unexpected_adapter_failure"
  BY <1>1, <1>2
<1> HIDE DEF result
<1>15. result.code = "unexpected_adapter_failure" /\ IsList(answer) =>
         \E hit \in Range(HitLists[answer]) : Poison(Family[a], hit)
  BY <1>4, <1>7, <1>8, <1>14
<1>16. /\ result.code = None /\ Family[a] # "other" /\ operation = "search_products" =>
            ~SearchLeaks(Family[a], HitLists[answer], Limit)
       /\ result.code = None /\ operation \in Lookups => FoundIn(a, answer) # {}
  BY <1>4, <1>5, <1>6, <1>13 DEF Lookups
<1> QED  BY <1>9, <1>12, <1>13, <1>15, <1>16 DEF result

-----------------------------------------------------------------------------
(* What a search or a look-up returns.                                     *)

\* Coroutines of a job that has returned, asked for, are over.
LEMMA ReturnedIsOver ==
    ASSUME IInv, SearchInv, NEW s \in Searches, outcome[s] # None
    PROVE  /\ outcome[s] = OutcomeOf(s)
           /\ Asked(s) \subseteq Adapters
           /\ jobs[s].operation \in {"search_products"} \cup Lookups
           /\ jobs[s].operation \in Lookups => \E a \in Adapters : Asked(s) = {a}
           /\ \A a \in Asked(s) : Over(s, a, tasks[<<s, a>>])
<1>1. SearchOK(s) /\ s \in Jobs
  BY DEF SearchInv, Jobs
<1>2. jobs[s].pc = "returned" /\ outcome[s] = OutcomeOf(s)
  BY <1>1 DEF SearchOK
<1>3. jobs[s].targets \subseteq DOMAIN regs
  BY <1>1 DEF IInv, RegistryInv
<1>4. Asked(s) \subseteq Adapters
  BY <1>3, RegisteredAdapters DEF Asked, IInv
<1>5. /\ jobs[s].operation \in {"search_products"} \cup Lookups
      /\ jobs[s].operation \in Lookups => \E i \in DOMAIN regs : jobs[s].targets = {i}
      /\ \A a \in Asked(s) : tasks[<<s, a>>].pc # "idle"
  BY <1>1, <1>2 DEF SearchOK
<1>6. jobs[s].operation \in Lookups => \E a \in Adapters : Asked(s) = {a}
  <2> SUFFICES ASSUME jobs[s].operation \in Lookups PROVE \E a \in Adapters : Asked(s) = {a}
    OBVIOUS
  <2>1. PICK i \in DOMAIN regs : jobs[s].targets = {i}
    BY <1>5
  <2>2. Asked(s) = {regs[i].adapter}
    BY <2>1 DEF Asked
  <2> QED  BY <1>4, <2>2
<1>7. ASSUME NEW a \in Asked(s) PROVE Over(s, a, tasks[<<s, a>>])
  <2>1. a \in Adapters /\ <<s, a>> \in Tasks /\ <<s, a>>[1] = s
    BY <1>1, <1>4 DEF Tasks
  <2>2. tasks[<<s, a>>].pc \in {"idle", "done"}
    BY <1>2, <2>1 DEF IInv, TaskInv
  <2> QED  BY <1>1, <1>5, <2>1, <2>2 DEF SearchOK, TaskOK
<1> QED  BY <1>2, <1>4, <1>5, <1>6, <1>7

\* What is known of a coroutine that is over.
LEMMA OverIs ==
    ASSUME NEW s, NEW a \in Adapters, NEW task, Over(s, a, task),
           jobs[s].operation \in {"search_products"} \cup Lookups
    PROVE  LET operation == jobs[s].operation IN
           /\ task.code \in RetryableCodes => task.attempt = MaxAttempts
           /\ \A l \in task.products : l.retailer = RetailerOf[a]
           /\ task.products # {} => task.code = None
           /\ task.code = None =>
                /\ task.answer \in Answers[a] /\ IsList(task.answer)
                /\ task.products = AnswerProducts(a, operation, task.answer)
                /\ Family[a] # "other" /\ operation = "search_products" =>
                     ~SearchLeaks(Family[a], HitLists[task.answer], Limit)
                /\ operation \in Lookups => FoundIn(a, task.answer) # {}
           /\ task.code = "unexpected_adapter_failure" /\ IsList(task.answer) =>
                \E hit \in Range(HitLists[task.answer]) : Poison(Family[a], hit)
<1> DEFINE Claim ==
      /\ task.code \in RetryableCodes => task.attempt = MaxAttempts
      /\ \A l \in task.products : l.retailer = RetailerOf[a]
      /\ task.products # {} => task.code = None
      /\ task.code = None =>
           /\ task.answer \in Answers[a] /\ IsList(task.answer)
           /\ task.products = AnswerProducts(a, jobs[s].operation, task.answer)
           /\ Family[a] # "other" /\ jobs[s].operation = "search_products" =>
                ~SearchLeaks(Family[a], HitLists[task.answer], Limit)
           /\ jobs[s].operation \in Lookups => FoundIn(a, task.answer) # {}
      /\ task.code = "unexpected_adapter_failure" /\ IsList(task.answer) =>
           \E hit \in Range(HitLists[task.answer]) : Poison(Family[a], hit)
<1>1. ASSUME task.code = "adapter_disabled", task.products = {} PROVE Claim
  BY <1>1, SomeCodes, AnswersAssumption
<1>2. ASSUME NEW answer \in Answers[a], task.code \in RetryableCodes => task.attempt = MaxAttempts,
             [answer |-> task.answer, products |-> task.products, code |-> task.code]
               = Result(a, jobs[s].operation, answer)
      PROVE  Claim
  <2> DEFINE result == Result(a, jobs[s].operation, answer)
  <2>1. task.answer = result.answer /\ task.products = result.products /\ task.code = result.code
    <3> HIDE DEF result
    <3>1. result = [answer |-> task.answer, products |-> task.products, code |-> task.code]
      BY <1>2 DEF result
    <3> QED  BY <3>1
  <2>2. /\ result.answer = answer
        /\ result.products # {} => result.code = None
        /\ result.code = None =>
             IsList(answer) /\ result.products = AnswerProducts(a, jobs[s].operation, answer)
        /\ \A l \in result.products : l.retailer = RetailerOf[a]
        /\ result.code = None /\ Family[a] # "other" /\ jobs[s].operation = "search_products" =>
             ~SearchLeaks(Family[a], HitLists[answer], Limit)
        /\ result.code = None /\ jobs[s].operation \in Lookups => FoundIn(a, answer) # {}
        /\ result.code = "unexpected_adapter_failure" /\ IsList(answer) =>
             \E hit \in Range(HitLists[answer]) : Poison(Family[a], hit)
    BY ResultOf
  <2> HIDE DEF result
  <2> QED  BY <1>2, <2>1, <2>2
<1>3. ASSUME NEW answer \in Refusals, task.answer = answer, task.products = {},
             task.code = CodeOf(answer),
             task.code \in RetryableCodes => task.attempt = MaxAttempts
      PROVE  Claim
  BY <1>3, AnswersAssumption
<1> HIDE DEF Claim
<1>4. Claim
  BY <1>1, <1>2, <1>3 DEF Over
<1> QED  BY <1>4 DEF Claim

LEMMA ProductNames ==
    ASSUME NEW family, NEW r, NEW hit
    PROVE  ProductOf(family, r, hit).sku = hit.id /\ ProductOf(family, r, hit).retailer = r
BY DEF ProductOf

SkuOf(a, hit) == IF Family[a] = "other" THEN hit.sku ELSE hit.id

\* The products of an answer are made of its hits.
LEMMA ProductsAreHits ==
    ASSUME NEW a, NEW answer, IsList(answer),
           NEW operation \in {"search_products"} \cup Lookups,
           operation \in Lookups => FoundIn(a, answer) # {},
           NEW l \in AnswerProducts(a, operation, answer)
    PROVE  \E hit \in Range(HitLists[answer]) : l.sku = SkuOf(a, hit)
<1> USE DEF SkuOf
<1>1. CASE operation = "search_products"
  <2>1. l \in ProductsIn(a, answer)
    BY <1>1 DEF AnswerProducts
  <2>2. CASE Family[a] = "other"
    BY <2>1, <2>2 DEF ProductsIn
  <2>3. CASE Family[a] # "other"
    <3>1. PICK i \in DOMAIN HitLists[answer] :
            l = ProductOf(Family[a], RetailerOf[a], HitLists[answer][i])
      BY <2>1, <2>3 DEF ProductsIn, SearchProducts, LookedAt
    <3>2. HitLists[answer][i] \in Range(HitLists[answer])
      BY DEF Range
    <3> QED  BY <2>3, <3>1, <3>2, ProductNames
  <2> QED  BY <2>2, <2>3
<1>2. CASE operation \in Lookups
  <2>1. l \in LookupProducts(a, answer)
    BY <1>2 DEF AnswerProducts, Lookups
  <2>2. Min(FoundIn(a, answer)) \in DOMAIN HitLists[answer]
    BY <1>2, FoundIsThere
  <2>3. FirstFound(a, answer) \in Range(HitLists[answer])
    BY <2>2 DEF Range, FirstFound
  <2> QED  BY <2>1, <2>3, ProductNames DEF LookupProducts
<1> QED  BY <1>1, <1>2

\* A search that no hit stops has its complete hits, unless as many as it may
\* return precede them.
LEMMA HitsAreThere ==
    ASSUME NEW s \in Searches, NEW a \in Asked(s), a \in Adapters,
           tasks[<<s, a>>].answer \in Answers[a], IsList(tasks[<<s, a>>].answer),
           Family[a] # "other",
           ~SearchLeaks(Family[a], HitLists[tasks[<<s, a>>].answer], Limit),
           SearchProducts(Family[a], RetailerOf[a], HitLists[tasks[<<s, a>>].answer], Limit)
             \subseteq outcome[s].products
    PROVE  HasItsHits(s, a)
<1> DEFINE answer == tasks[<<s, a>>].answer
           hits == HitLists[answer]
           seen == LookedAt(Family[a], hits, Limit)
           returned == {i \in DOMAIN hits : Complete(Family[a], hits[i]) /\
                          \E l \in outcome[s].products :
                            l.retailer = RetailerOf[a] /\ l.sku = hits[i].id}
<1>1. seen \subseteq DOMAIN hits
  BY DEF LookedAt
<1>2. \A i \in seen : Raised(Family[a], hits[i]) # "leak"
  BY DEF SearchLeaks
<1>3. \A i \in DOMAIN hits :
        /\ Raised(Family[a], hits[i]) = None => Complete(Family[a], hits[i])
        /\ Complete(Family[a], hits[i]) => Raised(Family[a], hits[i]) \in {None, "leak"}
  BY HitsOfAnswers
<1>4. ASSUME NEW i \in seen, Raised(Family[a], hits[i]) = None PROVE i \in returned
  <2> DEFINE l == ProductOf(Family[a], RetailerOf[a], hits[i])
  <2>1. l \in SearchProducts(Family[a], RetailerOf[a], hits, Limit)
    BY <1>4 DEF SearchProducts
  <2>2. l \in outcome[s].products /\ l.retailer = RetailerOf[a] /\ l.sku = hits[i].id
    BY <2>1, ProductNames
  <2> HIDE DEF l
  <2> QED  BY <1>1, <1>3, <1>4, <2>2
<1>5. Limit \in Nat
  BY FleetAssumption
<1>6. DOMAIN hits = 1..Len(hits) /\ Len(hits) \in Nat
  BY HitsAreListed
<1>7. returned \subseteq 1..Len(hits)
  BY <1>6
<1> HIDE DEF seen, returned
<1>8. ASSUME NEW i \in DOMAIN hits, Complete(Family[a], hits[i]), i \notin returned
      PROVE  Cardinality({k \in returned : k < i}) >= Limit
  <2> DEFINE got == {k \in seen : k < i /\ Raised(Family[a], hits[k]) = None}
             before == {k \in returned : k < i}
  <2>1. i \notin seen
    BY <1>2, <1>3, <1>4, <1>8
  <2>2. Cardinality(got) >= Limit
    <3> HIDE DEF hits
    <3> QED  BY <1>5, <1>6, <2>1, SearchOf DEF seen
  <2>3. got \subseteq before
    BY <1>4
  <2>4. IsFiniteSet(before)
    <3>1. before \subseteq returned
      OBVIOUS
    <3>2. \A n \in Nat : IsFiniteSet(1..n)
      BY FS_Interval
    <3> HIDE DEF before, hits
    <3> QED  BY <1>6, <1>7, <3>1, <3>2, FS_Subset
  <2> HIDE DEF got, before
  <2>5. IsFiniteSet(got) /\ Cardinality(got) <= Cardinality(before)
    BY <2>3, <2>4, FS_Subset
  <2>6. Cardinality(got) \in Nat /\ Cardinality(before) \in Nat
    BY <2>4, <2>5, FS_CardinalityType
  <2>7. Cardinality(before) >= Limit
    BY <1>5, <2>2, <2>5, <2>6
  <2> QED  BY <2>7 DEF before
<1>9. \A i \in DOMAIN hits : Complete(Family[a], hits[i]) =>
        i \in returned \/ Cardinality({k \in returned : k < i}) >= Limit
  BY <1>8
<1> QED  BY <1>9 DEF HasItsHits, returned

\* The three parts of FanOutIsIsolated, once the search has returned.
LEMMA OutcomesAreIsolated ==
    ASSUME IInv, SearchInv, NEW s \in Searches, outcome[s] # None
    PROVE  EveryRetailerIsHeard(s) /\ NothingIsForeign(s) /\ RetriesAreUsedUp(s)
<1> DEFINE operation == jobs[s].operation
           products == UNION {tasks[<<s, a>>].products : a \in Asked(s)}
<1>1. /\ outcome[s] = OutcomeOf(s) /\ Asked(s) \subseteq Adapters
      /\ operation \in {"search_products"} \cup Lookups
      /\ operation \in Lookups => \E a \in Adapters : Asked(s) = {a}
      /\ \A a \in Asked(s) : Over(s, a, tasks[<<s, a>>])
  BY ReturnedIsOver
<1>2. ASSUME NEW a \in Asked(s)
      PROVE  LET task == tasks[<<s, a>>] IN
             /\ task.code \in RetryableCodes => task.attempt = MaxAttempts
             /\ \A l \in task.products : l.retailer = RetailerOf[a]
             /\ task.products # {} => task.code = None
             /\ task.code = None =>
                  /\ task.answer \in Answers[a] /\ IsList(task.answer)
                  /\ task.products = AnswerProducts(a, operation, task.answer)
                  /\ Family[a] # "other" /\ operation = "search_products" =>
                       ~SearchLeaks(Family[a], HitLists[task.answer], Limit)
                  /\ operation \in Lookups => FoundIn(a, task.answer) # {}
             /\ task.code = "unexpected_adapter_failure" /\ IsList(task.answer) =>
                  \E hit \in Range(HitLists[task.answer]) : Poison(Family[a], hit)
  BY <1>1, OverIs
<1>3. /\ outcome[s].products = products
      /\ outcome[s].consulted = {RetailerOf[a] : a \in Asked(s)}
      /\ \A a \in Asked(s) : tasks[<<s, a>>].code # None =>
           <<RetailerOf[a], tasks[<<s, a>>].code>> \in outcome[s].failures
      /\ \A l \in products : operation \in Lookups \/ Normalizes(l) \/
           <<l.retailer, "invalid_retailer_response">> \in outcome[s].failures
      /\ operation \notin Lookups => \A l \in products : Normalizes(l) =>
           l \in outcome[s].normalized
      /\ \A e \in outcome[s].errors :
           operation \in Lookups /\ \E a \in Asked(s) : e = CollectionFailure(tasks[<<s, a>>].code)
  <2> DEFINE failed == {a \in Asked(s) : tasks[<<s, a>>].code # None}
             odd == {l \in products : ~(operation \in Lookups) /\ ~Normalizes(l)}
  <2>1. /\ outcome[s].products = products
        /\ outcome[s].consulted = {RetailerOf[a] : a \in Asked(s)}
        /\ outcome[s].normalized = IF operation \in Lookups THEN {} ELSE products \ odd
    BY <1>1 DEF OutcomeOf
  <2>2. outcome[s].failures = {<<RetailerOf[a], tasks[<<s, a>>].code>> : a \in failed}
                              \cup {<<l.retailer, "invalid_retailer_response">> : l \in odd}
    BY <1>1 DEF OutcomeOf
  <2>3. outcome[s].errors = IF operation \in Lookups
                            THEN {CollectionFailure(tasks[<<s, a>>].code) : a \in failed}
                            ELSE {}
    BY <1>1 DEF OutcomeOf
  <2> HIDE DEF products, operation
  <2>4. \A a \in Asked(s) : tasks[<<s, a>>].code # None =>
          <<RetailerOf[a], tasks[<<s, a>>].code>> \in outcome[s].failures
    BY <2>2
  <2>5. \A l \in odd : <<l.retailer, "invalid_retailer_response">> \in outcome[s].failures
    BY <2>2
  <2>6. \A e \in outcome[s].errors :
          operation \in Lookups /\ \E a \in Asked(s) : e = CollectionFailure(tasks[<<s, a>>].code)
    BY <2>3
  <2> QED  BY <2>1, <2>4, <2>5, <2>6
<1>4. \A a \in Asked(s) : tasks[<<s, a>>].products \subseteq products
  OBVIOUS
<1>5. \A l \in products : \E a \in Asked(s) : l \in tasks[<<s, a>>].products
  OBVIOUS
<1> HIDE DEF products
<1>6. EveryRetailerIsHeard(s)
  <2>1. ASSUME NEW a \in Asked(s), tasks[<<s, a>>].code = None, Family[a] # "other",
               operation \notin Lookups
        PROVE  HasItsHits(s, a)
    <3>1. /\ tasks[<<s, a>>].answer \in Answers[a] /\ IsList(tasks[<<s, a>>].answer)
          /\ tasks[<<s, a>>].products
               = SearchProducts(Family[a], RetailerOf[a],
                                HitLists[tasks[<<s, a>>].answer], Limit)
          /\ ~SearchLeaks(Family[a], HitLists[tasks[<<s, a>>].answer], Limit)
      BY <1>1, <1>2, <2>1 DEF AnswerProducts, ProductsIn
    <3> QED  BY <1>1, <1>3, <1>4, <2>1, <3>1, HitsAreThere
  <2>2. ASSUME NEW l \in products
        PROVE  \/ l \in outcome[s].normalized \/ operation \in Lookups
               \/ \E f \in outcome[s].failures : f[1] = l.retailer
    <3>1. <<l.retailer, "invalid_retailer_response">>[1] = l.retailer
      OBVIOUS
    <3> QED  BY <1>3, <3>1
  <2> QED  BY <1>2, <1>3, <2>1, <2>2 DEF EveryRetailerIsHeard
<1>7. NothingIsForeign(s)
  <2> SUFFICES ASSUME NEW l \in products
               PROVE  \E a \in Asked(s) :
                        /\ RetailerOf[a] = l.retailer /\ IsList(tasks[<<s, a>>].answer)
                        /\ \E hit \in Range(HitLists[tasks[<<s, a>>].answer]) :
                             l.sku = IF Family[a] = "other" THEN hit.sku ELSE hit.id
    BY <1>3 DEF NothingIsForeign
  <2>1. PICK a \in Asked(s) : l \in tasks[<<s, a>>].products
    BY <1>5
  <2>2. tasks[<<s, a>>].code = None /\ RetailerOf[a] = l.retailer
    BY <1>2, <2>1
  <2>3. /\ IsList(tasks[<<s, a>>].answer)
        /\ l \in AnswerProducts(a, operation, tasks[<<s, a>>].answer)
        /\ operation \in Lookups => FoundIn(a, tasks[<<s, a>>].answer) # {}
    BY <1>2, <2>1, <2>2
  <2>4. operation \in {"search_products"} \cup Lookups
    BY <1>1
  <2> DEFINE answer == tasks[<<s, a>>].answer
  <2> HIDE DEF operation, answer
  <2>5. \E hit \in Range(HitLists[answer]) : l.sku = SkuOf(a, hit)
    <3>1. IsList(answer) /\ l \in AnswerProducts(a, operation, answer)
      BY <2>3 DEF answer
    <3>2. operation \in Lookups => FoundIn(a, answer) # {}
      BY <2>3 DEF answer
    <3> QED  BY <2>4, <3>1, <3>2, ProductsAreHits
  <2> QED  BY <2>2, <2>3, <2>5 DEF answer, SkuOf
<1>8. RetriesAreUsedUp(s)
  <2> SUFFICES ASSUME NEW e \in outcome[s].errors
               PROVE  /\ e.retryable = (e.category \in RetryableCategories)
                      /\ e.retryable => \A a \in Asked(s) : tasks[<<s, a>>].attempt = MaxAttempts
    BY DEF RetriesAreUsedUp
  <2>1. PICK a \in Asked(s) : e = CollectionFailure(tasks[<<s, a>>].code)
    BY <1>3
  <2>2. operation \in Lookups
    BY <1>3
  <2>3. /\ e.retryable = (tasks[<<s, a>>].code \in RetryableCodes)
        /\ e.category = CategoryOf(tasks[<<s, a>>].code)
    BY <2>1, Zenon DEF CollectionFailure
  <2>4. \A b \in Asked(s) : b = a
    BY <1>1, <2>2
  <2>5. e.retryable => tasks[<<s, a>>].attempt = MaxAttempts
    BY <1>2, <2>3
  <2>6. e.retryable = (e.category \in RetryableCategories)
    <3> DEFINE code == tasks[<<s, a>>].code
    <3>1. code \in RetryableCodes <=> CategoryOf(code) \in RetryableCategories
      BY SomeCodes
    <3>2. e.retryable = (code \in RetryableCodes) /\ e.category = CategoryOf(code)
      BY <2>3
    <3> HIDE DEF code
    <3>3. (e.category \in RetryableCategories) = (CategoryOf(code) \in RetryableCategories)
      BY <3>2
    <3> QED  BY <3>1, <3>2, <3>3
  <2> QED  BY <2>4, <2>5, <2>6
<1> QED  BY <1>6, <1>7, <1>8

-----------------------------------------------------------------------------
(* SearchInv is kept.                                                      *)

\* What is asked of a job stays while its targets and their adapters do.
LEMMA SameAsked ==
    ASSUME IInv, NEW j \in Jobs, jobs'[j].targets = jobs[j].targets,
           \A i \in DOMAIN regs : regs'[i].adapter = regs[i].adapter
    PROVE  Asked(j)' = Asked(j) /\ Asked(j) \subseteq Adapters
<1>1. jobs[j].targets \subseteq DOMAIN regs
  BY DEF IInv, RegistryInv
<1>2. \A i \in jobs[j].targets : regs'[i].adapter = regs[i].adapter
  BY <1>1
<1>3. Asked(j)' = {regs'[i].adapter : i \in jobs[j].targets}
  BY DEF Asked
<1> QED  BY <1>1, <1>2, <1>3, RegisteredAdapters DEF Asked, IInv

\* The outcome of a search is made of what was asked and answered.
LEMMA SameOutcome ==
    ASSUME NEW s \in Searches, jobs'[s].operation = jobs[s].operation,
           Asked(s)' = Asked(s),
           \A a \in Asked(s) : tasks'[<<s, a>>] = tasks[<<s, a>>]
    PROVE  OutcomeOf(s)' = OutcomeOf(s)
<1> DEFINE products == UNION {tasks[<<s, a>>].products : a \in Asked(s)}
           failed == {a \in Asked(s) : tasks[<<s, a>>].code # None}
           causes == {<<RetailerOf[a], tasks[<<s, a>>].code>> : a \in failed}
           errors == {CollectionFailure(tasks[<<s, a>>].code) : a \in failed}
<1>1. products' = products
  <2>1. {tasks'[<<s, a>>].products : a \in Asked(s)} = {tasks[<<s, a>>].products : a \in Asked(s)}
    OBVIOUS
  <2> QED  BY <2>1
<1>2. failed' = failed
  OBVIOUS
<1>3. causes' = causes
  <2>1. {<<RetailerOf[a], tasks'[<<s, a>>].code>> : a \in failed} = causes
    OBVIOUS
  <2> HIDE DEF failed
  <2> QED  BY <1>2, <2>1
<1>4. errors' = errors
  <2>1. {CollectionFailure(tasks'[<<s, a>>].code) : a \in failed} = errors
    OBVIOUS
  <2> HIDE DEF failed
  <2> QED  BY <1>2, <2>1
<1> DEFINE isLookup == jobs[s].operation \in Lookups
           Whole(p, c, e, r) ==
             LET odd == {l \in p : ~isLookup /\ ~Normalizes(l)} IN
             [products   |-> p,
              normalized |-> IF isLookup THEN {} ELSE p \ odd,
              failures   |-> c \cup {<<l.retailer, "invalid_retailer_response">> : l \in odd},
              consulted  |-> r,
              errors     |-> IF isLookup THEN e ELSE {}]
           retailers == {RetailerOf[a] : a \in Asked(s)}
<1>5. OutcomeOf(s) = Whole(products, causes, errors, retailers)
  BY DEF OutcomeOf
<1>6. OutcomeOf(s)' = Whole(products', causes', errors', retailers')
  BY DEF OutcomeOf
<1>7. retailers' = retailers
  OBVIOUS
<1> HIDE DEF Whole, products, causes, errors, retailers
<1> QED  BY <1>1, <1>3, <1>4, <1>5, <1>6, <1>7

\* Whatever leaves a search alone.
LEMMA SearchFrame ==
    ASSUME IInv, NEW s \in Searches, SearchOK(s),
           jobs'[s] = jobs[s], outcome'[s] = outcome[s],
           \A a \in Adapters : tasks'[<<s, a>>] = tasks[<<s, a>>],
           \A i \in DOMAIN regs : i \in DOMAIN regs' /\ regs'[i].adapter = regs[i].adapter
    PROVE  SearchOK(s)'
<1>1. s \in Jobs
  BY DEF Jobs
<1>2. Asked(s)' = Asked(s) /\ Asked(s) \subseteq Adapters
  BY <1>1, SameAsked
<1>3. OutcomeOf(s)' = OutcomeOf(s)
  BY <1>2, SameOutcome
<1>4. \A a \in Adapters : TaskOK(s, a, tasks[<<s, a>>])'
  <2> SUFFICES ASSUME NEW a \in Adapters PROVE TaskOK(s, a, tasks[<<s, a>>])'
    OBVIOUS
  <2>1. TaskOK(s, a, tasks[<<s, a>>])
    BY DEF SearchOK
  <2> QED  BY <2>1 DEF TaskOK, Over
<1> QED  BY <1>2, <1>3, <1>4 DEF SearchOK

\* A coroutine that goes on with its attempt, or with the next.
Moved(task, pc, n) == [pc |-> pc, attempt |-> n, answer |-> task.answer,
                       products |-> task.products, code |-> task.code]

LEMMA GoesOn ==
    ASSUME NEW s, NEW a, NEW task, TaskOK(s, a, task), NEW pc \in Working,
           NEW n \in 1..MaxAttempts, pc = "backing_off" => n < MaxAttempts
    PROVE  TaskOK(s, a, Moved(task, pc, n)) /\ Moved(task, pc, n).pc # "idle"
BY DEF TaskOK, Working, Moved

\* An attempt is over: it is retried, or it was the last.
LEMMA Concludes ==
    ASSUME IInv, NEW s \in Searches, NEW a \in Adapters,
           TaskOK(s, a, tasks[<<s, a>>]), tasks[<<s, a>>].pc \in Working,
           NEW result, Conclude(<<s, a>>, result),
           result = [answer |-> result.answer, products |-> result.products,
                     code |-> result.code],
           \/ \E answer \in Answers[a] : result = Result(a, jobs[s].operation, answer)
           \/ \E answer \in Refusals : /\ result.answer = answer /\ result.products = {}
                                       /\ result.code = CodeOf(answer)
    PROVE  TaskOK(s, a, tasks'[<<s, a>>]) /\ tasks'[<<s, a>>].pc # "idle"
<1> DEFINE t == <<s, a>>
           task == tasks[t]
<1>1. t \in DOMAIN tasks /\ MaxAttempts \in Nat
  BY FleetAssumption DEF IInv, TaskInv, Tasks, Jobs
<1>2. AttemptsOf(t) = MaxAttempts
  BY FleetAssumption DEF AttemptsOf, IsProbe
<1>3. task.attempt \in 1..MaxAttempts
  BY DEF TaskOK
<1>4. CASE result.code \in RetryableCodes /\ task.attempt < MaxAttempts
  <2>1. task = Moved(task, task.pc, task.attempt)
    BY DEF TaskOK, Moved
  <2>2. tasks'[t] = Moved(task, "backing_off", task.attempt)
    BY <1>1, <1>2, <1>4, <2>1 DEF Conclude, Moved
  <2>3. TaskOK(s, a, task) /\ "backing_off" \in Working
    BY DEF Working
  <2> HIDE DEF task
  <2> QED  BY <1>3, <1>4, <2>2, <2>3, GoesOn
<1>5. CASE ~(result.code \in RetryableCodes /\ task.attempt < MaxAttempts)
  <2>1. Settle(t, result)
    BY <1>2, <1>5 DEF Conclude
  <2>2. task = [pc |-> task.pc, attempt |-> task.attempt, answer |-> task.answer,
                products |-> task.products, code |-> task.code]
    BY DEF TaskOK
  <2>3. tasks'[t] = [pc |-> "done", attempt |-> task.attempt, answer |-> result.answer,
                     products |-> result.products, code |-> result.code]
    BY <1>1, <2>1, <2>2 DEF Settle
  <2>4. result.code \in RetryableCodes => task.attempt = MaxAttempts
    BY <1>1, <1>3, <1>5
  <2> HIDE DEF t, task
  <2>5. Over(s, a, tasks'[t])
    BY <2>3, <2>4 DEF Over
  <2>6. TaskOK(s, a, tasks'[t])
    BY <2>3, <2>5 DEF TaskOK, Working
  <2> QED  BY <2>3, <2>6 DEF t
<1> QED  BY <1>4, <1>5

LEMMA CallKeepsTask ==
    ASSUME IInv, NEW s \in Searches, NEW a \in Adapters,
           TaskOK(s, a, tasks[<<s, a>>]), Call(<<s, a>>)
    PROVE  TaskOK(s, a, tasks'[<<s, a>>]) /\ tasks'[<<s, a>>].pc # "idle"
<1> DEFINE t == <<s, a>>
           task == tasks[t]
<1>1. t \in DOMAIN tasks /\ MaxAttempts \in Nat /\ t[1] = s /\ t[2] = a /\ ~IsProbe(t)
  BY FleetAssumption DEF IInv, TaskInv, Tasks, Jobs, IsProbe
<1>2. task.pc \in Working => task.attempt \in 1..MaxAttempts
  BY DEF TaskOK
<1>3. ASSUME NEW pc \in Working \ {"backing_off"}, task.pc \in Working,
             tasks' = [tasks EXCEPT ![t].pc = pc]
      PROVE  TaskOK(s, a, tasks'[t]) /\ tasks'[t].pc # "idle"
  <2>1. task = Moved(task, task.pc, task.attempt)
    BY DEF TaskOK, Moved
  <2>2. tasks'[t] = Moved(task, pc, task.attempt)
    BY <1>1, <1>3, <2>1 DEF Moved
  <2>3. pc \in Working /\ pc # "backing_off" /\ TaskOK(s, a, task)
    OBVIOUS
  <2> HIDE DEF task
  <2> QED  BY <1>2, <1>3, <2>2, <2>3, GoesOn
<1>4. CASE Acquire(t)
  <2>1. PICK next \in AfterAcquire(t) : tasks' = [tasks EXCEPT ![t].pc = next]
    BY <1>4 DEF Acquire
  <2>2. next \in {"authorizing", "requesting"}
    BY <1>1, <2>1 DEF AfterAcquire
  <2>3. task.pc \in Working
    BY <1>4 DEF Acquire, Working
  <2> QED  BY <1>3, <2>1, <2>2, <2>3 DEF Working
<1>5. CASE Authorized(t)
  <2>1. tasks' = [tasks EXCEPT ![t].pc = "requesting"] /\ task.pc \in Working
    BY <1>1, <1>5 DEF Authorized, Working
  <2>2. "requesting" \in Working \ {"backing_off"}
    BY DEF Working
  <2> QED  BY <1>3, <2>1, <2>2
<1>6. CASE Answered(t)
  <2>1. PICK r \in Results[a] : r.operation = jobs[s].operation /\ Conclude(t, r.result)
    BY <1>1, <1>6 DEF Answered
  <2>2. PICK operation \in {"search_products", "health_check"} \cup Lookups, answer \in Answers[a] :
          r = [operation |-> operation, result |-> Result(a, operation, answer)]
    BY DEF Results
  <2>3. r.operation = operation /\ r.result = Result(a, operation, answer)
    BY <2>2
  <2>4. r.result = Result(a, jobs[s].operation, answer)
    BY <2>1, <2>3
  <2>5. r.result = [answer |-> r.result.answer, products |-> r.result.products,
                    code |-> r.result.code]
    BY <2>3 DEF Result
  <2>6. task.pc \in Working
    BY <1>6 DEF Answered, Working
  <2> QED  BY <2>1, <2>4, <2>5, <2>6, Concludes
<1>7. CASE Retry(t)
  <2>0. task = Moved(task, task.pc, task.attempt)
    BY DEF TaskOK, Moved
  <2>1. /\ task.pc = "backing_off" /\ task.pc \in Working
        /\ tasks'[t] = Moved(task, "pacing", task.attempt + 1)
    BY <1>1, <1>7, <2>0 DEF Retry, Working, Moved
  <2>2. task.attempt + 1 \in 1..MaxAttempts
    BY <1>1, <1>2, <2>1 DEF TaskOK
  <2>3. TaskOK(s, a, task) /\ "pacing" \in Working
    BY DEF Working
  <2> HIDE DEF task
  <2> QED  BY <2>1, <2>2, <2>3, GoesOn
<1>8. ASSUME NEW answer \in Refusals, Refused(t, answer)
      PROVE  TaskOK(s, a, tasks'[t]) /\ tasks'[t].pc # "idle"
  <2> DEFINE result == [answer |-> answer, products |-> {}, code |-> CodeOf(answer)]
  <2>1. Conclude(t, result) /\ task.pc \in Working
    BY <1>8 DEF Refused, Working
  <2>2. result.answer = answer /\ result.products = {} /\ result.code = CodeOf(answer)
    OBVIOUS
  <2>3. result = [answer |-> result.answer, products |-> result.products, code |-> result.code]
    OBVIOUS
  <2> HIDE DEF result
  <2> QED  BY <2>1, <2>2, <2>3, Concludes
<1> QED  BY <1>4, <1>5, <1>6, <1>7, <1>8 DEF Call

\* A coroutine that is under way belongs to a job that has begun and not returned.
LEMMA UnderWay ==
    ASSUME IInv, SearchInv, NEW s \in Searches, NEW a \in Adapters,
           tasks[<<s, a>>].pc \notin {"idle", "done"}
    PROVE  jobs[s].pc # "idle" /\ outcome[s] = None
<1>1. <<s, a>> \in Tasks /\ <<s, a>>[1] = s /\ SearchOK(s)
  BY DEF Tasks, Jobs, SearchInv
<1>2. jobs[s].pc # "returned"
  BY <1>1 DEF IInv, TaskInv
<1> QED  BY <1>1, <1>2 DEF SearchOK

\* A search whose coroutines have moved without returning.
LEMMA TasksMoved ==
    ASSUME IInv, SearchInv, UNCHANGED <<regs, jobs, outcome>>,
           NEW s \in Searches, jobs[s].pc # "idle", outcome[s] = None,
           \A a \in Adapters : TaskOK(s, a, tasks'[<<s, a>>]),
           \A a \in Adapters : tasks[<<s, a>>].pc # "idle" => tasks'[<<s, a>>].pc # "idle"
    PROVE  SearchOK(s)'
<1>1. s \in Jobs /\ SearchOK(s)
  BY DEF Jobs, SearchInv
<1>2. Asked(s)' = Asked(s) /\ Asked(s) \subseteq Adapters
  BY <1>1, SameAsked
<1>3. \A a \in Adapters : TaskOK(s, a, tasks[<<s, a>>])'
  BY DEF TaskOK, Over
<1> QED  BY <1>1, <1>2, <1>3 DEF SearchOK

LEMMA CallKeepsSearches ==
    ASSUME IInv, SearchInv, NEW t \in Tasks, Call(t)
    PROVE  SearchInv'
<1>1. /\ UNCHANGED <<regs, jobs, outcome>>
      /\ tasks[t].pc \in {"pacing", "authorizing", "requesting", "backing_off"}
      /\ \A u \in Tasks : tasks'[u] = tasks[u] \/ u = t
  BY DEF Call, Acquire, Authorized, Answered, Retry, Refused, Conclude, Settle, IInv, TaskInv
<1>2. ASSUME NEW s \in Searches PROVE SearchOK(s)'
  <2>1. s \in Jobs /\ SearchOK(s) /\ \A a \in Adapters : <<s, a>> \in Tasks
    BY DEF Jobs, Tasks, SearchInv
  <2>2. CASE t[1] # s
    <3>1. \A a \in Adapters : tasks'[<<s, a>>] = tasks[<<s, a>>]
      BY <1>1, <2>1, <2>2
    <3> QED  BY <1>1, <2>1, <3>1, SearchFrame
  <2>3. CASE t[1] = s
    <3>1. PICK b \in Adapters : t = <<s, b>>
      BY <2>3 DEF Tasks
    <3>2. jobs[s].pc # "idle" /\ outcome[s] = None
      BY <1>1, <3>1, UnderWay
    <3>3. ASSUME NEW a \in Adapters PROVE TaskOK(s, a, tasks'[<<s, a>>])
      <4>1. TaskOK(s, a, tasks[<<s, a>>])
        BY <2>1 DEF SearchOK
      <4>2. CASE <<s, a>> = t
        BY <4>1, <4>2, CallKeepsTask
      <4>3. CASE <<s, a>> # t
        BY <1>1, <2>1, <4>1, <4>3
      <4> QED  BY <4>2, <4>3
    <3>4. tasks'[t].pc # "idle"
      BY <2>1, <3>1, CallKeepsTask DEF SearchOK
    <3>5. \A a \in Adapters : tasks[<<s, a>>].pc # "idle" => tasks'[<<s, a>>].pc # "idle"
      BY <1>1, <2>1, <3>4
    <3> QED  BY <1>1, <3>2, <3>3, <3>5, TasksMoved
  <2> QED  BY <2>2, <2>3
<1> QED  BY <1>1, <1>2 DEF SearchInv

LEMMA BeginKeepsSearches ==
    ASSUME IInv, SearchInv, NEW j \in Jobs, Begin(j)
    PROVE  SearchInv'
<1>1. /\ UNCHANGED <<regs, jobs, outcome>>
      /\ \E t \in Tasks : t[1] = j /\ tasks[t].pc = "ready"
      /\ \A t \in Tasks : tasks'[t] =
           IF t[1] # j \/ tasks[t].pc # "ready" THEN tasks[t]
           ELSE IF enabled[t[2]] THEN [tasks[t] EXCEPT !.pc = "pacing", !.attempt = 1]
           ELSE [tasks[t] EXCEPT !.pc = "done", !.code = "adapter_disabled"]
  BY DEF Begin
<1>2. ASSUME NEW s \in Searches PROVE SearchOK(s)'
  <2>1. s \in Jobs /\ SearchOK(s)
    BY DEF Jobs, SearchInv
  <2>2. \A a \in Adapters : <<s, a>> \in Tasks /\ <<s, a>>[1] = s /\ <<s, a>>[2] = a
    BY <2>1 DEF Tasks
  <2>3. CASE j # s
    <3>1. \A a \in Adapters : tasks'[<<s, a>>] = tasks[<<s, a>>]
      BY <1>1, <2>2, <2>3
    <3> QED  BY <1>1, <2>1, <3>1, SearchFrame
  <2>4. CASE j = s
    <3>1. PICK b \in Adapters : tasks[<<s, b>>].pc = "ready"
      <4>1. PICK t \in Tasks : t[1] = s /\ tasks[t].pc = "ready"
        BY <1>1, <2>4
      <4>2. t[2] \in Adapters /\ t = <<s, t[2]>>
        BY <4>1 DEF Tasks
      <4> QED  BY <4>1, <4>2
    <3>2. jobs[s].pc # "idle" /\ outcome[s] = None
      BY <3>1, UnderWay
    <3>3. ASSUME NEW a \in Adapters
          PROVE  /\ TaskOK(s, a, tasks'[<<s, a>>])
                 /\ tasks[<<s, a>>].pc # "idle" => tasks'[<<s, a>>].pc # "idle"
      <4> DEFINE task == tasks[<<s, a>>]
                 now == tasks'[<<s, a>>]
      <4>1. TaskOK(s, a, task)
        BY <2>1 DEF SearchOK
      <4>2. task = Moved(task, task.pc, task.attempt)
        BY <4>1 DEF TaskOK, Moved
      <4>3. \/ now = task
            \/ task.pc = "ready" /\ now = Moved(task, "pacing", 1)
            \/ task.pc = "ready" /\ now = [pc |-> "done", attempt |-> task.attempt,
                                           answer |-> task.answer, products |-> task.products,
                                           code |-> "adapter_disabled"]
        <5>1. CASE task.pc # "ready"
          BY <1>1, <2>2, <5>1
        <5>2. CASE task.pc = "ready" /\ enabled[a]
          <6> DEFINE t == <<s, a>>
          <6>0. t \in Tasks /\ ~(t[1] # j \/ tasks[t].pc # "ready") /\ enabled[t[2]]
            BY <2>2, <2>4, <5>2
          <6> HIDE DEF t
          <6>1. tasks'[t] = [tasks[t] EXCEPT !.pc = "pacing", !.attempt = 1]
            BY <1>1, <6>0
          <6>2. now = [task EXCEPT !.pc = "pacing", !.attempt = 1]
            BY <6>1 DEF t
          <6> HIDE DEF task, now
          <6> QED  BY <4>2, <5>2, <6>2 DEF Moved
        <5>3. CASE task.pc = "ready" /\ ~enabled[a]
          <6>1. now = [task EXCEPT !.pc = "done", !.code = "adapter_disabled"]
            BY <1>1, <2>2, <2>4, <5>3
          <6> HIDE DEF task, now
          <6> QED  BY <4>2, <5>3, <6>1 DEF Moved
        <5> QED  BY <5>1, <5>2, <5>3
      <4>4. 1 \in 1..MaxAttempts
        <5>1. MaxAttempts \in {MaxAttempts, Slots, Limit, ItemCap, SearchMax} \cup PageLimits
          OBVIOUS
        <5>2. MaxAttempts \in Nat \ {0}
          BY <5>1, FleetAssumption
        <5> QED  BY <5>2
      <4> HIDE DEF task, now
      <4>5. TaskOK(s, a, now)
        <5>1. CASE task.pc = "ready" /\ now = Moved(task, "pacing", 1)
          BY <4>1, <4>4, <5>1, GoesOn DEF Working
        <5>2. CASE /\ task.pc = "ready"
                   /\ now = [pc |-> "done", attempt |-> task.attempt, answer |-> task.answer,
                             products |-> task.products, code |-> "adapter_disabled"]
          BY <4>1, <5>2 DEF TaskOK, Over, Working
        <5> QED  BY <4>1, <4>3, <5>1, <5>2
      <4>6. task.pc # "idle" => now.pc # "idle"
        BY <4>3 DEF Moved
      <4> QED  BY <4>5, <4>6 DEF now, task
    <3> QED  BY <1>1, <3>2, <3>3, TasksMoved
  <2> QED  BY <2>3, <2>4
<1> QED  BY <1>1, <1>2 DEF SearchInv

LEMMA GatherKeepsSearches ==
    ASSUME IInv, SearchInv, NEW j \in Jobs, NEW captured \in SUBSET Registered, NEW operation,
           Gather(j, operation, captured),
           j \in Searches => operation \in {"search_products"} \cup Lookups,
           operation \in Lookups => \E i \in Registered : captured = {i}
    PROVE  SearchInv'
<1>1. /\ jobs[j].pc = "idle" /\ UNCHANGED <<regs, outcome>>
      /\ jobs' = [jobs EXCEPT ![j] = [pc |-> "gathering", operation |-> operation,
                                      targets |-> captured]]
      /\ \A t \in Tasks : tasks'[t] =
           IF t[1] = j /\ \E i \in captured : regs[i].adapter = t[2]
           THEN [tasks[t] EXCEPT !.pc = "ready"] ELSE tasks[t]
  BY DEF Gather
<1>2. /\ jobs'[j] = [pc |-> "gathering", operation |-> operation, targets |-> captured]
      /\ \A k \in Jobs : k # j => jobs'[k] = jobs[k]
  BY <1>1 DEF IInv, RegistryInv
<1>3. Registered \subseteq DOMAIN regs
  BY DEF Registered, IInv, RegistryInv
<1>4. ASSUME NEW s \in Searches PROVE SearchOK(s)'
  <2>1. s \in Jobs /\ SearchOK(s)
    BY DEF Jobs, SearchInv
  <2>2. \A a \in Adapters : <<s, a>> \in Tasks /\ <<s, a>>[1] = s /\ <<s, a>>[2] = a
    BY <2>1 DEF Tasks
  <2>3. CASE j # s
    <3>1. \A a \in Adapters : tasks'[<<s, a>>] = tasks[<<s, a>>]
      BY <1>1, <2>2, <2>3
    <3> QED  BY <1>1, <1>2, <2>1, <2>3, <3>1, SearchFrame
  <2>4. CASE j = s
    <3>1. Asked(s)' = {regs[i].adapter : i \in captured}
      BY <1>1, <1>2, <2>4 DEF Asked
    <3>2. outcome'[s] = None
      BY <1>1, <2>1, <2>4 DEF SearchOK
    <3>3. ASSUME NEW a \in Adapters
          PROVE  TaskOK(s, a, tasks[<<s, a>>])' /\ (a \in Asked(s)' => tasks'[<<s, a>>].pc # "idle")
      <4> DEFINE task == tasks[<<s, a>>]
                 now == tasks'[<<s, a>>]
      <4>1. TaskOK(s, a, task) /\ task.pc = "idle"
        BY <1>1, <2>1, <2>4 DEF SearchOK
      <4>2. task = Moved(task, task.pc, task.attempt)
        BY <4>1 DEF TaskOK, Moved
      <4>3. CASE a \in Asked(s)'
        <5>1. now = [task EXCEPT !.pc = "ready"]
          BY <1>1, <2>2, <2>4, <3>1, <4>3
        <5> HIDE DEF task, now
        <5>2. now = Moved(task, "ready", task.attempt)
          BY <4>2, <5>1 DEF Moved
        <5>3. TaskOK(s, a, now) /\ now.pc = "ready"
          BY <4>1, <5>2 DEF TaskOK, Moved, Working
        <5> QED  BY <5>3 DEF now, TaskOK
      <4>4. CASE a \notin Asked(s)'
        <5>1. ~\E i \in captured : regs[i].adapter = a
          BY <3>1, <4>4
        <5>2. now = task
          BY <1>1, <2>2, <5>1
        <5> QED  BY <4>1, <4>4, <5>2 DEF TaskOK
      <4> QED  BY <4>3, <4>4
    <3>4. Asked(s)' \subseteq Adapters
      BY <1>3, <3>1, RegisteredAdapters DEF IInv
    <3>5. operation \in Lookups => \E i \in DOMAIN regs' : captured = {i}
      BY <1>1, <1>3
    <3>6. /\ jobs'[s].pc = "gathering" /\ jobs'[s].operation = operation
          /\ jobs'[s].targets = captured
      BY <1>2, <2>4
    <3> QED  BY <2>4, <3>2, <3>3, <3>4, <3>5, <3>6 DEF SearchOK
  <2> QED  BY <2>3, <2>4
<1> QED  BY <1>1, <1>4 DEF SearchInv

LEMMA ReturnKeepsSearches ==
    ASSUME IInv, SearchInv, NEW j \in Jobs, Return(j)
    PROVE  SearchInv'
<1>1. /\ UNCHANGED tasks /\ jobs' = [jobs EXCEPT ![j].pc = "returned"]
      /\ \A t \in Tasks : t[1] = j => tasks[t].pc \in {"idle", "done"}
      /\ jobs[j].pc = "gathering"
  BY DEF Return, ReturnSearch, ReturnSweep, Gathered
<1>2. \A i \in DOMAIN regs : i \in DOMAIN regs' /\ regs'[i].adapter = regs[i].adapter
  <2>1. CASE UNCHANGED regs
    BY <2>1
  <2>2. CASE ReturnSweep(j)
    <3>1. regs' = [i \in DOMAIN regs |->
            IF i \in jobs[j].targets
            THEN [regs[i] EXCEPT !.health = Report(j, regs[i].adapter)] ELSE regs[i]]
      BY <2>2 DEF ReturnSweep
    <3>2. \A i \in DOMAIN regs : regs[i] \in Registration
      BY DEF IInv, RegistryInv
    <3> HIDE DEF Report
    <3>3. \A i \in DOMAIN regs : \A h : [regs[i] EXCEPT !.health = h].adapter = regs[i].adapter
      BY <3>2 DEF Registration
    <3> QED  BY <3>1, <3>3
  <2> QED  BY <2>1, <2>2 DEF Return, ReturnSearch
<1>3. /\ \A k \in Jobs : k # j => jobs'[k] = jobs[k]
      /\ jobs'[j].pc = "returned" /\ jobs'[j].operation = jobs[j].operation
      /\ jobs'[j].targets = jobs[j].targets
  BY <1>1 DEF IInv, RegistryInv
<1>4. /\ DOMAIN outcome' = Searches
      /\ \A s \in Searches : s # j => outcome'[s] = outcome[s]
      /\ j \in Searches => outcome'[j] = OutcomeOf(j)
  <2>1. CASE j \in Searches /\ ReturnSearch(j)
    <3>1. outcome' = [outcome EXCEPT ![j] = OutcomeOf(j)]
      BY <2>1 DEF ReturnSearch
    <3> QED  BY <2>1, <3>1 DEF SearchInv
  <2>2. CASE j \in Sweeps /\ ReturnSweep(j)
    BY <2>2, FleetAssumption DEF ReturnSweep, SearchInv
  <2> QED  BY <2>1, <2>2 DEF Return
<1>5. ASSUME NEW s \in Searches PROVE SearchOK(s)'
  <2>1. s \in Jobs /\ SearchOK(s)
    BY DEF Jobs, SearchInv
  <2>2. CASE s # j
    BY <1>1, <1>2, <1>3, <1>4, <2>1, <2>2, SearchFrame
  <2>3. CASE s = j
    <3>1. Asked(s)' = Asked(s) /\ Asked(s) \subseteq Adapters
      BY <1>2, <1>3, <2>3, SameAsked
    <3>2. OutcomeOf(s)' = OutcomeOf(s)
      BY <1>1, <1>3, <2>3, <3>1, SameOutcome
    <3>3. \A a \in Adapters : TaskOK(s, a, tasks[<<s, a>>])'
      <4> SUFFICES ASSUME NEW a \in Adapters PROVE TaskOK(s, a, tasks[<<s, a>>])'
        OBVIOUS
      <4>1. TaskOK(s, a, tasks[<<s, a>>])
        BY <2>1 DEF SearchOK
      <4> QED  BY <1>1, <1>3, <2>3, <4>1 DEF TaskOK, Over
    <3>4. jobs[s].operation \in Lookups => \E i \in DOMAIN regs' : jobs'[s].targets = {i}
      BY <1>1, <1>2, <1>3, <2>1, <2>3 DEF SearchOK
    <3> QED  BY <1>1, <1>3, <1>4, <2>1, <2>3, <3>1, <3>2, <3>3, <3>4 DEF SearchOK
  <2> QED  BY <2>2, <2>3
<1> QED  BY <1>4, <1>5 DEF SearchInv

LEMMA OperateKeepsSearches ==
    ASSUME IInv, SearchInv, Operate
    PROVE  SearchInv'
<1>1. UNCHANGED <<jobs, tasks, outcome>>
  BY DEF Operate, Register, Unregister, SetEnabled
<1>2. \A i \in DOMAIN regs : i \in DOMAIN regs' /\ regs'[i].adapter = regs[i].adapter
  <2>1. CASE regs' = regs
    BY <2>1
  <2>2. ASSUME NEW a \in Adapters, Register(a)
        PROVE  \A i \in DOMAIN regs : i \in DOMAIN regs' /\ regs'[i].adapter = regs[i].adapter
    <3>1. regs \in Seq(Registration) /\ [adapter |-> a, health |-> None] \in Registration
      BY DEF IInv, RegistryInv, Registration
    <3>2. regs' = Append(regs, [adapter |-> a, health |-> None])
      BY <2>2 DEF Register
    <3> QED  BY <3>1, <3>2, AppendProperties
  <2> QED  BY <2>1, <2>2 DEF Operate, Unregister, SetEnabled
<1> QED  BY <1>1, <1>2, SearchFrame DEF SearchInv

\* What searches end with is what was answered to them.
THEOREM SearchesAnswered == Spec => []SearchInv
<1>1. ASSUME Init PROVE SearchInv
  <2>1. \A s \in Searches : s \in Jobs /\ \A a \in Adapters : tasks[<<s, a>>] = Idle
    BY <1>1 DEF Init, Jobs, Tasks
  <2>2. \A s \in Searches : jobs[s].pc = "idle" /\ outcome[s] = None
    BY <1>1, <2>1 DEF Init
  <2>3. \A s, a : TaskOK(s, a, Idle) /\ Idle.pc = "idle"
    BY DEF TaskOK, Idle, Working
  <2>4. DOMAIN outcome = Searches
    BY <1>1 DEF Init
  <2> QED  BY <2>1, <2>2, <2>3, <2>4 DEF SearchInv, SearchOK
<1>2. ASSUME IInv, SearchInv, [Next]_vars PROVE SearchInv'
  <2>1. CASE UNCHANGED vars
    BY <1>2, <2>1, SearchFrame DEF vars, SearchInv
  <2>2. ASSUME NEW s \in Searches, StartSearch(s) \/ StartLookup(s) PROVE SearchInv'
    <3>1. /\ EnabledOnes \subseteq Registered /\ \A c : Serving(c) \subseteq Registered
          /\ s \in Jobs /\ "search_products" \notin Lookups
      BY DEF EnabledOnes, Serving, Jobs, Lookups
    <3>2. CASE StartSearch(s)
      BY <1>2, <3>1, <3>2, GatherKeepsSearches DEF StartSearch
    <3>3. CASE StartLookup(s)
      <4>1. PICK i \in EnabledOnes, operation \in Lookups : Gather(s, operation, {i})
        BY <3>3 DEF StartLookup
      <4>2. {i} \in SUBSET Registered /\ \E k \in Registered : {i} = {k}
        BY <3>1
      <4> QED  BY <1>2, <3>1, <4>1, <4>2, GatherKeepsSearches
    <3> QED  BY <2>2, <3>2, <3>3
  <2>3. ASSUME NEW h \in Sweeps, StartSweep(h) PROVE SearchInv'
    <3>1. PICK captured \in {Registered, EnabledOnes} \cup {{i} : i \in Registered} :
            Gather(h, "health_check", captured)
      BY <2>3 DEF StartSweep
    <3>2. captured \in SUBSET Registered
      BY DEF EnabledOnes
    <3>3. h \in Jobs /\ h \notin Searches /\ "health_check" \notin Lookups
      BY FleetAssumption DEF Jobs, Lookups
    <3> QED  BY <1>2, <3>1, <3>2, <3>3, GatherKeepsSearches
  <2>4. CASE Progress
    BY <1>2, <2>4, BeginKeepsSearches, ReturnKeepsSearches, CallKeepsSearches DEF Progress
  <2> QED  BY <1>2, <2>1, <2>2, <2>3, <2>4, OperateKeepsSearches DEF Next
<1>3. IInv /\ SearchInv /\ [Next]_vars => SearchInv'
  BY <1>2
<1>4. Init => SearchInv
  BY <1>1
<1> QED  BY <1>3, <1>4, InductiveInvariant, PTL DEF Spec

\* A search that returns has heard every retailer that it asked: hits, or a
\* failure under the retailer's name; nothing is returned under a foreign name,
\* no answer is lost but to a hit that no mapping expects, and a look-up worth a
\* retry has used up its own (RetailerFleet.search, _search_products).
THEOREM FanOutsAreIsolated == Spec => []FanOutIsIsolated
<1>1. IInv /\ SearchInv => FanOutIsIsolated
  BY OutcomesAreIsolated DEF FanOutIsIsolated
<1> QED  BY <1>1, InductiveInvariant, SearchesAnswered, PTL

-----------------------------------------------------------------------------
(* Pages.                                                                  *)

LEMMA Caps == ItemCap \in Nat /\ SearchMax \in Nat /\ ItemCap <= SearchMax /\ PageLimits \subseteq Nat
<1>1. {MaxAttempts, Slots, Limit, ItemCap, SearchMax} \cup PageLimits \subseteq Nat
  BY FleetAssumption
<1> QED  BY <1>1, FleetAssumption

\* The products of a list of hits, when no limit cuts it short.
AllProducts(family, r, hits) ==
    {ProductOf(family, r, hits[i]) :
       i \in {k \in DOMAIN hits : Raised(family, hits[k]) = None}}

\* A limit that is no smaller than the list cuts nothing off.
LEMMA UncutSearch ==
    ASSUME NEW family, NEW r, NEW hits, NEW m \in Nat, DOMAIN hits = 1..m,
           NEW n \in Nat, m <= n
    PROVE  SearchProducts(family, r, hits, n) = AllProducts(family, r, hits)
<1>1. ASSUME NEW i \in 1..m
      PROVE  Cardinality({k \in 1..(i - 1) : Raised(family, hits[k]) = None}) < n
  <2> DEFINE before == {k \in 1..(i - 1) : Raised(family, hits[k]) = None}
  <2>1. IsFiniteSet(1..(i - 1)) /\ Cardinality(1..(i - 1)) = i - 1
    BY FS_Interval
  <2>2. Cardinality(before) <= Cardinality(1..(i - 1))
    BY <2>1, FS_Subset
  <2>3. IsFiniteSet(before) /\ Cardinality(before) \in Nat
    BY <2>1, FS_Subset, FS_CardinalityType
  <2> HIDE DEF before
  <2>4. Cardinality(before) < n
    BY <2>1, <2>2, <2>3
  <2> QED  BY <2>4 DEF before
<1>2. LookedAt(family, hits, n) = DOMAIN hits
  BY <1>1 DEF LookedAt
<1> QED  BY <1>2 DEF SearchProducts, AllProducts

\* What a client can show at most of an answer.
Shown(answer) == SubSeq(HitLists[answer], 1, Least(Len(HitLists[answer]), ItemCap))

\* A page that is no smaller than ItemCap is cut from all that is shown.
LEMMA PagesAreWhole ==
    ASSUME NEW s, NEW n \in Nat, n >= ItemCap
    PROVE  PageHits(s, n) =
             {l \in UNION {IF /\ tasks[<<s, a>>].code = None /\ IsList(tasks[<<s, a>>].answer)
                              /\ Family[a] # "other"
                           THEN AllProducts(Family[a], RetailerOf[a], Shown(tasks[<<s, a>>].answer))
                           ELSE {} : a \in Asked(s)} :
                l.priced /\ Normalizes(l)}
<1>1. ItemCap \in Nat /\ ItemCount(n) = ItemCap
  BY Caps DEF ItemCount, Least
<1>2. ASSUME NEW answer \in DOMAIN HitLists, NEW family, NEW r
      PROVE  SearchProducts(family, r, Shown(answer), n) = AllProducts(family, r, Shown(answer))
  <2> DEFINE hits == HitLists[answer]
             m == Least(Len(hits), ItemCap)
  <2>1. hits \in Seq(Range(hits))
    BY AnswersAssumption
  <2>2. m \in Nat /\ m <= n /\ m <= Len(hits)
    BY <1>1, <2>1 DEF Least
  <2>3. DOMAIN SubSeq(hits, 1, m) = 1..m
    BY <2>1, <2>2, SubSeqProperties
  <2> HIDE DEF m
  <2>4. SearchProducts(family, r, SubSeq(hits, 1, m), n) = AllProducts(family, r, SubSeq(hits, 1, m))
    BY <2>2, <2>3, UncutSearch
  <2> QED  BY <2>4 DEF m, Shown
<1> DEFINE first(answer) == SubSeq(HitLists[answer], 1,
                                   Least(Len(HitLists[answer]), ItemCount(n)))
           from(a) == IF /\ tasks[<<s, a>>].code = None /\ IsList(tasks[<<s, a>>].answer)
                         /\ Family[a] # "other"
                      THEN SearchProducts(Family[a], RetailerOf[a],
                                          first(tasks[<<s, a>>].answer), n)
                      ELSE {}
           all(a) == IF /\ tasks[<<s, a>>].code = None /\ IsList(tasks[<<s, a>>].answer)
                        /\ Family[a] # "other"
                     THEN AllProducts(Family[a], RetailerOf[a], Shown(tasks[<<s, a>>].answer))
                     ELSE {}
<1>3. PageHits(s, n) = {l \in UNION {from(a) : a \in Asked(s)} : l.priced /\ Normalizes(l)}
  BY DEF PageHits
<1>4. \A answer : first(answer) = Shown(answer)
  BY <1>1 DEF Shown
<1>5. ASSUME NEW a PROVE from(a) = all(a)
  <2> HIDE DEF first
  <2> QED  BY <1>2, <1>4 DEF IsList
<1>6. UNION {from(a) : a \in Asked(s)} = UNION {all(a) : a \in Asked(s)}
  <2> HIDE DEF from, all
  <2> QED  BY <1>5
<1> QED  BY <1>3, <1>6

\* Whatever was answered, all pages at least as large as an answer are cut from
\* one list, and state one total (ProductDiscoveryService.search).
THEOREM LargePagesAgree == Spec => []PagesShareOneList
<1>1. PagesShareOneList
  <2> SUFFICES ASSUME NEW s \in Searches, NEW limit \in PageLimits, limit >= ItemCap
               PROVE  Cardinality({SearchPage(s, offset, limit) : offset \in Offsets}) = 1
    BY DEF PagesShareOneList
  <2>1. PICK zero \in Offsets : TRUE
    BY FleetAssumption
  <2>2. ASSUME NEW offset \in Offsets
        PROVE  AdapterLimit(offset, limit) \in Nat /\ AdapterLimit(offset, limit) >= ItemCap
    <3>1. offset \in Nat /\ limit \in Nat
      BY Caps, FleetAssumption
    <3> QED  BY <3>1, Caps DEF AdapterLimit, Least
  <2>3. \A offset \in Offsets : SearchPage(s, offset, limit) = SearchPage(s, zero, limit)
    <3>1. \A offset \in Offsets : PageHits(s, AdapterLimit(offset, limit))
                                    = PageHits(s, AdapterLimit(zero, limit))
      BY <2>2, PagesAreWhole
    <3> QED  BY <3>1 DEF SearchPage
  <2>4. {SearchPage(s, offset, limit) : offset \in Offsets} = {SearchPage(s, zero, limit)}
    BY <2>1, <2>3
  <2> QED  BY <2>4, FS_Singleton
<1> QED  BY <1>1, PTL
============================================================================
