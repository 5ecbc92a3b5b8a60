--------------------------- MODULE CollectionTasks ---------------------------
(***************************************************************************)
(* The Celery collection tasks (backend/app/workers/tasks.py) running the  *)
(* CollectionOrchestrator (backend/app/collectors/orchestrator.py) against *)
(* the collection_jobs and collection_errors tables.                       *)
(*                                                                         *)
(* One task is one delivered Celery message.  It opens ONE SQLAlchemy      *)
(* session, visits the retailers of its plan in registration order, and    *)
(* commits once, at the very end; everything before that is only flushed,  *)
(* so no other session sees it.  The database is PostgreSQL at READ        *)
(* COMMITTED: a SELECT sees the rows committed so far, and a flushed       *)
(* INSERT or UPDATE holds its row (or its unique-index entry) until the    *)
(* transaction ends, so a second writer of the same key waits.             *)
(*                                                                         *)
(* Retailers are numbered 1..NumRetailers in registration order.  Row      *)
(* timestamps, messages and durations are not modelled; the scope is the   *)
(* part of the idempotency key that the caller's arguments determine.      *)
(***************************************************************************)
EXTENDS Naturals, FiniteSets

CONSTANTS
    Tasks,          \* the delivered collection tasks
    NoTask,         \* "no transaction holds this row"
    Scopes,         \* canonical scopes of the idempotency key
    ScopeOf,        \* the scope of each task's arguments
    NumRetailers,   \* registered, enabled adapters that support the job
    PlanOf,         \* the retailers a task visits (retailer_ids filter)
    MaxAttempts,    \* CollectionConfig.max_attempts
    MaxItems,       \* bound: listings one job body succeeds, and fails, at
    Concurrency,    \* celery worker_concurrency
    MaxDeliveries   \* bound: times the broker delivers one message

Retailers == 1..NumRetailers
Keys      == Scopes \X Retailers

ASSUME TasksAssumption    == NoTask \notin Tasks
ASSUME RetailerAssumption == NumRetailers \in Nat \ {0}
ASSUME PlanAssumption     == /\ ScopeOf \in [Tasks -> Scopes]
                             /\ PlanOf \in [Tasks -> SUBSET Retailers]
ASSUME BoundAssumption    == /\ MaxAttempts \in Nat \ {0}
                             /\ MaxItems \in Nat
                             /\ Concurrency \in Nat \ {0}
                             /\ MaxDeliveries \in Nat \ {0}

VARIABLES
    table,      \* committed collection_jobs rows, by idempotency key
    errors,     \* committed collection_errors rows per job
    lock,       \* the transaction holding each job row
    draft,      \* the flushed, uncommitted version of a held row
    pending,    \* flushed, uncommitted collection_errors rows
    pc,         \* where each task is
    at,         \* the retailer it is working on
    attempt,    \* the 1-based attempt of _execute_with_policy
    job,        \* the ORM object of the current job, as the session knows it
    report,     \* the status the run reports for each retailer so far
    deliveries  \* how often the broker has handed out the message

dbVars   == <<table, errors, lock, draft, pending>>
taskVars == <<pc, at, attempt, job, report, deliveries>>
vars     == <<table, errors, lock, draft, pending,
              pc, at, attempt, job, report, deliveries>>

------------------------------------------------------------------------------
TerminalSuccess == {"success", "partial_success"}
Final           == TerminalSuccess \cup {"failed"}
JobStatus       == {"pending", "running"} \cup Final

\* A CollectionFailure, by what the retry policy tells apart: the retryable
\* categories (timeout, rate_limited, temporary_failure) and the others.
Category == {"temporary", "permanent"}

Row   == [status : JobStatus, retries : Nat]
NoRow == [status |-> "absent", retries |-> 0]

\* A fresh CollectionJob, inserted PENDING.
NewRow == [status |-> "pending", retries |-> 0]

Phases == {"queued", "lookup", "claim", "attempt", "body", "backoff",
           "commit", "acking", "abort", "done", "failed", "lost"}
Ended  == {"done", "failed", "lost"}
Busy   == {t \in Tasks : pc[t] \notin Ended \cup {"queued"}}

NoReport == [r \in Retailers |-> "none"]

Key(t, r)  == <<ScopeOf[t], r>>
JobKey(t)  == Key(t, at[t])

\* Mutant: the plan is iterated as a set, in no particular order.
MutIsNext(t, r, q) ==
    \/ /\ q \in PlanOf[t] \ {r}
       /\ report[t][q] = "none"
    \/ /\ q = NumRetailers + 1
       /\ \A p \in PlanOf[t] \ {r} : report[t][p] # "none"

\* q is the next retailer of t's plan after r, in registration order; past
\* the last one the run goes on to its commit.
IsNext(t, r, q) ==
    \/ /\ q \in PlanOf[t]
       /\ q > r
       /\ \A p \in PlanOf[t] : p > r => q <= p
    \/ /\ q = NumRetailers + 1
       /\ \A p \in PlanOf[t] : p <= r

GoTo(t, q) ==
    /\ at' = [at EXCEPT ![t] = q]
    /\ pc' = [pc EXCEPT ![t] = IF q \in Retailers THEN "lookup" ELSE "commit"]

\* An UPDATE names only the columns that differ from what the session loaded
\* or last flushed; the others keep what the row holds.
Flushed(row, known, new) ==
    [status  |-> IF new.status # known.status THEN new.status ELSE row.status,
     retries |-> IF new.retries # known.retries THEN new.retries ELSE row.retries]

\* is_retryable: a retryable category, and attempts remain.
Retryable(category, n) == category = "temporary" /\ n < MaxAttempts

\* _status_for_outcome: the counts of one job body decide the row's status.
StatusForOutcome(succeeded, failed) ==
    IF failed = 0 THEN "success"
    ELSE IF succeeded > 0 THEN "partial_success" ELSE "failed"

\* Mutant: any success makes the run a success.
MutRunStatus(t) ==
    LET statuses == {report[t][r] : r \in PlanOf[t]}
    IN  IF statuses \subseteq {"success"} THEN "success"
        ELSE IF statuses \cap TerminalSuccess = {} THEN "failed"
        ELSE "success"

\* CollectionRunResult.status over what the run reports.
RunStatus(t) ==
    LET statuses == {report[t][r] : r \in PlanOf[t]}
    IN  IF statuses \subseteq {"success"} THEN "success"
        ELSE IF statuses \cap TerminalSuccess = {} THEN "failed"
        ELSE "partial_success"

------------------------------------------------------------------------------
Init ==
    /\ table = [k \in Keys |-> NoRow]
    /\ errors = [k \in Keys |-> 0]
    /\ lock = [k \in Keys |-> NoTask]
    /\ draft = [k \in Keys |-> NoRow]
    /\ pending = [k \in Keys |-> 0]
    /\ pc = [t \in Tasks |-> "queued"]
    /\ at = [t \in Tasks |-> 0]
    /\ attempt = [t \in Tasks |-> 0]
    /\ job = [t \in Tasks |-> NoRow]
    /\ report = [t \in Tasks |-> NoReport]
    /\ deliveries = [t \in Tasks |-> 0]

\* A free worker process takes the message: new session, new orchestrator,
\* and the run starts at the first retailer of its plan.
Deliver(t) ==
    /\ pc[t] = "queued"
    /\ Cardinality(Busy) < Concurrency
    /\ \E q \in 1..NumRetailers + 1 : IsNext(t, 0, q) /\ GoTo(t, q)
    /\ deliveries' = [deliveries EXCEPT ![t] = @ + 1]
    /\ UNCHANGED <<table, errors, lock, draft, pending, attempt, job, report>>

\* get_by_idempotency_key finds a finished job: it is reported, not run again.
Reuse(t) ==
    /\ pc[t] = "lookup"
    /\ table[JobKey(t)].status \in TerminalSuccess
    /\ report' = [report EXCEPT ![t][at[t]] = table[JobKey(t)].status]
    /\ \E q \in 1..NumRetailers + 1 : IsNext(t, at[t], q) /\ GoTo(t, q)
    /\ UNCHANGED <<table, errors, lock, draft, pending, attempt, job, deliveries>>

\* Mutant: a finished job is looked up and executed again.
MutLookup(t) ==
    /\ pc[t] = "lookup"
    /\ job' = [job EXCEPT ![t] = table[JobKey(t)]]
    /\ pc' = [pc EXCEPT ![t] = "claim"]
    /\ UNCHANGED <<table, errors, lock, draft, pending, at, attempt, report,
                   deliveries>>

\* It finds no row, or one to be retried in place: the row is remembered in
\* the session and not read again.
Lookup(t) ==
    /\ pc[t] = "lookup"
    /\ table[JobKey(t)].status \notin TerminalSuccess
    /\ job' = [job EXCEPT ![t] = table[JobKey(t)]]
    /\ pc' = [pc EXCEPT ![t] = "claim"]
    /\ UNCHANGED <<table, errors, lock, draft, pending, at, attempt, report,
                   deliveries>>

\* The flush that makes the job RUNNING: an INSERT when the look-up found
\* nothing, otherwise an UPDATE of whatever the row holds by now.  Either
\* waits for the transaction that holds the key.
Claim(t) ==
    LET k     == JobKey(t)
        known == IF job[t] = NoRow THEN NewRow ELSE job[t]
        row   == IF job[t] = NoRow THEN NewRow ELSE table[k]
        new   == [known EXCEPT !.status = "running"]
    IN  /\ pc[t] = "claim"
        /\ lock[k] = NoTask
        /\ job[t] = NoRow => table[k] = NoRow
        /\ lock' = [lock EXCEPT ![k] = t]
        /\ draft' = [draft EXCEPT ![k] = Flushed(row, known, new)]
        /\ job' = [job EXCEPT ![t] = new]
        /\ attempt' = [attempt EXCEPT ![t] = 1]
        /\ pc' = [pc EXCEPT ![t] = "attempt"]
        /\ UNCHANGED <<table, errors, pending, at, report, deliveries>>

\* The transaction of t ends: its rows are given back.
Release(t) ==
    /\ lock' = [k \in Keys |-> IF lock[k] = t THEN NoTask ELSE lock[k]]
    /\ draft' = [k \in Keys |-> IF lock[k] = t THEN NoRow ELSE draft[k]]
    /\ pending' = [k \in Keys |-> IF lock[k] = t THEN 0 ELSE pending[k]]

\* Mutant: a run that is given up commits what it flushed so far.
MutGiveUp(t, next) ==
    /\ Release(t)
    /\ table' = [k \in Keys |-> IF lock[k] = t THEN draft[k] ELSE table[k]]
    /\ errors' = [k \in Keys |->
                    IF lock[k] = t THEN errors[k] + pending[k] ELSE errors[k]]
    /\ pc' = [pc EXCEPT ![t] = next]
    /\ at' = [at EXCEPT ![t] = 0]
    /\ attempt' = [attempt EXCEPT ![t] = 0]
    /\ job' = [job EXCEPT ![t] = NoRow]
    /\ report' = [report EXCEPT ![t] = NoReport]
    /\ UNCHANGED deliveries

\* Mutant: the session of a run that is given up is neither rolled back nor
\* closed.
MutStayOpen(t, next) ==
    /\ pc' = [pc EXCEPT ![t] = next]
    /\ at' = [at EXCEPT ![t] = 0]
    /\ attempt' = [attempt EXCEPT ![t] = 0]
    /\ job' = [job EXCEPT ![t] = NoRow]
    /\ report' = [report EXCEPT ![t] = NoReport]
    /\ UNCHANGED <<table, errors, lock, draft, pending, deliveries>>

\* The run is given up: nothing of it is committed, its session and its
\* results are gone, and the task goes on at `next`.
GiveUp(t, next) ==
    /\ Release(t)
    /\ pc' = [pc EXCEPT ![t] = next]
    /\ at' = [at EXCEPT ![t] = 0]
    /\ attempt' = [attempt EXCEPT ![t] = 0]
    /\ job' = [job EXCEPT ![t] = NoRow]
    /\ report' = [report EXCEPT ![t] = NoReport]
    /\ UNCHANGED <<table, errors, deliveries>>

\* The INSERT meets a row another run committed since the look-up: the
\* IntegrityError leaves _run_one_retailer and ends the whole run.
ClaimConflict(t) ==
    /\ pc[t] = "claim"
    /\ lock[JobKey(t)] = NoTask
    /\ job[t] = NoRow
    /\ table[JobKey(t)] # NoRow
    /\ GiveUp(t, "abort")

\* One turn of the attempt loop begins: retry_count is flushed.
StartAttempt(t) ==
    LET k   == JobKey(t)
        new == [job[t] EXCEPT !.retries = attempt[t] - 1]
    IN  /\ pc[t] = "attempt"
        /\ draft' = [draft EXCEPT ![k] = Flushed(@, job[t], new)]
        /\ job' = [job EXCEPT ![t] = new]
        /\ pc' = [pc EXCEPT ![t] = "body"]
        /\ UNCHANGED <<table, errors, lock, pending, at, attempt, report,
                       deliveries>>

\* Mutant: the final status is reported but never flushed.
MutFinish(t, status, added) ==
    /\ pending' = [pending EXCEPT ![JobKey(t)] = @ + added]
    /\ report' = [report EXCEPT ![t][at[t]] = status]
    /\ job' = [job EXCEPT ![t] = NoRow]
    /\ attempt' = [attempt EXCEPT ![t] = 0]
    /\ \E q \in 1..NumRetailers + 1 : IsNext(t, at[t], q) /\ GoTo(t, q)
    /\ UNCHANGED <<table, errors, lock, draft, deliveries>>

\* The row gets its final status, the result is appended and the run goes on
\* to the next retailer.  `added` CollectionError rows are flushed with it.
Finish(t, status, added) ==
    LET k   == JobKey(t)
        new == [job[t] EXCEPT !.status = status]
    IN  /\ draft' = [draft EXCEPT ![k] = Flushed(@, job[t], new)]
        /\ pending' = [pending EXCEPT ![k] = @ + added]
        /\ report' = [report EXCEPT ![t][at[t]] = status]
        /\ job' = [job EXCEPT ![t] = NoRow]
        /\ attempt' = [attempt EXCEPT ![t] = 0]
        /\ \E q \in 1..NumRetailers + 1 : IsNext(t, at[t], q) /\ GoTo(t, q)
        /\ UNCHANGED <<table, errors, lock, deliveries>>

\* The job body returns: every failed item was captured and becomes a
\* CollectionError; the health probe that follows never raises.
BodyReturns(t) ==
    /\ pc[t] = "body"
    /\ \E succeeded, failed \in 0..MaxItems :
          Finish(t, StatusForOutcome(succeeded, failed), failed)

\* Mutant: the failed attempt is retried without its CollectionError row.
MutBodyFailsRetry(t) ==
    /\ pc[t] = "body"
    /\ Retryable("temporary", attempt[t])
    /\ pc' = [pc EXCEPT ![t] = "backoff"]
    /\ UNCHANGED <<table, errors, lock, draft, pending, at, attempt, job, report,
                   deliveries>>

\* A CollectionFailure (a timeout included) is recorded; a retryable one is
\* tried again after a pause while attempts remain.
BodyFailsRetry(t) ==
    /\ pc[t] = "body"
    /\ Retryable("temporary", attempt[t])
    /\ pending' = [pending EXCEPT ![JobKey(t)] = @ + 1]
    /\ pc' = [pc EXCEPT ![t] = "backoff"]
    /\ UNCHANGED <<table, errors, lock, draft, at, attempt, job, report,
                   deliveries>>

\* The pause before the next attempt ends.
Backoff(t) ==
    /\ pc[t] = "backoff"
    /\ attempt' = [attempt EXCEPT ![t] = @ + 1]
    /\ pc' = [pc EXCEPT ![t] = "attempt"]
    /\ UNCHANGED <<table, errors, lock, draft, pending, at, job, report,
                   deliveries>>

\* Attempts are used up, or the failure is permanent: the job is FAILED and
\* the run goes on.
BodyFailsForGood(t) ==
    /\ pc[t] = "body"
    /\ \E category \in Category : ~Retryable(category, attempt[t])
    /\ Finish(t, "failed", 1)

\* A stray exception (a mapping bug, the worker's soft time limit): the job is
\* FAILED without a CollectionError row.
BodyRaises(t) ==
    /\ pc[t] = "body"
    /\ Finish(t, "failed", 0)

\* A flush of the body fails in the database (a unique key another session
\* took, a deadlock).  Nothing opened a savepoint, so the transaction is rolled
\* back there and the session refuses every later flush, the one that would
\* record the failure included: the exception leaves the run.
BodyPoisonsSession(t) ==
    /\ pc[t] = "body"
    /\ GiveUp(t, "abort")

\* Mutant: the result is returned, but the session was rolled back.
MutCommit(t) ==
    /\ pc[t] = "commit"
    /\ Release(t)
    /\ pc' = [pc EXCEPT ![t] = "acking"]
    /\ UNCHANGED <<table, errors, at, attempt, job, report, deliveries>>

\* session.commit(): the rows of every retailer of the run become visible at
\* once.  The message is not acknowledged yet (task_acks_late).
Commit(t) ==
    /\ pc[t] = "commit"
    /\ table' = [k \in Keys |-> IF lock[k] = t THEN draft[k] ELSE table[k]]
    /\ errors' = [k \in Keys |->
                    IF lock[k] = t THEN errors[k] + pending[k] ELSE errors[k]]
    /\ Release(t)
    /\ pc' = [pc EXCEPT ![t] = "acking"]
    /\ UNCHANGED <<at, attempt, job, report, deliveries>>

Ack(t) ==
    /\ pc[t] = "acking"
    /\ pc' = [pc EXCEPT ![t] = "done"]
    /\ at' = [at EXCEPT ![t] = 0]
    /\ report' = [report EXCEPT ![t] = NoReport]
    /\ UNCHANGED <<table, errors, lock, draft, pending, attempt, job, deliveries>>

\* An exception that left run() reaches the task, which rolls back (again),
\* closes the session and re-raises: the task has failed.
Abort(t) ==
    /\ pc[t] = "abort"
    /\ pc' = [pc EXCEPT ![t] = "failed"]
    /\ UNCHANGED <<table, errors, lock, draft, pending, at, attempt, job,
                   report, deliveries>>

\* The soft time limit while the event loop waits: the signal's exception
\* leaves asyncio.run, which cancels the coroutine; the session is rolled back.
\* Just after the commit it still fails the task, whose rows then stay.
\* (Raised inside the job body's own code it is a BodyRaises instead.)
SoftTimeLimit(t) ==
    /\ pc[t] \in {"lookup", "claim", "attempt", "body", "backoff", "commit",
                  "acking"}
    /\ GiveUp(t, "failed")

\* The worker dies (the hard time limit's SIGKILL, a lost container): the
\* server rolls the session back.  The unacknowledged message is delivered
\* again, or it is gone when the broker counted it as acknowledged.
Crash(t) ==
    /\ t \in Busy
    /\ \/ deliveries[t] < MaxDeliveries /\ GiveUp(t, "queued")
       \/ GiveUp(t, "lost")

\* Every message is consumed: the workers wait for the next one.
Idle ==
    /\ \A t \in Tasks : pc[t] \in Ended
    /\ UNCHANGED vars

Step(t) ==
    \/ Deliver(t) \/ Reuse(t) \/ Lookup(t) \/ Claim(t) \/ ClaimConflict(t)
    \/ StartAttempt(t) \/ BodyReturns(t) \/ BodyFailsRetry(t) \/ Backoff(t)
    \/ BodyFailsForGood(t) \/ BodyRaises(t) \/ BodyPoisonsSession(t)
    \/ Commit(t) \/ Ack(t) \/ Abort(t)

Next ==
    \/ \E t \in Tasks : Step(t) \/ SoftTimeLimit(t) \/ Crash(t)
    \/ Idle

Spec == Init /\ [][Next]_vars

\* A worker that runs keeps running: every await in a task is bounded (the
\* operation and retailer timeouts, the capped backoff) and a waiting statement
\* proceeds once its row is free.  Nothing is assumed about crashes.
Fairness == \A t \in Tasks : WF_vars(Step(t))
FairSpec == Spec /\ Fairness

------------------------------------------------------------------------------
TypeOK ==
    /\ table \in [Keys -> Row \cup {NoRow}]
    /\ errors \in [Keys -> Nat]
    /\ lock \in [Keys -> Tasks \cup {NoTask}]
    /\ draft \in [Keys -> Row \cup {NoRow}]
    /\ pending \in [Keys -> Nat]
    /\ pc \in [Tasks -> Phases]
    /\ at \in [Tasks -> 0..NumRetailers + 1]
    /\ attempt \in [Tasks -> 0..MaxAttempts]
    /\ job \in [Tasks -> Row \cup {NoRow}]
    /\ report \in [Tasks -> [Retailers -> Final \cup {"none"}]]
    /\ deliveries \in [Tasks -> 0..MaxDeliveries]

\* Of what the sessions have committed, a row carries a final status: whatever
\* aborts or collides, no row is left PENDING or RUNNING with nobody at work on
\* it.  (The other side of the one commit per run is CrashesAreVisible.)
CommittedRowsAreFinal ==
    \A k \in Keys : table[k] # NoRow => table[k].status \in Final

\* "stores orchestration outcomes [...] so a worker crash is still visible"
\* (db/models/collection_job.py:3-5): a run that dies for good has left a row
\* for each retailer it had begun.  (Violated: its rows were flushed only.)
CrashesAreVisible ==
    [][\A t \in Tasks : pc'[t] = "lost" /\ pc[t] # "lost" =>
          \A k \in Keys : lock[k] = t => table'[k] # NoRow]_vars

\* A retry count is backed by evidence: each attempt that was retried left its
\* CollectionError row, also when two runs of one key overwrite each other.
RetriesAreRecorded ==
    \A k \in Keys : errors[k] >= table[k].retries

\* What the task returns to the result backend is what it commits: for every
\* retailer it ran, the flushed row has the status it reports.
ReportMatchesDraft ==
    \A t \in Tasks : \A r \in Retailers :
        lock[Key(t, r)] = t /\ r < at[t] => draft[Key(t, r)].status = report[t][r]

\* A task whose session was committed leaves a finished row for every retailer
\* of its plan, those it reused included.
CommittedRunIsComplete ==
    \A t \in Tasks : pc[t] \in {"acking", "done"} =>
        \A r \in PlanOf[t] : table[Key(t, r)].status \in Final

\* a waits for b's transaction.
WaitsFor(a, b) == pc[a] = "claim" /\ a # b /\ lock[JobKey(a)] = b

\* Waiting tasks wait only for tasks that wait further along the registration
\* order, so overlapping runs never wait in a circle, whatever their plans.
NoWaitCycle ==
    \A a, b \in Tasks :
        WaitsFor(a, b) /\ pc[b] = "claim" => at[a] < at[b]

\* The aggregate result a task returns agrees with the rows it commits: it is
\* FAILED exactly when the run executed every retailer itself and all of those
\* rows are failed, and never SUCCESS over a row that is not.
ResultMatchesRows ==
    \A t \in Tasks : pc[t] = "commit" =>
        LET held == {r \in Retailers : lock[Key(t, r)] = t}
            rows == {draft[Key(t, r)].status : r \in held}
        IN  /\ RunStatus(t) = "failed" <=>
                  held = PlanOf[t] /\ rows = {"failed"}
            /\ RunStatus(t) = "success" => rows \subseteq {"success"}

\* At last every delivered message is finished with (none begins again once it
\* has ended): no retry loop, lock wait or redelivery goes on for ever.
EveryTaskEnds == <>(\A t \in Tasks : pc[t] \in Ended)

(* The inductive invariant behind these properties.                        *)

InRun   == {"lookup", "claim", "attempt", "body", "backoff", "commit"}
Working == {"attempt", "body", "backoff"}

\* A run is at a retailer of its plan, or past the last one.
PositionInv ==
    \A t \in Tasks :
        /\ pc[t] \in {"lookup", "claim"} \cup Working => at[t] \in PlanOf[t]
        /\ pc[t] \in {"commit", "acking"} => at[t] = NumRetailers + 1
        /\ pc[t] \notin InRun \cup {"acking"} => at[t] = 0

\* A waiting message has a delivery left, a waiting retry an attempt.
CounterInv ==
    \A t \in Tasks :
        /\ pc[t] = "queued" => deliveries[t] < MaxDeliveries
        /\ pc[t] \in Working => attempt[t] > 0
        /\ pc[t] = "backoff" => attempt[t] < MaxAttempts

\* A transaction holds rows of its own plan only, up to the current retailer,
\* and that one's exactly while it works on it.
LockInv ==
    \A t \in Tasks :
        /\ \A k \in Keys : lock[k] = t =>
              /\ pc[t] \in InRun
              /\ k[1] = ScopeOf[t] /\ k[2] \in PlanOf[t] /\ k[2] <= at[t]
              /\ pc[t] \in {"lookup", "claim"} => k[2] < at[t]
        /\ pc[t] \in Working => lock[JobKey(t)] = t

\* A held row is a real row; it is final, and reported, once the run has moved
\* on; while the run works on it the session knows it as RUNNING.
DraftOK(t) ==
    /\ \A k \in Keys : lock[k] = t =>
          /\ draft[k] \in Row
          /\ k[2] < at[t] => /\ draft[k].status \in Final
                             /\ draft[k].status = report[t][k[2]]
    /\ pc[t] \in Working => job[t] \in Row /\ job[t].status = "running"
    /\ pc[t] = "claim" /\ job[t] # NoRow =>
          job[t] \in Row /\ job[t].status = "failed" /\ table[JobKey(t)] # NoRow
DraftInv == \A t \in Tasks : DraftOK(t)

\* A retailer the run has left behind is held by it or was finished before; a
\* committed run has them all finished.
CoverOK(t) == \A r \in PlanOf[t] :
    \/ pc[t] \in InRun /\ (r < at[t] => lock[Key(t, r)] = t)
    \/ pc[t] \in InRun \cup {"acking", "done"} => table[Key(t, r)].status \in Final
CoverInv == \A t \in Tasks : CoverOK(t)

\* A retailer a run has left behind without holding its row was reused, and
\* reported as the success it was.
ReuseOK(t) ==
    pc[t] \in InRun =>
        \A r \in PlanOf[t] : r < at[t] =>
            \/ lock[Key(t, r)] = t
            \/ report[t][r] \in TerminalSuccess
ReuseInv == \A t \in Tasks : ReuseOK(t)

\* Every retry, committed or flushed, has its CollectionError row.
EvidenceOK(t) ==
    /\ \A k \in Keys :
          lock[k] = t => errors[k] + pending[k] >= draft[k].retries
    /\ pc[t] \in {"attempt", "body"} => pending[JobKey(t)] + 1 >= attempt[t]
    /\ pc[t] = "backoff" => pending[JobKey(t)] >= attempt[t]
EvidenceInv == RetriesAreRecorded /\ \A t \in Tasks : EvidenceOK(t)

IInv == /\ TypeOK
        /\ CommittedRowsAreFinal
        /\ PositionInv
        /\ CounterInv
        /\ LockInv
        /\ DraftInv
        /\ CoverInv
        /\ EvidenceInv

------------------------------------------------------------------------------
\* What this protocol implements: runs that publish all or nothing.  A run has
\* decided to work on the rows it holds and on the one it is about to claim.
RowStatus == [k \in Keys |-> table[k].status]
RowsHeld  == [t \in Tasks |-> {k \in Keys : lock[k] = t}]
RowsTodo  == [t \in Tasks |-> {k \in Keys :
                lock[k] = t \/ (pc[t] = "claim" /\ k = JobKey(t))}]
RunState  == [t \in Tasks |->
                IF pc[t] \in {"acking", "done"} THEN "published"
                ELSE IF pc[t] \in {"abort", "failed", "lost"} THEN "dropped"
                ELSE "open"]

Ledger == INSTANCE RunLedger WITH
    Runs     <- Tasks,
    Keys     <- Keys,
    PlanKeys <- [t \in Tasks |-> {Key(t, r) : r \in PlanOf[t]}],
    ledger   <- RowStatus,
    todo     <- RowsTodo,
    held     <- RowsHeld,
    state    <- RunState

\* The collection_jobs table, read by anybody at any time, is a ledger of whole
\* runs: what a run found undone is published together or not at all.
ImplementsLedger == Ledger!Spec

=============================================================================
