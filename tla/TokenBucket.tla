----------------------------- MODULE TokenBucket -----------------------------
(***************************************************************************)
(* TokenBucketRateLimiter (backend/app/retailer_adapters/base/rate_limit)  *)
(* shared by the coroutines of one event loop: AdapterExecutor._run_attempt*)
(* calls acquire(), runs the request, and calls release().                 *)
(*                                                                         *)
(* One action is what one coroutine does between two awaits that suspend.  *)
(* Time is counted in ticks and tokens in units, so that one tick refills  *)
(* one unit (_refill_rate) and one request costs Cost units.  A sleeper    *)
(* wakes up at its deadline or up to MaxLate ticks later.                  *)
(*                                                                         *)
(* The asyncio primitives are modelled by how this code uses them: both    *)
(* queues are first in, first out, a waiter is overtaken by nobody, and a  *)
(* slot given back goes to the first waiter at once.                       *)
(***************************************************************************)
EXTENDS Integers, SequencesExt

CONSTANTS
    Callers,        \* coroutines that share the limiter
    Nobody,         \* "the pacing lock is free"
    Cost,           \* ticks per request, 60 / max_requests_per_minute
    Burst,          \* burst_size
    MaxConcurrent,  \* max_concurrent_requests
    MaxLate,        \* bound: how long after its deadline a sleeper runs
    LastCall,       \* bound: the last tick at which a request is started;
                    \*   from then on the clock only moves for a sleeper
    MaxTime         \* bound: the last tick

ASSUME LimiterAssumption == /\ Cost \in Nat \ {0}
                            /\ Burst \in Nat \ {0}
                            /\ MaxConcurrent \in Nat \ {0}
ASSUME TimeAssumption == MaxLate \in Nat /\ LastCall \in Nat /\ MaxTime \in Nat
ASSUME NobodyAssumption == Nobody \notin Callers
ASSUME CallersAssumption == IsFiniteSet(Callers)

VARIABLES
    now,        \* the clock
    tokens,     \* _tokens
    updatedAt,  \* _updated_at
    phase,      \* where each caller is
    free,       \* the semaphore's value
    slotQueue,  \* the semaphore's waiters
    granted,    \* how many of the first waiters have been given a slot
    line,       \* the pacing lock's waiters
    sleeper,    \* the caller asleep with the pacing lock
    waited,     \* the pause it computed
    due,        \* when that pause is over
    admitted    \* how many acquire() calls have returned

slots == <<free, slotQueue, granted>>
pace  == <<tokens, updatedAt, sleeper, waited, due, admitted>>
vars  == <<now, tokens, updatedAt, phase, free, slotQueue, granted, line,
           sleeper, waited, due, admitted>>

Capacity == Burst * Cost

Least(a, b) == IF a <= b THEN a ELSE b

\* Mutant: the bucket is refilled beyond its capacity.
MutReplenished == tokens + (now - updatedAt)

\* _replenish(): what the bucket holds now.
Replenished == Least(Capacity, tokens + (now - updatedAt))

------------------------------------------------------------------------------
Init ==
    /\ now = 0 /\ tokens = Capacity /\ updatedAt = 0
    /\ phase = [c \in Callers |-> "idle"]
    /\ free = MaxConcurrent /\ slotQueue = <<>> /\ granted = 0
    /\ line = <<>> /\ sleeper = Nobody /\ waited = 0 /\ due = 0
    /\ admitted = 0

\* Mutant: a refill does not move _updated_at.
MutPace(c) ==
    /\ UNCHANGED updatedAt
    /\ \/ /\ Replenished >= Cost
          /\ tokens' = Replenished - Cost
          /\ admitted' = admitted + 1
          /\ phase' = [phase EXCEPT ![c] = "active"]
          /\ UNCHANGED <<sleeper, waited, due>>
       \/ /\ Replenished < Cost
          /\ tokens' = Replenished
          /\ sleeper' = c
          /\ waited' = Cost - Replenished
          /\ due' = now + (Cost - Replenished)
          /\ phase' = [phase EXCEPT ![c] = "asleep"]
          /\ UNCHANGED admitted

\* The body of _pace() with the lock: admit at once, or fall asleep holding it.
Pace(c) ==
    /\ updatedAt' = now
    /\ \/ /\ Replenished >= Cost
          /\ tokens' = Replenished - Cost
          /\ admitted' = admitted + 1
          /\ phase' = [phase EXCEPT ![c] = "active"]
          /\ UNCHANGED <<sleeper, waited, due>>
       \/ /\ Replenished < Cost
          /\ tokens' = Replenished
          /\ sleeper' = c
          /\ waited' = Cost - Replenished
          /\ due' = now + (Cost - Replenished)
          /\ phase' = [phase EXCEPT ![c] = "asleep"]
          /\ UNCHANGED admitted

\* _pace() up to its first suspension: through the lock, or into its queue.
EnterPace(c) ==
    \/ /\ sleeper = Nobody /\ line = <<>>
       /\ Pace(c)
       /\ UNCHANGED line
    \/ /\ sleeper # Nobody \/ line # <<>>
       /\ line' = Append(line, c)
       /\ phase' = [phase EXCEPT ![c] = "line"]
       /\ tokens' = Replenished
       /\ updatedAt' = now
       /\ UNCHANGED <<sleeper, waited, due, admitted>>

\* acquire(): replenish, then a free slot and on to _pace(), or wait for one.
Acquire(c) ==
    /\ phase[c] = "idle"
    /\ now <= LastCall
    /\ \/ /\ free > 0 /\ slotQueue = <<>>
          /\ free' = free - 1
          /\ EnterPace(c)
          /\ UNCHANGED <<now, slotQueue, granted>>
       \/ /\ free = 0 \/ slotQueue # <<>>
          /\ slotQueue' = Append(slotQueue, c)
          /\ phase' = [phase EXCEPT ![c] = "slot"]
          /\ tokens' = Replenished
          /\ updatedAt' = now
          /\ UNCHANGED <<now, free, granted, line, sleeper, waited, due, admitted>>

\* A waiter that was given a slot resumes; its _pace() does not replenish
\* before it has the lock.
Resume(c) ==
    /\ granted > 0 /\ c = Head(slotQueue)
    /\ slotQueue' = Tail(slotQueue)
    /\ granted' = granted - 1
    /\ \/ /\ sleeper = Nobody /\ line = <<>>
          /\ Pace(c)
          /\ UNCHANGED line
       \/ /\ sleeper # Nobody \/ line # <<>>
          /\ line' = Append(line, c)
          /\ phase' = [phase EXCEPT ![c] = "line"]
          /\ UNCHANGED pace
    /\ UNCHANGED <<now, free>>

\* The first in line gets the pacing lock.
NextInLine(c) ==
    /\ sleeper = Nobody
    /\ line # <<>> /\ c = Head(line)
    /\ line' = Tail(line)
    /\ Pace(c)
    /\ UNCHANGED <<now, free, slotQueue, granted>>

\* The sleep is over: what it bought is credited and spent on the request.
WakeUp(c) ==
    /\ sleeper = c
    /\ now >= due
    /\ tokens' = tokens + waited - Cost
    /\ updatedAt' = now
    /\ sleeper' = Nobody /\ waited' = 0 /\ due' = 0
    /\ admitted' = admitted + 1
    /\ phase' = [phase EXCEPT ![c] = "active"]
    /\ UNCHANGED <<now, free, slotQueue, granted, line>>

\* Mutant: a slot that is given back wakes up no waiter.
MutGiveBack == free' = free + 1 /\ UNCHANGED granted

\* semaphore.release(): the slot is kept for the first waiter without one.
GiveBack ==
    \/ /\ granted < Len(slotQueue)
       /\ granted' = granted + 1
       /\ UNCHANGED free
    \/ /\ granted = Len(slotQueue)
       /\ free' = free + 1
       /\ UNCHANGED granted

\* The request is over, by whatever outcome (`finally`).
Release(c) ==
    /\ phase[c] = "active"
    /\ GiveBack
    /\ phase' = [phase EXCEPT ![c] = "idle"]
    /\ UNCHANGED <<now, slotQueue, line, tokens, updatedAt, sleeper, waited, due,
                   admitted>>

\* The coroutine is cancelled while it waits for a slot (an enclosing timeout, a client
\* that went away): the queue forgets it and the slot it had is given back.
CancelBeforeSlot(c) ==
    /\ phase[c] = "slot"
    /\ \E k \in DOMAIN slotQueue :
          /\ slotQueue[k] = c
          /\ slotQueue' = RemoveAt(slotQueue, k)
          /\ \/ /\ k <= granted
                \* it had been given a slot: that goes to the next waiter, or is free
                /\ \/ granted < Len(slotQueue) /\ UNCHANGED <<granted, free>>
                   \/ granted = Len(slotQueue) /\ granted' = granted - 1 /\ free' = free + 1
             \/ /\ k > granted
                /\ UNCHANGED <<granted, free>>
    /\ phase' = [phase EXCEPT ![c] = "idle"]
    /\ UNCHANGED <<now, line, tokens, updatedAt, sleeper, waited, due, admitted>>

\* Mutant: acquire() gives nothing back when it is cancelled in _pace().
MutCancelInLine(c) ==
    /\ phase[c] = "line"
    /\ \E k \in DOMAIN line : line[k] = c /\ line' = RemoveAt(line, k)
    /\ phase' = [phase EXCEPT ![c] = "idle"]
    /\ UNCHANGED <<now, slotQueue, free, granted, tokens, updatedAt, sleeper, waited,
                   due, admitted>>

\* `except BaseException`: the slot is released, waiting or asleep.
CancelInLine(c) ==
    /\ phase[c] = "line"
    /\ \E k \in DOMAIN line : line[k] = c /\ line' = RemoveAt(line, k)
    /\ GiveBack
    /\ phase' = [phase EXCEPT ![c] = "idle"]
    /\ UNCHANGED <<now, slotQueue, tokens, updatedAt, sleeper, waited, due, admitted>>

CancelAsleep(c) ==
    /\ sleeper = c
    /\ sleeper' = Nobody /\ waited' = 0 /\ due' = 0
    /\ GiveBack
    /\ phase' = [phase EXCEPT ![c] = "idle"]
    /\ UNCHANGED <<now, slotQueue, line, tokens, updatedAt, admitted>>

Tick ==
    /\ now < MaxTime
    /\ IF sleeper # Nobody THEN now < due + MaxLate ELSE now < LastCall
    /\ now' = now + 1
    /\ UNCHANGED <<tokens, updatedAt, phase, free, slotQueue, granted, line,
                   sleeper, waited, due, admitted>>

\* What a coroutine does of itself, and what is done to it.
Step(c)   == Resume(c) \/ NextInLine(c) \/ WakeUp(c) \/ Release(c)
Cancel(c) == CancelBeforeSlot(c) \/ CancelInLine(c) \/ CancelAsleep(c)

Next == Tick \/ \E c \in Callers : Acquire(c) \/ Step(c) \/ Cancel(c)

Spec == Init /\ [][Next]_vars

\* The clock advances, the event loop runs what is ready, and every admitted
\* request ends (_run_attempt puts it under wait_for).  Nothing is assumed
\* about new requests or cancellations.
FairSpec == Spec /\ WF_vars(Tick) /\ \A c \in Callers : WF_vars(Step(c))

------------------------------------------------------------------------------
Phases == {"idle", "slot", "line", "asleep", "active"}

TypeOK ==
    /\ now \in 0..MaxTime
    /\ tokens \in 0..Capacity
    /\ updatedAt \in 0..now
    /\ phase \in [Callers -> Phases]
    /\ free \in 0..MaxConcurrent
    /\ slotQueue \in Seq(Callers)
    /\ granted \in 0..Len(slotQueue)
    /\ line \in Seq(Callers)
    /\ sleeper \in Callers \cup {Nobody}
    /\ waited \in 0..Cost
    /\ due \in Nat
    /\ admitted \in Nat

\* Whatever is cancelled and wherever, no concurrency slot leaks and none is
\* invented: every slot is free, kept for a waiter, or held by a caller that is
\* pacing or running.
SlotsAreConserved ==
    free + granted
      + Cardinality({c \in Callers : phase[c] \in {"line", "asleep", "active"}})
        = MaxConcurrent

\* The over-admission of a limiter shared by concurrent callers is bounded: in
\* any time it lets through the burst and at most twice the configured rate.
AtMostTwiceTheRate == admitted * Cost <= Capacity + 2 * now

\* The limiter withholds nobody: while the clock runs, a caller that asked is
\* admitted (or cancelled) in the end.
EveryCallerLeaves ==
    \A c \in Callers : phase[c] # "idle" ~> phase[c] = "idle"
=============================================================================
