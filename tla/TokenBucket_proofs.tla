------------------------- MODULE TokenBucket_proofs -------------------------
(***************************************************************************)
(* For every number of callers, rate, burst and concurrency: a bucket      *)
(* shared by concurrent callers never overdraws, never lets through more   *)
(* than its burst and twice its configured rate, and neither loses nor     *)
(* invents a slot, wherever its callers are cancelled.                     *)
(***************************************************************************)
EXTENDS TokenBucket, FiniteSetTheorems,
        SequenceTheorems, TLAPS

\* What one stretch of time can have paid for: it is credited at most once by
\* _replenish() and, while somebody sleeps, at most once by that sleep.
RateInv ==
    /\ now \in Nat /\ tokens \in Nat /\ updatedAt \in Nat
    /\ waited \in Nat /\ due \in Nat /\ admitted \in Nat
    /\ tokens <= Capacity /\ updatedAt <= now
    /\ sleeper = Nobody =>
          tokens + admitted * Cost <= Capacity + updatedAt + now
    /\ sleeper # Nobody =>
          /\ waited <= Cost /\ Cost <= tokens + waited
          /\ due <= now + waited
          /\ tokens + admitted * Cost + waited <= Capacity + updatedAt + due

LEMMA CapacityNat == Capacity \in Nat /\ Cost \in Nat /\ Cost > 0 /\ Cost <= Capacity
<1>1. Burst \in Nat /\ Burst >= 1 /\ Cost \in Nat /\ Cost > 0
  BY LimiterAssumption
<1>2. Burst * Cost >= Cost /\ Burst * Cost \in Nat
  BY <1>1
<1> QED  BY <1>1, <1>2 DEF Capacity

\* A refill adds what time has passed at most, and never passes the capacity.
LEMMA RefillBounds ==
    ASSUME RateInv
    PROVE  /\ Replenished \in Nat /\ Replenished <= Capacity
           /\ tokens <= Replenished
           /\ Replenished + updatedAt <= tokens + now
BY CapacityNat DEF RateInv, Replenished, Least

LEMMA Spent ==
    ASSUME RateInv
    PROVE  /\ admitted * Cost \in Nat
           /\ (admitted + 1) * Cost = admitted * Cost + Cost
BY CapacityNat DEF RateInv

LEMMA PaceKeeps ==
    ASSUME RateInv, NEW c \in Callers, sleeper = Nobody, Pace(c), now' = now
    PROVE  RateInv'
<1> USE CapacityNat, RefillBounds, Spent
<1> DEFINE spent == admitted * Cost
<1>1. /\ now \in Nat /\ updatedAt \in Nat /\ tokens \in Nat /\ admitted \in Nat
      /\ waited \in Nat /\ due \in Nat
      /\ tokens + spent <= Capacity + updatedAt + now
  BY DEF RateInv
<1>2. CASE Replenished >= Cost
  <2>1. /\ updatedAt' = now /\ tokens' = Replenished - Cost /\ admitted' = admitted + 1
        /\ sleeper' = sleeper /\ waited' = waited /\ due' = due
    BY <1>2 DEF Pace
  <2>2. admitted' * Cost = spent + Cost
    BY <2>1
  <2>3. tokens' + admitted' * Cost <= Capacity + updatedAt' + now'
    <3> HIDE DEF spent
    <3> QED  BY <1>1, <2>1, <2>2 DEF spent
  <2> QED  BY <1>1, <1>2, <2>1, <2>3 DEF RateInv
<1>3. CASE Replenished < Cost
  <2>1. /\ updatedAt' = now /\ tokens' = Replenished /\ admitted' = admitted
        /\ sleeper' = c /\ waited' = Cost - Replenished
        /\ due' = now + (Cost - Replenished)
    BY <1>3 DEF Pace
  <2>2. c # Nobody
    BY NobodyAssumption
  <2>3. tokens' + spent + waited' <= Capacity + updatedAt' + due'
    <3> HIDE DEF spent
    <3> QED  BY <1>1, <1>3, <2>1 DEF spent
  <2>4. waited' \in Nat /\ due' \in Nat /\ waited' <= Cost
    BY <1>1, <1>3, <2>1
  <2> QED  BY <1>1, <1>3, <2>1, <2>2, <2>3, <2>4 DEF RateInv
<1> QED  BY <1>1, <1>2, <1>3

\* A caller that queues up may refill the bucket under a sleeper.
LEMMA RefillKeeps ==
    ASSUME RateInv, tokens' = Replenished, updatedAt' = now,
           UNCHANGED <<now, sleeper, waited, due, admitted>>
    PROVE  RateInv'
<1> DEFINE spent == admitted * Cost
           full  == Replenished
<1>1. spent \in Nat /\ admitted' * Cost = spent
  BY Spent
<1>2. /\ full \in Nat /\ full <= Capacity /\ tokens <= full
      /\ full + updatedAt <= tokens + now
  BY RefillBounds
<1>3. tokens' = full
  OBVIOUS
<1> HIDE DEF spent, full
<1>4. sleeper = Nobody => full + spent <= Capacity + now + now
  BY <1>1, <1>2, CapacityNat DEF RateInv, spent
<1>5. sleeper # Nobody => /\ Cost <= full + waited
                          /\ full + spent + waited <= Capacity + now + due
  BY <1>1, <1>2, CapacityNat DEF RateInv, spent
<1>6. Capacity' = Capacity
  BY DEF Capacity
<1> QED  BY <1>1, <1>2, <1>3, <1>4, <1>5, <1>6, CapacityNat DEF RateInv

LEMMA WakeUpKeeps ==
    ASSUME RateInv, NEW c \in Callers, WakeUp(c)
    PROVE  RateInv'
<1> DEFINE spent == admitted * Cost
<1>1. /\ sleeper # Nobody /\ now >= due
      /\ tokens' = tokens + waited - Cost /\ updatedAt' = now /\ now' = now
      /\ sleeper' = Nobody /\ waited' = 0 /\ due' = 0 /\ admitted' = admitted + 1
  BY NobodyAssumption DEF WakeUp
<1>2. spent \in Nat /\ admitted' * Cost = spent + Cost
  BY <1>1, Spent
<1>3. /\ now \in Nat /\ updatedAt \in Nat /\ tokens \in Nat /\ due \in Nat
      /\ waited \in Nat /\ waited <= Cost /\ Cost <= tokens + waited
      /\ tokens <= Capacity /\ updatedAt <= now /\ admitted \in Nat
      /\ tokens + spent + waited <= Capacity + updatedAt + due
  BY <1>1 DEF RateInv
<1> HIDE DEF spent
<1>4. tokens' \in Nat /\ tokens' <= Capacity
  BY <1>1, <1>3, CapacityNat
<1>5. tokens' + admitted' * Cost <= Capacity + updatedAt' + now'
  BY <1>1, <1>2, <1>3, CapacityNat
<1> QED  BY <1>1, <1>3, <1>4, <1>5 DEF RateInv

LEMMA CancelAsleepKeeps ==
    ASSUME RateInv, NEW c \in Callers, CancelAsleep(c)
    PROVE  RateInv'
<1> DEFINE spent == admitted * Cost
<1>1. /\ sleeper # Nobody /\ UNCHANGED <<now, tokens, updatedAt, admitted>>
      /\ sleeper' = Nobody /\ waited' = 0 /\ due' = 0
  BY NobodyAssumption DEF CancelAsleep
<1>2. spent \in Nat /\ admitted' * Cost = spent
  BY <1>1, Spent
<1> HIDE DEF spent
<1> QED  BY <1>1, <1>2, CapacityNat DEF RateInv, spent

\* Tokens, the instant they were last refilled and the pause of a sleeper account
\* for every request let through.
THEOREM RateInvariant == Spec => []RateInv
<1>1. Init => RateInv
  BY CapacityNat DEF Init, RateInv
<1>2. ASSUME RateInv, [Next]_vars PROVE RateInv'
  <2>1. CASE UNCHANGED vars
    BY <1>2, <2>1 DEF RateInv, vars, Capacity
  <2>2. CASE Tick
    <3>1. now' = now + 1 /\ UNCHANGED <<tokens, updatedAt, sleeper, waited, due, admitted>>
      BY <2>2 DEF Tick
    <3>2. admitted * Cost \in Nat /\ admitted' * Cost = admitted * Cost
      BY <1>2, <3>1, Spent
    <3> QED  BY <1>2, <3>1, <3>2, CapacityNat DEF RateInv
  <2>3. ASSUME NEW c \in Callers, Acquire(c) PROVE RateInv'
    <3>1. CASE EnterPace(c) /\ now' = now
      <4>1. CASE sleeper = Nobody /\ Pace(c)
        BY <1>2, <3>1, <4>1, PaceKeeps
      <4>2. CASE tokens' = Replenished /\ updatedAt' = now
                 /\ UNCHANGED <<sleeper, waited, due, admitted>>
        BY <1>2, <3>1, <4>2, RefillKeeps
      <4> QED  BY <3>1, <4>1, <4>2 DEF EnterPace
    <3>2. CASE tokens' = Replenished /\ updatedAt' = now
               /\ UNCHANGED <<now, sleeper, waited, due, admitted>>
      BY <1>2, <3>2, RefillKeeps
    <3> QED  BY <2>3, <3>1, <3>2 DEF Acquire
  <2>4. ASSUME NEW c \in Callers, Resume(c) PROVE RateInv'
    <3>1. CASE sleeper = Nobody /\ Pace(c)
      BY <1>2, <2>4, <3>1, PaceKeeps DEF Resume
    <3>2. CASE UNCHANGED pace
      <4>1. UNCHANGED <<now, tokens, updatedAt, sleeper, waited, due, admitted>>
        BY <2>4, <3>2 DEF Resume, pace
      <4> QED  BY <1>2, <4>1 DEF RateInv, Capacity
    <3> QED  BY <2>4, <3>1, <3>2 DEF Resume
  <2>5. ASSUME NEW c \in Callers, NextInLine(c) PROVE RateInv'
    BY <1>2, <2>5, PaceKeeps DEF NextInLine
  <2>6. ASSUME NEW c \in Callers, WakeUp(c) PROVE RateInv'
    BY <1>2, <2>6, WakeUpKeeps
  <2>7. ASSUME NEW c \in Callers, Release(c) \/ CancelBeforeSlot(c) \/ CancelInLine(c)
        PROVE  RateInv'
    <3>1. UNCHANGED <<now, tokens, updatedAt, sleeper, waited, due, admitted>>
      BY <2>7 DEF Release, CancelBeforeSlot, CancelInLine
    <3> QED  BY <1>2, <3>1 DEF RateInv, Capacity
  <2>8. ASSUME NEW c \in Callers, CancelAsleep(c) PROVE RateInv'
    BY <1>2, <2>8, CancelAsleepKeeps
  <2> QED  BY <1>2, <2>1, <2>2, <2>3, <2>4, <2>5, <2>6, <2>7, <2>8 DEF Next, Step, Cancel
<1> QED  BY <1>1, <1>2, PTL DEF Spec

\* However many callers share the limiter, and whatever is cancelled, the
\* requests let through cost no more than the burst and twice the time passed.
THEOREM RateBounded == Spec => []AtMostTwiceTheRate
<1>1. RateInv => AtMostTwiceTheRate
  <2> SUFFICES ASSUME RateInv PROVE admitted * Cost <= Capacity + 2 * now
    BY DEF AtMostTwiceTheRate
  <2>1. CASE sleeper = Nobody
    BY <2>1, Spent, CapacityNat DEF RateInv
  <2>2. CASE sleeper # Nobody
    BY <2>2, Spent, CapacityNat DEF RateInv
  <2> QED  BY <2>1, <2>2
<1> QED  BY <1>1, RateInvariant, PTL
------------------------------------------------------------------------------
(* The slots.  What is counted is kept in four places (the semaphore, its   *)
(* waiters, the lock's waiters, the lock's owner), so that the count can be *)
(* kept only together with who waits where.                                 *)

\* Caller c, and nobody else, is in state p exactly while it stands in q, and
\* it stands there once.
Lined(f, q, p) ==
    /\ \A i, j \in 1..Len(q) : q[i] = q[j] => i = j
    /\ \A c \in Callers : f[c] = p <=> \E i \in 1..Len(q) : q[i] = c

Holding    == {"line", "asleep", "active"}
Holders(f) == {c \in Callers : f[c] \in Holding}

\* At most one caller sleeps: the one that has the lock.
Asleep(f, s) == \A c \in Callers : f[c] = "asleep" <=> s = c

SlotInv ==
    /\ phase \in [Callers -> Phases]
    /\ free \in Nat
    /\ slotQueue \in Seq(Callers) /\ granted \in 0..Len(slotQueue)
    /\ line \in Seq(Callers)
    /\ sleeper \in Callers \cup {Nobody}
    /\ Lined(phase, slotQueue, "slot")
    /\ Lined(phase, line, "line")
    /\ Asleep(phase, sleeper)
    /\ free + granted + Cardinality(Holders(phase)) = MaxConcurrent

\* A caller that joins a queue is in it once, and in no other.
LEMMA JoinQueue ==
    ASSUME NEW f \in [Callers -> Phases], NEW q \in Seq(Callers), NEW p \in Phases,
           NEW c \in Callers, Lined(f, q, p), f[c] # p
    PROVE  /\ Append(q, c) \in Seq(Callers)
           /\ Len(Append(q, c)) = Len(q) + 1
           /\ Lined([f EXCEPT ![c] = p], Append(q, c), p)
<1> DEFINE r == Append(q, c)
           g == [f EXCEPT ![c] = p]
<1>1. /\ r \in Seq(Callers) /\ Len(r) = Len(q) + 1 /\ Len(q) \in Nat
      /\ \A i \in 1..Len(q) : r[i] = q[i] /\ q[i] \in Callers
      /\ r[Len(q) + 1] = c
  OBVIOUS
<1>2. \A i \in 1..Len(q) : q[i] # c
  BY DEF Lined
<1>3. \A i, j \in 1..Len(r) : r[i] = r[j] => i = j
  <2> TAKE i, j \in 1..Len(r)
  <2> HAVE r[i] = r[j]
  <2>1. i \in 1..Len(q) \/ i = Len(q) + 1
    BY <1>1
  <2>2. j \in 1..Len(q) \/ j = Len(q) + 1
    BY <1>1
  <2> HIDE DEF r
  <2> QED  BY <2>1, <2>2, <1>1, <1>2 DEF Lined
<1>4. ASSUME NEW d \in Callers PROVE g[d] = p <=> \E i \in 1..Len(r) : r[i] = d
  <2>1. CASE d = c
    <3>1. g[d] = p /\ Len(r) \in 1..Len(r)
      BY <2>1, <1>1
    <3> QED  BY <3>1, <2>1, <1>1
  <2>2. CASE d # c
    <3>1. g[d] = f[d]
      BY <2>2
    <3>2. (\E i \in 1..Len(r) : r[i] = d) <=> (\E i \in 1..Len(q) : q[i] = d)
      <4> HIDE DEF r
      <4>1. \A i \in 1..Len(r) : i \in 1..Len(q) \/ i = Len(q) + 1
        BY <1>1
      <4>2. \A i \in 1..Len(q) : i \in 1..Len(r)
        BY <1>1
      <4> QED  BY <4>1, <4>2, <1>1, <2>2
    <3> QED  BY <3>1, <3>2 DEF Lined
  <2> QED  BY <2>1, <2>2
<1> HIDE DEF r, g
<1>5. Lined(g, r, p)
  BY <1>3, <1>4 DEF Lined
<1> QED  BY <1>1, <1>5 DEF r, g

\* RemoveAt closes the gap.
LEMMA Removed ==
    ASSUME NEW q \in Seq(Callers), NEW k \in 1..Len(q)
    PROVE  /\ RemoveAt(q, k) \in Seq(Callers)
           /\ Len(RemoveAt(q, k)) = Len(q) - 1
           /\ \A i \in 1..(Len(q) - 1) :
                 RemoveAt(q, k)[i] = IF i < k THEN q[i] ELSE q[i + 1]
<1> DEFINE a == SubSeq(q, 1, k - 1)
           b == SubSeq(q, k + 1, Len(q))
<1>1. /\ a \in Seq(Callers) /\ Len(a) = k - 1
      /\ \A i \in 1..(k - 1) : a[i] = q[i]
  OBVIOUS
<1>2. /\ b \in Seq(Callers) /\ Len(b) = Len(q) - k
      /\ \A i \in 1..(Len(q) - k) : b[i] = q[k + i]
  OBVIOUS
<1>3. RemoveAt(q, k) = a \o b /\ Len(q) \in Nat /\ k \in Int
  BY DEF RemoveAt
<1> HIDE DEF a, b
<1>4. a \o b \in Seq(Callers) /\ Len(a \o b) = Len(q) - 1
  <2>1. a \o b \in Seq(Callers) /\ Len(a \o b) = Len(a) + Len(b)
    BY <1>1, <1>2, ConcatProperties
  <2> QED  BY <2>1, <1>1, <1>2, <1>3
<1>5. ASSUME NEW i \in 1..(Len(q) - 1)
      PROVE  (a \o b)[i] = IF i < k THEN q[i] ELSE q[i + 1]
  <2>1. CASE i < k
    <3>1. (a \o b)[i] = a[i]
      BY <1>1, <1>2, <2>1
    <3> QED  BY <3>1, <1>1, <2>1
  <2>2. CASE i >= k
    <3>1. (a \o b)[i] = b[i - (k - 1)]
      BY <1>1, <1>2, <2>2
    <3>2. i - (k - 1) \in 1..(Len(q) - k) /\ k + (i - (k - 1)) = i + 1
      BY <2>2
    <3> QED  BY <3>1, <3>2, <1>2, <2>2
  <2>3. i < k \/ i >= k
    OBVIOUS
  <2> QED  BY <2>1, <2>2, <2>3, Zenon
<1> QED  BY <1>3, <1>4, <1>5

\* A caller that leaves a queue, from whatever place, is not in it any more,
\* and nobody else leaves it.
LEMMA LeaveQueue ==
    ASSUME NEW f \in [Callers -> Phases], NEW q \in Seq(Callers), NEW p \in Phases,
           NEW x \in Phases, x # p, NEW k \in 1..Len(q), Lined(f, q, p)
    PROVE  Lined([f EXCEPT ![q[k]] = x], RemoveAt(q, k), p)
<1> DEFINE r == RemoveAt(q, k)
           g == [f EXCEPT ![q[k]] = x]
<1>1. /\ Len(r) = Len(q) - 1
      /\ \A i \in 1..(Len(q) - 1) : r[i] = IF i < k THEN q[i] ELSE q[i + 1]
  BY Removed
<1>2. \A i \in 1..Len(q) : q[i] \in Callers
  OBVIOUS
<1> HIDE DEF r
<1>3. \A i, j \in 1..Len(q) : q[i] = q[j] => i = j
  BY DEF Lined
<1>4. \A i, j \in 1..Len(r) : r[i] = r[j] => i = j
  BY <1>1, <1>3
<1>5. ASSUME NEW d \in Callers PROVE g[d] = p <=> \E i \in 1..Len(r) : r[i] = d
  <2>1. CASE d = q[k]
    <3>1. g[d] = x
      BY <2>1
    <3>2. \A i \in 1..Len(r) : r[i] # d
      BY <1>1, <1>3, <2>1
    <3> QED  BY <3>1, <3>2
  <2>2. CASE d # q[k]
    <3>1. g[d] = f[d]
      BY <2>2
    <3>2. ASSUME NEW i \in 1..Len(q), q[i] = d PROVE \E j \in 1..Len(r) : r[j] = d
      <4>1. CASE i < k
        <5>1. i \in 1..Len(r) /\ r[i] = d
          BY <4>1, <3>2, <1>1
        <5> QED  BY <5>1
      <4>2. CASE i > k
        <5>1. i - 1 \in 1..Len(r) /\ r[i - 1] = d
          BY <4>2, <3>2, <1>1
        <5> QED  BY <5>1
      <4> QED  BY <4>1, <4>2, <3>2, <2>2
    <3>3. ASSUME NEW j \in 1..Len(r), r[j] = d PROVE \E i \in 1..Len(q) : q[i] = d
      <4>1. j \in 1..Len(q) /\ j + 1 \in 1..Len(q) /\ (q[j] = d \/ q[j + 1] = d)
        BY <3>3, <1>1
      <4> QED  BY <4>1
    <3> QED  BY <3>1, <3>2, <3>3 DEF Lined
  <2> QED  BY <2>1, <2>2
<1> HIDE DEF g
<1>6. Lined(g, r, p)
  BY <1>4, <1>5 DEF Lined
<1> QED  BY <1>6 DEF g, r

LEMMA LeaveHead ==
    ASSUME NEW f \in [Callers -> Phases], NEW q \in Seq(Callers), NEW p \in Phases,
           NEW x \in Phases, x # p, q # <<>>, Lined(f, q, p)
    PROVE  /\ Head(q) \in Callers /\ f[Head(q)] = p
           /\ Tail(q) \in Seq(Callers) /\ Len(Tail(q)) = Len(q) - 1
           /\ Lined([f EXCEPT ![Head(q)] = x], Tail(q), p)
<1>1. 1 \in 1..Len(q) /\ Head(q) = q[1] /\ q[1] \in Callers
  OBVIOUS
<1>2. f[q[1]] = p
  BY <1>1 DEF Lined
<1>3. /\ Tail(q) \in Seq(Callers) /\ Len(Tail(q)) = Len(q) - 1
      /\ \A i \in 1..(Len(q) - 1) : Tail(q)[i] = q[i + 1]
  BY <1>1
<1>4. RemoveAt(q, 1) \in Seq(Callers) /\ Len(RemoveAt(q, 1)) = Len(q) - 1
      /\ \A i \in 1..(Len(q) - 1) : RemoveAt(q, 1)[i] = q[i + 1]
  BY <1>1, Removed
<1>5. Tail(q) = RemoveAt(q, 1)
  <2> DEFINE t == Tail(q)
             r == RemoveAt(q, 1)
  <2>1. t \in Seq(Callers) /\ r \in Seq(Callers) /\ Len(t) = Len(r)
        /\ \A i \in 1..Len(t) : t[i] = r[i]
    BY <1>3, <1>4
  <2> HIDE DEF t, r
  <2>2. t = r
    BY <2>1
  <2> QED  BY <2>2 DEF t, r
<1>6. Lined([f EXCEPT ![q[1]] = x], RemoveAt(q, 1), p)
  BY <1>1, LeaveQueue
<1> QED  BY <1>1, <1>2, <1>3, <1>5, <1>6

\* A caller that moves between two other states does not touch the queue.
LEMMA OtherQueue ==
    ASSUME NEW f \in [Callers -> Phases], NEW q \in Seq(Callers), NEW p \in Phases,
           NEW x \in Phases, x # p, NEW c \in Callers, f[c] # p, Lined(f, q, p)
    PROVE  Lined([f EXCEPT ![c] = x], q, p)
BY DEF Lined

\* One caller more, one less, or as many, hold a slot.
LEMMA HoldersMove ==
    ASSUME NEW f \in [Callers -> Phases], NEW c \in Callers, NEW x \in Phases
    PROVE  /\ Cardinality(Holders(f)) \in Nat
           /\ f[c] \notin Holding /\ x \in Holding =>
                 Cardinality(Holders([f EXCEPT ![c] = x])) = Cardinality(Holders(f)) + 1
           /\ f[c] \in Holding /\ x \notin Holding =>
                 /\ Cardinality(Holders([f EXCEPT ![c] = x])) = Cardinality(Holders(f)) - 1
                 /\ Cardinality(Holders(f)) > 0
           /\ (f[c] \in Holding <=> x \in Holding) =>
                 Cardinality(Holders([f EXCEPT ![c] = x])) = Cardinality(Holders(f))
<1> DEFINE g == [f EXCEPT ![c] = x]
<1>1. IsFiniteSet(Holders(f)) /\ IsFiniteSet(Holders(g))
  BY CallersAssumption, FS_Subset DEF Holders
<1>2. Cardinality(Holders(f)) \in Nat /\ Cardinality(Holders(g)) \in Nat
  BY <1>1, FS_CardinalityType
<1>3. CASE f[c] \notin Holding /\ x \in Holding
  <2>1. c \notin Holders(f) /\ Holders(g) = Holders(f) \cup {c}
    BY <1>3 DEF Holders
  <2> QED  BY <2>1, <1>1, <1>2, <1>3, FS_AddElement
<1>4. CASE f[c] \in Holding /\ x \notin Holding
  <2>1. c \in Holders(f) /\ Holders(g) = Holders(f) \ {c}
    BY <1>4 DEF Holders
  <2>2. Cardinality(Holders(g)) = Cardinality(Holders(f)) - 1
    BY <2>1, <1>1, FS_RemoveElement
  <2> QED  BY <2>2, <1>2, <1>4
<1>5. CASE f[c] \in Holding <=> x \in Holding
  <2>1. Holders(g) = Holders(f)
    BY <1>5 DEF Holders
  <2> QED  BY <2>1, <1>2, <1>5
<1> QED  BY <1>3, <1>4, <1>5

\* What a caller that got the lock does, seen from the queues.
LEMMA PaceMoves ==
    ASSUME NEW c \in Callers, Pace(c), sleeper = Nobody, phase \in [Callers -> Phases],
           Asleep(phase, sleeper)
    PROVE  \E x \in {"active", "asleep"} :
              /\ phase' = [phase EXCEPT ![c] = x]
              /\ sleeper' \in Callers \cup {Nobody}
              /\ Asleep(phase', sleeper')
<1>1. CASE phase' = [phase EXCEPT ![c] = "active"] /\ sleeper' = sleeper
  <2>1. Asleep(phase', sleeper')
    BY <1>1, NobodyAssumption DEF Asleep
  <2> QED  BY <1>1, <2>1
<1>2. CASE phase' = [phase EXCEPT ![c] = "asleep"] /\ sleeper' = c
  <2>1. \A d \in Callers : phase[d] # "asleep"
    BY NobodyAssumption DEF Asleep
  <2>2. Asleep(phase', sleeper')
    BY <1>2, <2>1 DEF Asleep
  <2> QED  BY <1>2, <2>2
<1> QED  BY <1>1, <1>2 DEF Pace

LEMMA GiveBackAddsOne ==
    ASSUME GiveBack, free \in Nat, slotQueue \in Seq(Callers),
           granted \in 0..Len(slotQueue), slotQueue' = slotQueue
    PROVE  /\ free' \in Nat /\ granted \in Nat
           /\ granted' \in Nat /\ granted' \in 0..Len(slotQueue')
           /\ free' + granted' = free + granted + 1
BY DEF GiveBack

\* A caller comes with a slot: through the lock, or to its queue.
LEMMA EnterKeepsLine ==
    ASSUME SlotInv, NEW c \in Callers, phase[c] \in {"idle", "slot"},
           \/ /\ sleeper = Nobody /\ Pace(c) /\ line' = line
           \/ /\ line' = Append(line, c) /\ phase' = [phase EXCEPT ![c] = "line"]
              /\ sleeper' = sleeper
    PROVE  /\ \E x \in Holding : phase' = [phase EXCEPT ![c] = x]
           /\ line' \in Seq(Callers) /\ Lined(phase', line', "line")
           /\ sleeper' \in Callers \cup {Nobody} /\ Asleep(phase', sleeper')
<1> USE DEF SlotInv
<1>1. CASE sleeper = Nobody /\ Pace(c) /\ line' = line
  <2>1. PICK x \in {"active", "asleep"} : /\ phase' = [phase EXCEPT ![c] = x]
                                          /\ sleeper' \in Callers \cup {Nobody}
                                          /\ Asleep(phase', sleeper')
    BY <1>1, PaceMoves
  <2>2. Lined(phase', line', "line")
    BY <1>1, <2>1, OtherQueue DEF Phases
  <2> QED  BY <1>1, <2>1, <2>2 DEF Holding
<1>2. CASE /\ line' = Append(line, c) /\ phase' = [phase EXCEPT ![c] = "line"]
           /\ sleeper' = sleeper
  <2>1. line' \in Seq(Callers) /\ Lined(phase', line', "line")
    BY <1>2, JoinQueue DEF Phases
  <2>2. Asleep(phase', sleeper')
    BY <1>2 DEF Asleep
  <2> QED  BY <1>2, <2>1, <2>2 DEF Holding
<1> QED  BY <1>1, <1>2

LEMMA AcquireKeepsSlots ==
    ASSUME SlotInv, NEW c \in Callers, Acquire(c)
    PROVE  SlotInv'
<1>1. phase[c] = "idle"
  BY DEF Acquire
<1>2. CASE free > 0 /\ free' = free - 1 /\ EnterPace(c) /\ UNCHANGED <<slotQueue, granted>>
  <2>1. \/ /\ sleeper = Nobody /\ Pace(c) /\ line' = line
        \/ /\ line' = Append(line, c) /\ phase' = [phase EXCEPT ![c] = "line"]
           /\ sleeper' = sleeper
    BY <1>2 DEF EnterPace
  <2>2. PICK x \in Holding : phase' = [phase EXCEPT ![c] = x]
    BY <1>1, <2>1, EnterKeepsLine
  <2>3. x \in Phases /\ x # "slot" /\ phase[c] \notin Holding
    BY <1>1 DEF Holding, Phases
  <2>4. Lined(phase', slotQueue', "slot")
    BY <1>1, <1>2, <2>2, <2>3, OtherQueue DEF SlotInv, Phases
  <2>5. /\ Cardinality(Holders(phase')) = Cardinality(Holders(phase)) + 1
        /\ Cardinality(Holders(phase)) \in Nat
    BY <2>2, <2>3, HoldersMove DEF SlotInv
  <2>6. free' \in Nat /\ free' + granted' + Cardinality(Holders(phase')) = MaxConcurrent
    BY <1>2, <2>5 DEF SlotInv
  <2>7. phase' \in [Callers -> Phases]
    BY <2>2, <2>3 DEF SlotInv
  <2>8. /\ line' \in Seq(Callers) /\ Lined(phase', line', "line")
        /\ sleeper' \in Callers \cup {Nobody} /\ Asleep(phase', sleeper')
    BY <1>1, <2>1, EnterKeepsLine
  <2> QED  BY <1>2, <2>4, <2>6, <2>7, <2>8 DEF SlotInv
<1>3. CASE /\ slotQueue' = Append(slotQueue, c) /\ phase' = [phase EXCEPT ![c] = "slot"]
           /\ UNCHANGED <<free, granted, line, sleeper>>
  <2>1. /\ slotQueue' \in Seq(Callers) /\ Len(slotQueue') = Len(slotQueue) + 1
        /\ Lined(phase', slotQueue', "slot")
    BY <1>1, <1>3, JoinQueue DEF SlotInv, Phases
  <2>2. Lined(phase', line', "line")
    BY <1>1, <1>3, OtherQueue DEF SlotInv, Phases
  <2>3. Asleep(phase', sleeper')
    BY <1>1, <1>3 DEF SlotInv, Asleep
  <2>4. Cardinality(Holders(phase')) = Cardinality(Holders(phase))
    BY <1>1, <1>3, HoldersMove DEF SlotInv, Phases, Holding
  <2>5. phase' \in [Callers -> Phases]
    BY <1>3 DEF SlotInv, Phases
  <2> QED  BY <1>3, <2>1, <2>2, <2>3, <2>4, <2>5 DEF SlotInv
<1> QED  BY <1>2, <1>3 DEF Acquire

LEMMA ResumeKeepsSlots ==
    ASSUME SlotInv, NEW c \in Callers, Resume(c)
    PROVE  SlotInv'
<1>1. /\ granted > 0 /\ c = Head(slotQueue) /\ slotQueue' = Tail(slotQueue)
      /\ granted' = granted - 1 /\ free' = free /\ slotQueue # <<>>
  BY DEF Resume, SlotInv
<1>2. phase[c] = "slot"
  BY <1>1, LeaveHead DEF SlotInv, Phases
<1>3. \/ /\ sleeper = Nobody /\ Pace(c) /\ line' = line
      \/ /\ line' = Append(line, c) /\ phase' = [phase EXCEPT ![c] = "line"]
         /\ sleeper' = sleeper
  BY DEF Resume, pace
<1>4. PICK x \in Holding : phase' = [phase EXCEPT ![c] = x]
  BY <1>2, <1>3, EnterKeepsLine
<1>5. x \in Phases /\ x # "slot" /\ phase[c] \notin Holding
  BY <1>2 DEF Holding, Phases
<1>6. /\ slotQueue' \in Seq(Callers) /\ Len(slotQueue') = Len(slotQueue) - 1
      /\ Lined(phase', slotQueue', "slot")
  BY <1>1, <1>4, <1>5, LeaveHead DEF SlotInv, Phases
<1>7. /\ Cardinality(Holders(phase')) = Cardinality(Holders(phase)) + 1
      /\ Cardinality(Holders(phase)) \in Nat
  BY <1>4, <1>5, HoldersMove DEF SlotInv
<1>8. granted' \in 0..Len(slotQueue')
  BY <1>1, <1>6 DEF SlotInv
<1>9. free' + granted' + Cardinality(Holders(phase')) = MaxConcurrent
  BY <1>1, <1>7 DEF SlotInv
<1>10. phase' \in [Callers -> Phases]
  BY <1>4, <1>5 DEF SlotInv
<1>11. /\ line' \in Seq(Callers) /\ Lined(phase', line', "line")
       /\ sleeper' \in Callers \cup {Nobody} /\ Asleep(phase', sleeper')
  BY <1>2, <1>3, EnterKeepsLine
<1> QED  BY <1>1, <1>6, <1>8, <1>9, <1>10, <1>11 DEF SlotInv

LEMMA NextInLineKeepsSlots ==
    ASSUME SlotInv, NEW c \in Callers, NextInLine(c)
    PROVE  SlotInv'
<1>1. /\ sleeper = Nobody /\ line # <<>> /\ c = Head(line) /\ line' = Tail(line)
      /\ Pace(c) /\ UNCHANGED <<free, slotQueue, granted>>
  BY DEF NextInLine
<1>2. PICK x \in {"active", "asleep"} : /\ phase' = [phase EXCEPT ![c] = x]
                                        /\ sleeper' \in Callers \cup {Nobody}
                                        /\ Asleep(phase', sleeper')
  BY <1>1, PaceMoves DEF SlotInv
<1>3. /\ phase[c] = "line" /\ line' \in Seq(Callers) /\ Lined(phase', line', "line")
  BY <1>1, <1>2, LeaveHead DEF SlotInv, Phases
<1>4. Lined(phase', slotQueue', "slot")
  BY <1>1, <1>2, <1>3, OtherQueue DEF SlotInv, Phases
<1>5. Cardinality(Holders(phase')) = Cardinality(Holders(phase))
  BY <1>2, <1>3, HoldersMove DEF SlotInv, Phases, Holding
<1>6. phase' \in [Callers -> Phases]
  BY <1>2 DEF SlotInv, Phases
<1> QED  BY <1>1, <1>2, <1>3, <1>4, <1>5, <1>6 DEF SlotInv

\* The request or the wait is over and the slot goes back.
LEMMA ReturnKeepsSlots ==
    ASSUME SlotInv, NEW c \in Callers, phase[c] \in {"active", "asleep"}, GiveBack,
           phase' = [phase EXCEPT ![c] = "idle"],
           sleeper' = IF phase[c] = "asleep" THEN Nobody ELSE sleeper,
           UNCHANGED <<slotQueue, line>>
    PROVE  SlotInv'
<1>1. /\ free' \in Nat /\ granted \in Nat
      /\ granted' \in Nat /\ granted' \in 0..Len(slotQueue')
      /\ free' + granted' = free + granted + 1
  BY GiveBackAddsOne DEF SlotInv
<1>2. Lined(phase', slotQueue', "slot") /\ Lined(phase', line', "line")
  BY OtherQueue DEF SlotInv, Phases
<1>3. Asleep(phase', sleeper') /\ sleeper' \in Callers \cup {Nobody}
  BY NobodyAssumption DEF SlotInv, Asleep
<1>4. /\ Cardinality(Holders(phase')) = Cardinality(Holders(phase)) - 1
      /\ Cardinality(Holders(phase)) \in Nat
  BY HoldersMove DEF SlotInv, Phases, Holding
<1>5. free' + granted' + Cardinality(Holders(phase')) = MaxConcurrent
  <2>1. free + granted + Cardinality(Holders(phase)) = MaxConcurrent /\ free \in Nat
    BY DEF SlotInv
  <2> DEFINE before == Cardinality(Holders(phase))
             after  == Cardinality(Holders(phase'))
  <2>2. before \in Nat /\ after \in Int /\ after = before - 1 /\ free + granted + before = MaxConcurrent
    BY <1>4, <2>1
  <2> HIDE DEF before, after
  <2>3. free' + granted' + after = free + granted + 1 + (before - 1)
    BY <1>1, <2>1, <2>2
  <2>4. free + granted + 1 + (before - 1) = free + granted + before
    BY <1>1, <2>1, <2>2
  <2> QED  BY <2>2, <2>3, <2>4 DEF after
<1>6. phase' \in [Callers -> Phases]
  BY DEF SlotInv, Phases
<1> QED  BY <1>1, <1>2, <1>3, <1>5, <1>6 DEF SlotInv

LEMMA WakeUpKeepsSlots ==
    ASSUME SlotInv, NEW c \in Callers, WakeUp(c)
    PROVE  SlotInv'
<1>1. /\ sleeper = c /\ sleeper' = Nobody /\ phase' = [phase EXCEPT ![c] = "active"]
      /\ UNCHANGED <<free, slotQueue, granted, line>>
  BY DEF WakeUp
<1>2. phase[c] = "asleep"
  BY <1>1 DEF SlotInv, Asleep
<1>3. Lined(phase', slotQueue', "slot") /\ Lined(phase', line', "line")
  BY <1>1, <1>2, OtherQueue DEF SlotInv, Phases
<1>4. Asleep(phase', sleeper')
  BY <1>1, NobodyAssumption DEF SlotInv, Asleep
<1>5. Cardinality(Holders(phase')) = Cardinality(Holders(phase))
  BY <1>1, <1>2, HoldersMove DEF SlotInv, Phases, Holding
<1>6. phase' \in [Callers -> Phases]
  BY <1>1 DEF SlotInv, Phases
<1> QED  BY <1>1, <1>3, <1>4, <1>5, <1>6 DEF SlotInv

\* A cancelled waiter that had been given a slot passes it on.
LEMMA CancelBeforeSlotKeepsSlots ==
    ASSUME SlotInv, NEW c \in Callers, CancelBeforeSlot(c)
    PROVE  SlotInv'
<1>1. /\ phase[c] = "slot" /\ phase' = [phase EXCEPT ![c] = "idle"]
      /\ UNCHANGED <<line, sleeper>>
  BY DEF CancelBeforeSlot
<1>2. PICK k \in 1..Len(slotQueue) :
         /\ slotQueue[k] = c
         /\ slotQueue' = RemoveAt(slotQueue, k)
         /\ \/ /\ k <= granted
               /\ \/ granted < Len(slotQueue) /\ UNCHANGED <<granted, free>>
                  \/ granted = Len(slotQueue) /\ granted' = granted - 1 /\ free' = free + 1
            \/ /\ k > granted
               /\ UNCHANGED <<granted, free>>
  BY DEF CancelBeforeSlot, SlotInv
<1>3. slotQueue' \in Seq(Callers) /\ Len(slotQueue') = Len(slotQueue) - 1
  BY <1>2, Removed DEF SlotInv
<1>4. Lined(phase', slotQueue', "slot")
  BY <1>1, <1>2, LeaveQueue DEF SlotInv, Phases
<1>5. Lined(phase', line', "line")
  BY <1>1, OtherQueue DEF SlotInv, Phases
<1>6. Asleep(phase', sleeper')
  BY <1>1 DEF SlotInv, Asleep
<1>7. /\ Cardinality(Holders(phase')) = Cardinality(Holders(phase))
      /\ Cardinality(Holders(phase)) \in Nat
  BY <1>1, HoldersMove DEF SlotInv, Phases, Holding
<1>8. /\ free' \in Nat /\ granted' \in 0..Len(slotQueue')
      /\ free' + granted' = free + granted
  <2>1. free \in Nat /\ granted \in 0..Len(slotQueue) /\ Len(slotQueue) \in Nat
    BY DEF SlotInv
  <2> QED  BY <1>2, <1>3, <2>1
<1>9. free' + granted' + Cardinality(Holders(phase')) = MaxConcurrent
  BY <1>7, <1>8 DEF SlotInv
<1>10. phase' \in [Callers -> Phases]
  BY <1>1 DEF SlotInv, Phases
<1> QED  BY <1>1, <1>3, <1>4, <1>5, <1>6, <1>8, <1>9, <1>10 DEF SlotInv

LEMMA CancelInLineKeepsSlots ==
    ASSUME SlotInv, NEW c \in Callers, CancelInLine(c)
    PROVE  SlotInv'
<1>1. /\ phase[c] = "line" /\ phase' = [phase EXCEPT ![c] = "idle"] /\ GiveBack
      /\ UNCHANGED <<slotQueue, sleeper>>
  BY DEF CancelInLine
<1>2. PICK k \in 1..Len(line) : line[k] = c /\ line' = RemoveAt(line, k)
  BY DEF CancelInLine, SlotInv
<1>3. line' \in Seq(Callers) /\ Lined(phase', line', "line")
  BY <1>1, <1>2, Removed, LeaveQueue DEF SlotInv, Phases
<1>4. Lined(phase', slotQueue', "slot")
  BY <1>1, OtherQueue DEF SlotInv, Phases
<1>5. Asleep(phase', sleeper')
  BY <1>1 DEF SlotInv, Asleep
<1>6. /\ free' \in Nat /\ granted \in Nat
      /\ granted' \in Nat /\ granted' \in 0..Len(slotQueue')
      /\ free' + granted' = free + granted + 1
  BY <1>1, GiveBackAddsOne DEF SlotInv
<1>7. /\ Cardinality(Holders(phase')) = Cardinality(Holders(phase)) - 1
      /\ Cardinality(Holders(phase)) \in Nat
  BY <1>1, HoldersMove DEF SlotInv, Phases, Holding
<1>8. free' + granted' + Cardinality(Holders(phase')) = MaxConcurrent
  <2>1. free + granted + Cardinality(Holders(phase)) = MaxConcurrent /\ free \in Nat
    BY DEF SlotInv
  <2> DEFINE before == Cardinality(Holders(phase))
             after  == Cardinality(Holders(phase'))
  <2>2. before \in Nat /\ after \in Int /\ after = before - 1 /\ free + granted + before = MaxConcurrent
    BY <1>7, <2>1
  <2> HIDE DEF before, after
  <2>3. free' + granted' + after = free + granted + 1 + (before - 1)
    BY <1>6, <2>1, <2>2
  <2>4. free + granted + 1 + (before - 1) = free + granted + before
    BY <1>6, <2>1, <2>2
  <2> QED  BY <2>2, <2>3, <2>4 DEF after
<1>9. phase' \in [Callers -> Phases]
  BY <1>1 DEF SlotInv, Phases
<1> QED  BY <1>1, <1>3, <1>4, <1>5, <1>6, <1>8, <1>9 DEF SlotInv

\* Slots and queues agree in every state of the limiter.
THEOREM SlotInvariant == Spec => []SlotInv
<1>1. Init => SlotInv
  <2> SUFFICES ASSUME Init PROVE SlotInv
    OBVIOUS
  <2> USE DEF Init
  <2>1. Holders(phase) = {}
    BY DEF Holders, Holding
  <2>2. Cardinality(Holders(phase)) = 0
    BY <2>1, FS_EmptySet
  <2>3. Lined(phase, slotQueue, "slot") /\ Lined(phase, line, "line")
    BY DEF Lined
  <2>4. Asleep(phase, sleeper)
    BY NobodyAssumption DEF Asleep
  <2>5. phase \in [Callers -> Phases]
    BY DEF Phases
  <2> QED  BY <2>2, <2>3, <2>4, <2>5, LimiterAssumption DEF SlotInv
<1>2. ASSUME SlotInv, [Next]_vars PROVE SlotInv'
  <2>1. CASE UNCHANGED <<phase, free, slotQueue, granted, line, sleeper>>
    BY <1>2, <2>1 DEF SlotInv
  <2>2. CASE Tick \/ UNCHANGED vars
    BY <2>1, <2>2 DEF Tick, vars
  <2>3. ASSUME NEW c \in Callers, Acquire(c) PROVE SlotInv'
    BY <1>2, <2>3, AcquireKeepsSlots
  <2>4. ASSUME NEW c \in Callers, Step(c) PROVE SlotInv'
    <3>1. CASE Release(c)
      <4>1. phase[c] # "asleep" /\ phase[c] = "active"
        BY <3>1 DEF Release
      <4> QED  BY <1>2, <3>1, <4>1, ReturnKeepsSlots DEF Release
    <3> QED  BY <1>2, <2>4, <3>1, ResumeKeepsSlots, NextInLineKeepsSlots,
                WakeUpKeepsSlots DEF Step
  <2>5. ASSUME NEW c \in Callers, Cancel(c) PROVE SlotInv'
    <3>1. CASE CancelAsleep(c)
      <4>1. phase[c] = "asleep"
        BY <1>2, <3>1 DEF CancelAsleep, SlotInv, Asleep
      <4> QED  BY <1>2, <3>1, <4>1, ReturnKeepsSlots DEF CancelAsleep
    <3> QED  BY <1>2, <2>5, <3>1, CancelBeforeSlotKeepsSlots,
                CancelInLineKeepsSlots DEF Cancel
  <2> QED  BY <1>2, <2>2, <2>3, <2>4, <2>5 DEF Next
<1> QED  BY <1>1, <1>2, PTL DEF Spec

\* However many callers share the limiter, and wherever they are cancelled, no
\* concurrency slot leaks and none is invented.
THEOREM SlotsConserved == Spec => []SlotsAreConserved
<1>1. SlotInv => SlotsAreConserved
  BY DEF SlotInv, SlotsAreConserved, Holders, Holding
<1> QED  BY <1>1, SlotInvariant, PTL

\* The variables keep their types: the bucket is never overdrawn or overfilled,
\* no time passes twice, and no more waiters are given a slot than wait.
THEOREM TypesCorrect == Spec => []TypeOK
<1> DEFINE InTime == now <= MaxTime /\ waited <= Cost
<1>1. Init => InTime
  BY TimeAssumption, CapacityNat DEF Init
<1>2. ASSUME RateInv, InTime, [Next]_vars PROVE InTime'
  <2>1. ASSUME NEW c \in Callers, Pace(c) PROVE waited' <= Cost
    <3>1. CASE UNCHANGED waited
      BY <1>2, <3>1
    <3>2. CASE waited' = Cost - Replenished
      BY <1>2, <3>2, RefillBounds, CapacityNat
    <3> QED  BY <2>1, <3>1, <3>2 DEF Pace
  <2>2. ASSUME NEW c \in Callers, Acquire(c) \/ Step(c) \/ Cancel(c) PROVE InTime'
    <3>1. now' = now
      BY <2>2 DEF Acquire, Step, Cancel, Resume, NextInLine, WakeUp, Release,
                  CancelBeforeSlot, CancelInLine, CancelAsleep
    <3>2. Pace(c) \/ UNCHANGED waited \/ waited' = 0
      BY <2>2 DEF Acquire, EnterPace, Step, Cancel, Resume, NextInLine, WakeUp, Release,
                  CancelBeforeSlot, CancelInLine, CancelAsleep, pace
    <3> QED  BY <1>2, <2>1, <3>1, <3>2, CapacityNat
  <2>3. CASE Tick
    BY <1>2, <2>3, TimeAssumption DEF Tick, RateInv
  <2>4. CASE UNCHANGED vars
    BY <1>2, <2>4 DEF vars
  <2> QED  BY <1>2, <2>2, <2>3, <2>4 DEF Next
<1>3. RateInv /\ SlotInv /\ InTime => TypeOK
  <2> SUFFICES ASSUME RateInv, SlotInv, InTime PROVE TypeOK
    OBVIOUS
  <2>1. /\ now \in 0..MaxTime /\ tokens \in 0..Capacity /\ updatedAt \in 0..now
        /\ waited \in 0..Cost /\ due \in Nat /\ admitted \in Nat
    BY TimeAssumption, CapacityNat DEF RateInv
  <2>2. free \in 0..MaxConcurrent
    <3>1. Cardinality(Holders(phase)) \in Nat
      BY CallersAssumption, FS_Subset, FS_CardinalityType DEF Holders
    <3>2. /\ free \in Nat /\ granted \in Nat
          /\ free + granted + Cardinality(Holders(phase)) = MaxConcurrent
      BY DEF SlotInv
    <3> QED  BY <3>1, <3>2
  <2> QED  BY <2>1, <2>2 DEF SlotInv, TypeOK
<1>4. Spec => []InTime
  BY <1>1, <1>2, RateInvariant, PTL DEF Spec
<1> QED  BY <1>3, <1>4, RateInvariant, SlotInvariant, PTL
=============================================================================
