----------------------- MODULE CollectionTasks_proofs -----------------------
(***************************************************************************)
(* Proofs about CollectionTasks for every set of tasks, every plan and     *)
(* every bound: IInv is an inductive invariant, the safety invariants      *)
(* follow from it, and the tasks implement RunLedger.                      *)
(***************************************************************************)
EXTENDS CollectionTasks, TLAPS

\* The steps of a task, with the ways to finish a retailer and the ways to give
\* a run up taken together.
FinishStep(t) == /\ pc[t] = "body"
                 /\ \E status \in Final, added \in Nat : Finish(t, status, added)

GiveUpStep(t) == \E next \in {"queued", "abort", "failed", "lost"} :
                    /\ next = "queued" => deliveries[t] < MaxDeliveries
                    /\ GiveUp(t, next)

LEMMA NextCases ==
    ASSUME TypeOK, Next
    PROVE  \/ \E t \in Tasks :
                 \/ Deliver(t) \/ Reuse(t) \/ Lookup(t) \/ Claim(t)
                 \/ StartAttempt(t) \/ FinishStep(t) \/ BodyFailsRetry(t)
                 \/ Backoff(t) \/ Commit(t) \/ Ack(t) \/ Abort(t) \/ GiveUpStep(t)
           \/ UNCHANGED vars
<1>1. CASE Idle
  BY <1>1 DEF Idle
<1>2. ASSUME NEW t \in Tasks, Step(t)
      PROVE  \/ Deliver(t) \/ Reuse(t) \/ Lookup(t) \/ Claim(t)
             \/ StartAttempt(t) \/ FinishStep(t) \/ BodyFailsRetry(t)
             \/ Backoff(t) \/ Commit(t) \/ Ack(t) \/ Abort(t) \/ GiveUpStep(t)
  <2>1. CASE BodyReturns(t)
    <3>1. pc[t] = "body"
      BY <2>1 DEF BodyReturns
    <3>2. PICK succeeded \in 0..MaxItems, failed \in 0..MaxItems :
                  Finish(t, StatusForOutcome(succeeded, failed), failed)
      BY <2>1 DEF BodyReturns
    <3>3. StatusForOutcome(succeeded, failed) \in Final /\ failed \in Nat
      BY BoundAssumption DEF StatusForOutcome, Final, TerminalSuccess
    <3> QED  BY <3>1, <3>2, <3>3 DEF FinishStep
  <2>2. CASE BodyFailsForGood(t)
    BY <2>2 DEF BodyFailsForGood, FinishStep, Final
  <2>3. CASE BodyRaises(t)
    BY <2>3 DEF BodyRaises, FinishStep, Final
  <2>4. CASE ClaimConflict(t)
    BY <2>4 DEF ClaimConflict, GiveUpStep
  <2>5. CASE BodyPoisonsSession(t)
    BY <2>5 DEF BodyPoisonsSession, GiveUpStep
  <2> QED  BY <1>2, <2>1, <2>2, <2>3, <2>4, <2>5 DEF Step
<1>3. ASSUME NEW t \in Tasks, SoftTimeLimit(t) \/ Crash(t)
      PROVE  GiveUpStep(t)
  BY <1>3 DEF SoftTimeLimit, Crash, GiveUpStep
<1> QED  BY <1>1, <1>2, <1>3 DEF Next

\* The next retailer is in the plan, after the current one, and skips nobody.
LEMMA NextRetailer ==
    ASSUME NEW t \in Tasks, NEW r \in 0..NumRetailers, NEW q \in 1..NumRetailers + 1,
           IsNext(t, r, q)
    PROVE  /\ q > r
           /\ q \in Retailers => q \in PlanOf[t]
           /\ q \notin Retailers => q = NumRetailers + 1
           /\ \A p \in PlanOf[t] : p < q => p <= r
BY PlanAssumption, RetailerAssumption DEF IsNext, Retailers

\* Where the run goes on after GoTo.
LEMMA GoToPhase ==
    ASSUME TypeOK, NEW t \in Tasks, NEW q \in 1..NumRetailers + 1, GoTo(t, q)
    PROVE  /\ at' = [at EXCEPT ![t] = q]
           /\ at'[t] = q
           /\ pc' \in [Tasks -> Phases] /\ at' \in [Tasks -> 0..NumRetailers + 1]
           /\ \A u \in Tasks \ {t} : pc'[u] = pc[u] /\ at'[u] = at[u]
           /\ \/ q \in Retailers /\ pc'[t] = "lookup"
              \/ q = NumRetailers + 1 /\ pc'[t] = "commit"
<1> USE RetailerAssumption
<1>1. pc' = [pc EXCEPT ![t] = IF q \in Retailers THEN "lookup" ELSE "commit"]
  BY DEF GoTo
<1>2. at' = [at EXCEPT ![t] = q]
  BY DEF GoTo
<1>3. q \in Retailers \/ q = NumRetailers + 1
  BY DEF Retailers
<1> QED  BY <1>1, <1>2, <1>3 DEF TypeOK, Phases, Retailers

\* The key a run works on is a key of the table.
LEMMA JobKeyInKeys ==
    ASSUME TypeOK, PositionInv, NEW t \in Tasks,
           pc[t] \in {"lookup", "claim"} \cup Working
    PROVE  /\ at[t] \in PlanOf[t] /\ at[t] \in Retailers
           /\ JobKey(t) \in Keys /\ JobKey(t) = <<ScopeOf[t], at[t]>>
           /\ JobKey(t)[1] = ScopeOf[t] /\ JobKey(t)[2] = at[t]
BY PlanAssumption DEF PositionInv, JobKey, Key, Keys

LEMMA FlushedRow ==
    ASSUME NEW row \in Row, NEW known \in Row, NEW new \in Row
    PROVE  /\ Flushed(row, known, new) \in Row
           /\ Flushed(row, known, new).status =
                 IF new.status # known.status THEN new.status ELSE row.status
           /\ Flushed(row, known, new).retries =
                 IF new.retries # known.retries THEN new.retries ELSE row.retries
BY DEF Flushed, Row

-----------------------------------------------------------------------------
LEMMA InitIInv == Init => IInv
<1> SUFFICES ASSUME Init PROVE IInv
  OBVIOUS
<1> USE TasksAssumption, RetailerAssumption, PlanAssumption, BoundAssumption DEF Init
<1>1. TypeOK
  BY DEF TypeOK, NoRow, NoReport, Phases
<1>2. CommittedRowsAreFinal
  BY DEF CommittedRowsAreFinal
<1>3. PositionInv
  BY DEF PositionInv, InRun, Working
<1>8. CounterInv
  BY DEF CounterInv, Working
<1>4. LockInv
  BY DEF LockInv, Working
<1>5. DraftInv
  BY DEF DraftInv, DraftOK, Working
<1>6. CoverInv
  BY DEF CoverInv, CoverOK, InRun
<1>7. EvidenceInv
  BY DEF EvidenceInv, EvidenceOK, RetriesAreRecorded, NoRow
<1> QED  BY <1>1, <1>2, <1>3, <1>4, <1>5, <1>6, <1>7, <1>8 DEF IInv

LEMMA Bump ==
    ASSUME NEW S, NEW f \in [S -> Nat], NEW k \in S, NEW n \in Nat
    PROVE  /\ [f EXCEPT ![k] = @ + n] \in [S -> Nat]
           /\ [f EXCEPT ![k] = @ + n][k] = f[k] + n
OBVIOUS

-----------------------------------------------------------------------------
(* What the flushes write.                                                 *)

\* The claimed row is RUNNING, with the retry count of the row it continues.
LEMMA ClaimRow ==
    ASSUME IInv, NEW t \in Tasks, Claim(t)
    PROVE  LET k == JobKey(t)
           IN  /\ k \in Keys
               /\ draft' = [draft EXCEPT ![k] = draft'[k]]
               /\ draft'[k] \in Row
               /\ draft'[k].retries = table[k].retries
               /\ job' = [job EXCEPT ![t] = job'[t]]
               /\ job'[t] \in Row
               /\ job'[t].status = "running"
<1> DEFINE k     == JobKey(t)
           known == IF job[t] = NoRow THEN NewRow ELSE job[t]
           row   == IF job[t] = NoRow THEN NewRow ELSE table[k]
           new   == [known EXCEPT !.status = "running"]
<1>1. TypeOK /\ PositionInv /\ DraftInv
  BY DEF IInv
<1>2. k \in Keys
  BY <1>1, JobKeyInKeys DEF Claim
<1>3. known \in Row /\ NewRow \in Row
  BY <1>1 DEF TypeOK, Claim, DraftInv, DraftOK, NewRow, Row, JobStatus
<1>4. new \in Row /\ new.status = "running" /\ new.retries = known.retries
  BY <1>3 DEF Row, JobStatus
<1>5. row \in Row /\ row.retries = table[k].retries
  <2>1. CASE job[t] = NoRow
    BY <1>3, <2>1 DEF Claim, NewRow, NoRow
  <2>2. CASE job[t] # NoRow
    BY <1>1, <1>2, <2>2 DEF TypeOK, Claim, DraftInv, DraftOK
  <2> QED  BY <2>1, <2>2
<1>6. draft' = [draft EXCEPT ![k] = Flushed(row, known, new)]
  BY DEF Claim
<1> HIDE DEF k, known, row, new
<1>7. Flushed(row, known, new) \in Row /\ Flushed(row, known, new).retries = table[k].retries
  BY <1>3, <1>4, <1>5, FlushedRow
<1>8. draft'[k] = Flushed(row, known, new)
  BY <1>1, <1>2, <1>6 DEF TypeOK
<1>9. job' = [job EXCEPT ![t] = new] /\ job'[t] = new
  BY <1>1 DEF TypeOK, Claim, new, known
<1> QED  BY <1>2, <1>4, <1>6, <1>7, <1>8, <1>9 DEF k

\* retry_count follows the attempt; the status stays as it is.
LEMMA AttemptRow ==
    ASSUME IInv, NEW t \in Tasks, StartAttempt(t)
    PROVE  LET k == JobKey(t)
           IN  /\ k \in Keys
               /\ draft' = [draft EXCEPT ![k] = draft'[k]]
               /\ draft'[k] \in Row
               /\ draft'[k].status = draft[k].status
               /\ draft'[k].retries \in {draft[k].retries, attempt[t] - 1}
               /\ job' = [job EXCEPT ![t] = job'[t]]
               /\ job'[t] \in Row
               /\ job'[t].status = "running"
<1> DEFINE k     == JobKey(t)
           new   == [job[t] EXCEPT !.retries = attempt[t] - 1]
<1>1. TypeOK /\ PositionInv /\ CounterInv /\ LockInv /\ DraftInv
  BY DEF IInv
<1>2. k \in Keys /\ lock[k] = t
  BY <1>1, JobKeyInKeys DEF StartAttempt, Working, LockInv
<1>3. job[t] \in Row /\ job[t].status = "running" /\ draft[k] \in Row
  BY <1>1, <1>2 DEF StartAttempt, Working, DraftInv, DraftOK
<1>4. attempt[t] - 1 \in Nat
  BY <1>1, BoundAssumption DEF TypeOK, CounterInv, StartAttempt, Working
<1>5. new \in Row /\ new.status = job[t].status /\ new.retries = attempt[t] - 1
  BY <1>3, <1>4 DEF Row
<1>6. draft' = [draft EXCEPT ![k] = Flushed(draft[k], job[t], new)]
  BY DEF StartAttempt
<1> HIDE DEF k, new
<1>7. /\ Flushed(draft[k], job[t], new) \in Row
      /\ Flushed(draft[k], job[t], new).status = draft[k].status
      /\ Flushed(draft[k], job[t], new).retries \in {draft[k].retries, attempt[t] - 1}
  BY <1>3, <1>5, FlushedRow
<1>8. draft'[k] = Flushed(draft[k], job[t], new)
  BY <1>1, <1>2, <1>6 DEF TypeOK
<1>9. job' = [job EXCEPT ![t] = new] /\ job'[t] = new
  BY <1>1 DEF TypeOK, StartAttempt, new
<1> QED  BY <1>2, <1>3, <1>5, <1>6, <1>7, <1>8, <1>9 DEF k

\* The finished row has the status the run reports.
LEMMA FinishRow ==
    ASSUME IInv, NEW t \in Tasks, pc[t] = "body",
           NEW status \in Final, NEW added \in Nat, Finish(t, status, added)
    PROVE  LET k == JobKey(t)
           IN  /\ k \in Keys
               /\ draft' = [draft EXCEPT ![k] = draft'[k]]
               /\ draft'[k] \in Row
               /\ draft'[k].status = status
               /\ draft'[k].retries = draft[k].retries
<1> DEFINE k     == JobKey(t)
           new   == [job[t] EXCEPT !.status = status]
<1>1. TypeOK /\ PositionInv /\ LockInv /\ DraftInv
  BY DEF IInv
<1>2. k \in Keys /\ lock[k] = t
  BY <1>1, JobKeyInKeys DEF Working, LockInv
<1>3. job[t] \in Row /\ job[t].status = "running" /\ draft[k] \in Row
  BY <1>1, <1>2 DEF Working, DraftInv, DraftOK
<1>4. new \in Row /\ new.status = status /\ new.retries = job[t].retries
  BY <1>3 DEF Row, JobStatus
<1>5. status # "running"
  BY DEF Final, TerminalSuccess
<1>6. draft' = [draft EXCEPT ![k] = Flushed(draft[k], job[t], new)]
  BY DEF Finish
<1> HIDE DEF k, new
<1>7. /\ Flushed(draft[k], job[t], new) \in Row
      /\ Flushed(draft[k], job[t], new).status = status
      /\ Flushed(draft[k], job[t], new).retries = draft[k].retries
  BY <1>3, <1>4, <1>5, FlushedRow
<1>8. draft'[k] = Flushed(draft[k], job[t], new)
  BY <1>1, <1>2, <1>6 DEF TypeOK
<1> QED  BY <1>2, <1>6, <1>7, <1>8 DEF k

-----------------------------------------------------------------------------
(* Each conjunct of IInv is kept by every step.                            *)

LEMMA TypeStep ==
    ASSUME IInv, Next
    PROVE  TypeOK'
<1> USE TasksAssumption, RetailerAssumption, PlanAssumption, BoundAssumption
<1>0. TypeOK /\ PositionInv /\ CounterInv /\ LockInv /\ DraftInv
  BY DEF IInv
<1>1. CASE UNCHANGED vars
  BY <1>0, <1>1 DEF TypeOK, vars
<1>2. ASSUME NEW t \in Tasks, Deliver(t) PROVE TypeOK'
  <2>1. PICK q \in 1..NumRetailers + 1 : GoTo(t, q)
    BY <1>2 DEF Deliver
  <2>2. pc' \in [Tasks -> Phases] /\ at' \in [Tasks -> 0..NumRetailers + 1]
    BY <1>0, <2>1, GoToPhase
  <2>3. deliveries' \in [Tasks -> 0..MaxDeliveries]
    BY <1>0, <1>2 DEF TypeOK, Deliver, CounterInv
  <2> QED  BY <1>0, <1>2, <2>2, <2>3 DEF TypeOK, Deliver
<1>3. ASSUME NEW t \in Tasks, Reuse(t) PROVE TypeOK'
  <2>1. PICK q \in 1..NumRetailers + 1 : GoTo(t, q)
    BY <1>3 DEF Reuse
  <2>2. pc' \in [Tasks -> Phases] /\ at' \in [Tasks -> 0..NumRetailers + 1]
    BY <1>0, <2>1, GoToPhase
  <2>3. table[JobKey(t)].status \in Final
    BY <1>3 DEF Reuse, Final
  <2>4. report' \in [Tasks -> [Retailers -> Final \cup {"none"}]]
    BY <1>0, <1>3, <2>3 DEF TypeOK, Reuse
  <2> QED  BY <1>0, <1>3, <2>2, <2>4 DEF TypeOK, Reuse
<1>4. ASSUME NEW t \in Tasks, Lookup(t) PROVE TypeOK'
  <2>1. table[JobKey(t)] \in Row \cup {NoRow}
    BY <1>0, <1>4, JobKeyInKeys DEF TypeOK, Lookup
  <2> QED  BY <1>0, <1>4, <2>1 DEF TypeOK, Lookup, Phases
<1>5. ASSUME NEW t \in Tasks, Claim(t) PROVE TypeOK'
  <2>1. /\ draft' = [draft EXCEPT ![JobKey(t)] = draft'[JobKey(t)]]
        /\ draft'[JobKey(t)] \in Row
        /\ job' = [job EXCEPT ![t] = job'[t]]
        /\ job'[t] \in Row
    BY <1>5, ClaimRow
  <2>2. draft' \in [Keys -> Row \cup {NoRow}] /\ job' \in [Tasks -> Row \cup {NoRow}]
    BY <1>0, <2>1 DEF TypeOK
  <2>3. /\ lock' = [lock EXCEPT ![JobKey(t)] = t]
        /\ attempt' = [attempt EXCEPT ![t] = 1]
        /\ pc' = [pc EXCEPT ![t] = "attempt"]
        /\ UNCHANGED <<table, errors, pending, at, report, deliveries>>
    BY <1>5 DEF Claim
  <2>4. lock' \in [Keys -> Tasks \cup {NoTask}]
    BY <1>0, <2>3 DEF TypeOK
  <2>6. 1 \in 0..MaxAttempts
    BY BoundAssumption
  <2>7. attempt' \in [Tasks -> 0..MaxAttempts]
    BY <1>0, <2>3, <2>6 DEF TypeOK
  <2>5. pc' \in [Tasks -> Phases]
    BY <1>0, <2>3 DEF TypeOK, Phases
  <2> HIDE <1>5
  <2> QED  BY <1>0, <2>2, <2>3, <2>4, <2>5, <2>7 DEF TypeOK
<1>6. ASSUME NEW t \in Tasks, StartAttempt(t) PROVE TypeOK'
  <2>1. /\ draft' = [draft EXCEPT ![JobKey(t)] = draft'[JobKey(t)]]
        /\ draft'[JobKey(t)] \in Row
        /\ job' = [job EXCEPT ![t] = job'[t]]
        /\ job'[t] \in Row
    BY <1>6, AttemptRow
  <2> QED  BY <1>0, <1>6, <2>1 DEF TypeOK, StartAttempt, Phases
<1>7. ASSUME NEW t \in Tasks, FinishStep(t) PROVE TypeOK'
  <2>1. PICK status \in Final, added \in Nat : Finish(t, status, added)
    BY <1>7 DEF FinishStep
  <2>2. PICK q \in 1..NumRetailers + 1 : GoTo(t, q)
    BY <2>1 DEF Finish
  <2>3. pc' \in [Tasks -> Phases] /\ at' \in [Tasks -> 0..NumRetailers + 1]
    BY <1>0, <2>2, GoToPhase
  <2>4. pc[t] = "body"
    BY <1>7 DEF FinishStep
  <2>5. draft' \in [Keys -> Row \cup {NoRow}]
    BY <1>0, <2>1, <2>4, FinishRow DEF TypeOK
  <2>6. pending' \in [Keys -> Nat]
    BY <1>0, <2>1, <2>4, JobKeyInKeys, Bump DEF TypeOK, Finish, Working
  <2>7. report' \in [Tasks -> [Retailers -> Final \cup {"none"}]]
    BY <1>0, <2>1 DEF TypeOK, Finish
  <2>8. job' \in [Tasks -> Row \cup {NoRow}] /\ attempt' \in [Tasks -> 0..MaxAttempts]
    BY <1>0, <2>1 DEF TypeOK, Finish
  <2> QED  BY <1>0, <2>1, <2>3, <2>5, <2>6, <2>7, <2>8 DEF TypeOK, Finish
<1>8. ASSUME NEW t \in Tasks, BodyFailsRetry(t) PROVE TypeOK'
  <2>1. pending' \in [Keys -> Nat]
    BY <1>0, <1>8, JobKeyInKeys, Bump DEF TypeOK, BodyFailsRetry, Working
  <2> QED  BY <1>0, <1>8, <2>1 DEF TypeOK, BodyFailsRetry, Phases
<1>9. ASSUME NEW t \in Tasks, Backoff(t) PROVE TypeOK'
  <2>1. attempt' \in [Tasks -> 0..MaxAttempts]
    BY <1>0, <1>9 DEF TypeOK, Backoff, CounterInv
  <2> QED  BY <1>0, <1>9, <2>1 DEF TypeOK, Backoff, Phases
<1>10. ASSUME NEW t \in Tasks, Commit(t) PROVE TypeOK'
  <2>1. table' \in [Keys -> Row \cup {NoRow}] /\ errors' \in [Keys -> Nat]
    BY <1>0, <1>10 DEF TypeOK, Commit
  <2>2. /\ lock' \in [Keys -> Tasks \cup {NoTask}]
        /\ draft' \in [Keys -> Row \cup {NoRow}]
        /\ pending' \in [Keys -> Nat]
    BY <1>0, <1>10 DEF TypeOK, Commit, Release
  <2> QED  BY <1>0, <1>10, <2>1, <2>2 DEF TypeOK, Commit, Phases
<1>11. ASSUME NEW t \in Tasks, Ack(t) PROVE TypeOK'
  <2>1. NoReport \in [Retailers -> Final \cup {"none"}]
    BY DEF NoReport
  <2> QED  BY <1>0, <1>11, <2>1 DEF TypeOK, Ack, Phases
<1>12. ASSUME NEW t \in Tasks, Abort(t) PROVE TypeOK'
  BY <1>0, <1>12 DEF TypeOK, Abort, Phases
<1>13. ASSUME NEW t \in Tasks, GiveUpStep(t) PROVE TypeOK'
  <2>1. PICK next \in {"queued", "abort", "failed", "lost"} : GiveUp(t, next)
    BY <1>13 DEF GiveUpStep
  <2>2. NoReport \in [Retailers -> Final \cup {"none"}]
    BY DEF NoReport
  <2>3. /\ lock' \in [Keys -> Tasks \cup {NoTask}]
        /\ draft' \in [Keys -> Row \cup {NoRow}]
        /\ pending' \in [Keys -> Nat]
    BY <1>0, <2>1 DEF TypeOK, GiveUp, Release
  <2> QED  BY <1>0, <2>1, <2>2, <2>3 DEF TypeOK, GiveUp, Phases
<1> QED  BY <1>0, <1>1, <1>2, <1>3, <1>4, <1>5, <1>6, <1>7, <1>8, <1>9, <1>10,
            <1>11, <1>12, <1>13, NextCases

LEMMA PositionStep ==
    ASSUME IInv, Next
    PROVE  PositionInv'
<1> USE RetailerAssumption, PlanAssumption
<1>0. TypeOK /\ PositionInv
  BY DEF IInv
<1>1. CASE UNCHANGED vars
  BY <1>0, <1>1 DEF PositionInv, vars
<1>2. ASSUME NEW t \in Tasks, NEW r \in 0..NumRetailers, NEW q \in 1..NumRetailers + 1,
             IsNext(t, r, q), GoTo(t, q)
      PROVE  PositionInv'
  BY <1>0, <1>2, GoToPhase, NextRetailer DEF PositionInv, InRun, Working
<1>3. ASSUME NEW t \in Tasks, Deliver(t) PROVE PositionInv'
  BY <1>2, <1>3 DEF Deliver
<1>4. ASSUME NEW t \in Tasks, Reuse(t) PROVE PositionInv'
  BY <1>0, <1>2, <1>4, JobKeyInKeys DEF Reuse, Retailers
<1>5. ASSUME NEW t \in Tasks, FinishStep(t) PROVE PositionInv'
  BY <1>0, <1>2, <1>5, JobKeyInKeys DEF FinishStep, Finish, Retailers, Working
<1>6. ASSUME NEW t \in Tasks,
             Lookup(t) \/ Claim(t) \/ StartAttempt(t) \/ BodyFailsRetry(t) \/ Backoff(t)
      PROVE  PositionInv'
  <2>1. at' = at /\ at[t] \in PlanOf[t]
    BY <1>0, <1>6, JobKeyInKeys
       DEF Lookup, Claim, StartAttempt, BodyFailsRetry, Backoff, Working
  <2>2. PICK p \in {"claim"} \cup Working : pc' = [pc EXCEPT ![t] = p]
    BY <1>6 DEF Lookup, Claim, StartAttempt, BodyFailsRetry, Backoff, Working
  <2> QED  BY <1>0, <2>1, <2>2 DEF TypeOK, PositionInv, InRun, Working
<1>7. ASSUME NEW t \in Tasks, Commit(t) PROVE PositionInv'
  BY <1>0, <1>7 DEF TypeOK, Commit, PositionInv, InRun, Working
<1>8. ASSUME NEW t \in Tasks, Ack(t) \/ Abort(t) PROVE PositionInv'
  BY <1>0, <1>8 DEF TypeOK, Ack, Abort, PositionInv, InRun, Working
<1>9. ASSUME NEW t \in Tasks, GiveUpStep(t) PROVE PositionInv'
  BY <1>0, <1>9 DEF TypeOK, GiveUpStep, GiveUp, PositionInv, InRun, Working
<1> QED  BY <1>0, <1>1, <1>3, <1>4, <1>5, <1>6, <1>7, <1>8, <1>9, NextCases

LEMMA CounterStep ==
    ASSUME IInv, Next
    PROVE  CounterInv'
<1> USE BoundAssumption
<1>0. TypeOK /\ CounterInv
  BY DEF IInv
<1>1. CASE UNCHANGED vars
  BY <1>0, <1>1 DEF CounterInv, vars
<1>2. ASSUME NEW t \in Tasks, Deliver(t) PROVE CounterInv'
  BY <1>0, <1>2, GoToPhase DEF TypeOK, Deliver, CounterInv, Working
<1>3. ASSUME NEW t \in Tasks, Reuse(t) PROVE CounterInv'
  BY <1>0, <1>3, GoToPhase DEF TypeOK, Reuse, CounterInv, Working
<1>4. ASSUME NEW t \in Tasks, FinishStep(t) PROVE CounterInv'
  BY <1>0, <1>4, GoToPhase DEF TypeOK, FinishStep, Finish, CounterInv, Working
<1>5. ASSUME NEW t \in Tasks, Lookup(t) \/ Ack(t) \/ Abort(t) \/ Commit(t)
      PROVE  CounterInv'
  BY <1>0, <1>5 DEF TypeOK, Lookup, Ack, Abort, Commit, CounterInv, Working
<1>6. ASSUME NEW t \in Tasks, Claim(t) PROVE CounterInv'
  <2>1. /\ attempt' = [attempt EXCEPT ![t] = 1]
        /\ pc' = [pc EXCEPT ![t] = "attempt"]
        /\ deliveries' = deliveries
    BY <1>6 DEF Claim
  <2> QED  BY <1>0, <2>1 DEF TypeOK, CounterInv, Working
<1>7. ASSUME NEW t \in Tasks, StartAttempt(t) PROVE CounterInv'
  BY <1>0, <1>7 DEF TypeOK, StartAttempt, CounterInv, Working
<1>8. ASSUME NEW t \in Tasks, BodyFailsRetry(t) PROVE CounterInv'
  BY <1>0, <1>8 DEF TypeOK, BodyFailsRetry, Retryable, CounterInv, Working
<1>9. ASSUME NEW t \in Tasks, Backoff(t) PROVE CounterInv'
  BY <1>0, <1>9 DEF TypeOK, Backoff, CounterInv, Working
<1>10. ASSUME NEW t \in Tasks, GiveUpStep(t) PROVE CounterInv'
  BY <1>0, <1>10 DEF TypeOK, GiveUpStep, GiveUp, CounterInv, Working
<1> QED
  BY <1>0, <1>1, <1>2, <1>3, <1>4, <1>5, <1>6, <1>7, <1>8, <1>9, <1>10, NextCases

LEMMA LockStep ==
    ASSUME IInv, Next
    PROVE  LockInv'
<1> USE TasksAssumption, RetailerAssumption, PlanAssumption
<1>0. TypeOK /\ PositionInv /\ LockInv
  BY DEF IInv
<1>1. CASE UNCHANGED vars
  BY <1>0, <1>1 DEF LockInv, JobKey, Key, vars
\* The run moves on to a later retailer and keeps its rows.
<1>2. ASSUME NEW t \in Tasks, NEW r \in 0..NumRetailers, NEW q \in 1..NumRetailers + 1,
             IsNext(t, r, q), GoTo(t, q), lock' = lock,
             \A k \in Keys : lock[k] = t => k[2] <= r
      PROVE  LockInv'
  <2>1. q > r
    BY <1>2, NextRetailer
  <2>2. at'[t] = q /\ pc'[t] \in {"lookup", "commit"}
    BY <1>0, <1>2, GoToPhase
  <2>3. \A u \in Tasks \ {t} : pc'[u] = pc[u] /\ at'[u] = at[u]
    BY <1>0, <1>2, GoToPhase
  <2>4. ASSUME NEW k \in Keys, lock[k] = t
        PROVE  k[1] = ScopeOf[t] /\ k[2] \in PlanOf[t] /\ k[2] < q
    <3>1. k[1] = ScopeOf[t] /\ k[2] \in PlanOf[t] /\ k[2] <= r
      BY <1>0, <1>2, <2>4 DEF LockInv
    <3> QED  BY <3>1, <2>1 DEF Retailers
  <2>5. ASSUME NEW u \in Tasks, u # t, pc'[u] \in Working
        PROVE  lock'[JobKey(u)'] = u
    BY <1>0, <1>2, <2>3, <2>5 DEF LockInv, JobKey, Key
  <2> QED  BY <1>0, <1>2, <2>2, <2>3, <2>4, <2>5 DEF LockInv, InRun, Working, Retailers
<1>3. ASSUME NEW t \in Tasks, Deliver(t) PROVE LockInv'
  <2>1. \A k \in Keys : lock[k] # t
    BY <1>0, <1>3 DEF Deliver, LockInv, InRun
  <2> QED  BY <1>2, <1>3, <2>1 DEF Deliver
<1>4. ASSUME NEW t \in Tasks, Reuse(t) PROVE LockInv'
  <2>1. at[t] \in 0..NumRetailers
    BY <1>0, <1>4, JobKeyInKeys DEF Reuse, Retailers
  <2>2. \A k \in Keys : lock[k] = t => k[2] <= at[t]
    BY <1>0 DEF LockInv
  <2> QED  BY <1>2, <1>4, <2>1, <2>2 DEF Reuse
<1>5. ASSUME NEW t \in Tasks, FinishStep(t) PROVE LockInv'
  <2>1. at[t] \in 0..NumRetailers
    BY <1>0, <1>5, JobKeyInKeys DEF FinishStep, Retailers, Working
  <2>2. \A k \in Keys : lock[k] = t => k[2] <= at[t]
    BY <1>0 DEF LockInv
  <2> QED  BY <1>2, <1>5, <2>1, <2>2 DEF FinishStep, Finish
<1>6. ASSUME NEW t \in Tasks, Lookup(t) PROVE LockInv'
  BY <1>0, <1>6 DEF TypeOK, Lookup, LockInv, InRun, Working, JobKey, Key
<1>7. ASSUME NEW t \in Tasks, StartAttempt(t) \/ BodyFailsRetry(t) \/ Backoff(t)
      PROVE  LockInv'
  <2>1. PICK p \in Working : pc' = [pc EXCEPT ![t] = p]
    BY <1>7 DEF StartAttempt, BodyFailsRetry, Backoff, Working
  <2>2. lock' = lock /\ at' = at /\ pc[t] \in Working
    BY <1>7 DEF StartAttempt, BodyFailsRetry, Backoff, Working
  <2> QED  BY <1>0, <2>1, <2>2 DEF TypeOK, LockInv, InRun, Working, JobKey, Key
<1>8. ASSUME NEW t \in Tasks, Claim(t) PROVE LockInv'
  <2>1. /\ pc[t] = "claim"
        /\ lock[JobKey(t)] = NoTask
        /\ lock' = [lock EXCEPT ![JobKey(t)] = t]
        /\ pc' = [pc EXCEPT ![t] = "attempt"]
        /\ at' = at
    BY <1>8 DEF Claim
  <2>2. /\ JobKey(t) \in Keys /\ JobKey(t)[1] = ScopeOf[t] /\ JobKey(t)[2] = at[t]
        /\ at[t] \in PlanOf[t]
    BY <1>0, <2>1, JobKeyInKeys
  <2>3. \A u \in Tasks : JobKey(u)' = JobKey(u)
    BY <2>1 DEF JobKey, Key
  <2>4. ASSUME NEW u \in Tasks, NEW k \in Keys, lock'[k] = u
        PROVE  /\ pc'[u] \in InRun
               /\ k[1] = ScopeOf[u] /\ k[2] \in PlanOf[u] /\ k[2] <= at'[u]
               /\ pc'[u] \in {"lookup", "claim"} => k[2] < at'[u]
    <3>1. CASE k = JobKey(t)
      <4>1. u = t
        BY <1>0, <2>1, <2>2, <2>4, <3>1 DEF TypeOK
      <4> QED  BY <1>0, <2>1, <2>2, <3>1, <4>1 DEF TypeOK, InRun, Retailers
    <3>2. CASE k # JobKey(t)
      BY <1>0, <2>1, <2>4, <3>2 DEF TypeOK, LockInv, InRun
    <3> QED  BY <3>1, <3>2
  <2>5. ASSUME NEW u \in Tasks, pc'[u] \in Working
        PROVE  lock'[JobKey(u)'] = u
    <3>1. CASE u = t
      BY <1>0, <2>1, <2>2, <2>3, <3>1 DEF TypeOK
    <3>2. CASE u # t
      <4>1. lock[JobKey(u)] = u
        BY <1>0, <2>1, <2>5, <3>2 DEF TypeOK, LockInv
      <4>2. JobKey(u) # JobKey(t)
        BY <2>1, <4>1
      <4> QED  BY <1>0, <2>1, <2>2, <2>3, <4>1, <4>2 DEF TypeOK
    <3> QED  BY <3>1, <3>2
  <2> QED  BY <2>4, <2>5 DEF LockInv
\* A transaction ends: the run holds nothing any more, the others what they held.
<1>9. ASSUME NEW t \in Tasks, Release(t),
             pc' = [pc EXCEPT ![t] = pc'[t]], pc'[t] \notin InRun,
             \A u \in Tasks \ {t} : at'[u] = at[u]
      PROVE  LockInv'
  <2>1. ASSUME NEW u \in Tasks, NEW k \in Keys, lock'[k] = u
        PROVE  lock[k] = u /\ u # t
    BY <1>9, <2>1 DEF Release
  <2>2. ASSUME NEW u \in Tasks, pc'[u] \in Working
        PROVE  lock'[JobKey(u)'] = u
    <3>1. u # t /\ pc'[u] = pc[u] /\ at'[u] = at[u]
      BY <1>0, <1>9, <2>2 DEF TypeOK, InRun, Working
    <3>2. JobKey(u)' = JobKey(u) /\ lock[JobKey(u)] = u /\ JobKey(u) \in Keys
      BY <1>0, <2>2, <3>1, JobKeyInKeys DEF JobKey, Key, LockInv
    <3> QED  BY <1>9, <3>1, <3>2 DEF Release
  <2>3. ASSUME NEW u \in Tasks, NEW k \in Keys, lock'[k] = u
        PROVE  pc'[u] = pc[u] /\ at'[u] = at[u]
    BY <1>0, <1>9, <2>1, <2>3 DEF TypeOK
  <2> QED  BY <1>0, <2>1, <2>2, <2>3 DEF LockInv
<1>10. ASSUME NEW t \in Tasks, Commit(t) PROVE LockInv'
  <2>1. pc' = [pc EXCEPT ![t] = pc'[t]] /\ pc'[t] \notin InRun
    BY <1>0, <1>10 DEF TypeOK, Commit, InRun
  <2> QED  BY <1>9, <1>10, <2>1 DEF Commit
<1>11. ASSUME NEW t \in Tasks, Ack(t) \/ Abort(t) PROVE LockInv'
  <2>1. \A k \in Keys : lock[k] # t
    BY <1>0, <1>11 DEF Ack, Abort, LockInv, InRun
  <2> QED  BY <1>0, <1>11, <2>1 DEF TypeOK, Ack, Abort, LockInv, InRun, Working, JobKey, Key
<1>12. ASSUME NEW t \in Tasks, GiveUpStep(t) PROVE LockInv'
  <2>1. PICK next \in {"queued", "abort", "failed", "lost"} : GiveUp(t, next)
    BY <1>12 DEF GiveUpStep
  <2>2. pc' = [pc EXCEPT ![t] = pc'[t]] /\ pc'[t] \notin InRun
    BY <1>0, <2>1 DEF TypeOK, GiveUp, InRun
  <2>3. \A u \in Tasks \ {t} : at'[u] = at[u]
    BY <1>0, <2>1 DEF TypeOK, GiveUp
  <2> QED  BY <1>9, <2>1, <2>2, <2>3 DEF GiveUp
<1> QED  BY <1>0, <1>1, <1>3, <1>4, <1>5, <1>6, <1>7, <1>8, <1>10, <1>11, <1>12, NextCases

\* A step of t leaves every other run where it is, with what it knows.
LEMMA OthersStay ==
    ASSUME IInv, NEW t \in Tasks, NEW u \in Tasks, u # t,
           \/ Deliver(t) \/ Reuse(t) \/ Lookup(t) \/ Claim(t)
           \/ StartAttempt(t) \/ FinishStep(t) \/ BodyFailsRetry(t)
           \/ Backoff(t) \/ Commit(t) \/ Ack(t) \/ Abort(t) \/ GiveUpStep(t)
    PROVE  /\ pc'[u] = pc[u] /\ at'[u] = at[u] /\ job'[u] = job[u]
           /\ attempt'[u] = attempt[u] /\ report'[u] = report[u]
           /\ JobKey(u)' = JobKey(u)
<1>0. TypeOK
  BY DEF IInv
<1>1. pc'[u] = pc[u] /\ at'[u] = at[u]
  <2>1. CASE Deliver(t) \/ Reuse(t) \/ FinishStep(t)
    BY <1>0, <2>1, GoToPhase DEF Deliver, Reuse, FinishStep, Finish
  <2>2. CASE Lookup(t) \/ Claim(t) \/ StartAttempt(t) \/ BodyFailsRetry(t) \/ Backoff(t)
    BY <1>0, <2>2 DEF TypeOK, Lookup, Claim, StartAttempt, BodyFailsRetry, Backoff
  <2>3. CASE Commit(t) \/ Ack(t) \/ Abort(t) \/ GiveUpStep(t)
    BY <1>0, <2>3 DEF TypeOK, Commit, Ack, Abort, GiveUpStep, GiveUp
  <2> QED  BY <2>1, <2>2, <2>3
<1>2. job'[u] = job[u] /\ attempt'[u] = attempt[u] /\ report'[u] = report[u]
  <2>1. CASE Deliver(t) \/ Reuse(t) \/ FinishStep(t)
    BY <1>0, <2>1 DEF TypeOK, Deliver, Reuse, FinishStep, Finish
  <2>2. CASE Lookup(t) \/ Claim(t) \/ StartAttempt(t) \/ BodyFailsRetry(t) \/ Backoff(t)
    BY <1>0, <2>2 DEF TypeOK, Lookup, Claim, StartAttempt, BodyFailsRetry, Backoff
  <2>3. CASE Commit(t) \/ Ack(t) \/ Abort(t) \/ GiveUpStep(t)
    BY <1>0, <2>3 DEF TypeOK, Commit, Ack, Abort, GiveUpStep, GiveUp
  <2> QED  BY <2>1, <2>2, <2>3
<1> QED  BY <1>1, <1>2 DEF JobKey, Key

\* A row some other run holds is not touched.
LEMMA HeldRowsStay ==
    ASSUME IInv, NEW t \in Tasks, NEW u \in Tasks, u # t, NEW k \in Keys,
           \/ Deliver(t) \/ Reuse(t) \/ Lookup(t) \/ Claim(t)
           \/ StartAttempt(t) \/ FinishStep(t) \/ BodyFailsRetry(t)
           \/ Backoff(t) \/ Commit(t) \/ Ack(t) \/ Abort(t) \/ GiveUpStep(t)
    PROVE  /\ lock'[k] = u <=> lock[k] = u
           /\ lock[k] = u => /\ draft'[k] = draft[k]
                             /\ pending'[k] = pending[k]
                             /\ table'[k] = table[k]
                             /\ errors'[k] = errors[k]
<1> USE TasksAssumption
<1>0. TypeOK /\ PositionInv /\ LockInv
  BY DEF IInv
<1>1. CASE Deliver(t) \/ Reuse(t) \/ Lookup(t) \/ Backoff(t) \/ Ack(t) \/ Abort(t)
  BY <1>1 DEF Deliver, Reuse, Lookup, Backoff, Ack, Abort
<1>2. CASE Claim(t)
  <2>1. /\ lock[JobKey(t)] = NoTask
        /\ lock' = [lock EXCEPT ![JobKey(t)] = t]
        /\ UNCHANGED <<table, errors, pending>>
    BY <1>2 DEF Claim
  <2>2. JobKey(t) \in Keys /\ draft' = [draft EXCEPT ![JobKey(t)] = draft'[JobKey(t)]]
    BY <1>2, ClaimRow
  <2> QED  BY <1>0, <2>1, <2>2 DEF TypeOK
<1>3. CASE StartAttempt(t) \/ FinishStep(t) \/ BodyFailsRetry(t)
  <2>1. lock[JobKey(t)] = t
    BY <1>0, <1>3 DEF LockInv, StartAttempt, FinishStep, BodyFailsRetry, Working
  <2>2. lock' = lock /\ UNCHANGED <<table, errors>>
    BY <1>3 DEF StartAttempt, FinishStep, Finish, BodyFailsRetry
  <2>3. k # JobKey(t) => draft'[k] = draft[k] /\ pending'[k] = pending[k]
    BY <1>0, <1>3 DEF TypeOK, StartAttempt, FinishStep, Finish, BodyFailsRetry
  <2> QED  BY <2>1, <2>2, <2>3
<1>4. CASE Commit(t)
  BY <1>4 DEF Commit, Release
<1>5. CASE GiveUpStep(t)
  BY <1>5 DEF GiveUpStep, GiveUp, Release
<1> QED  BY <1>1, <1>2, <1>3, <1>4, <1>5

\* Committed rows change only in a commit, and only the rows it holds.
LEMMA TableChange ==
    ASSUME IInv, NEW t \in Tasks,
           \/ Deliver(t) \/ Reuse(t) \/ Lookup(t) \/ Claim(t)
           \/ StartAttempt(t) \/ FinishStep(t) \/ BodyFailsRetry(t)
           \/ Backoff(t) \/ Commit(t) \/ Ack(t) \/ Abort(t) \/ GiveUpStep(t)
    PROVE  \A k \in Keys :
              \/ table'[k] = table[k] /\ errors'[k] = errors[k]
              \/ /\ Commit(t) /\ lock[k] = t
                 /\ table'[k] = draft[k] /\ errors'[k] = errors[k] + pending[k]
                 /\ table'[k] \in Row /\ table'[k].status \in Final
                 /\ table'[k].status = report[t][k[2]]
<1>0. TypeOK /\ PositionInv /\ LockInv /\ DraftInv
  BY DEF IInv
<1>1. CASE Commit(t)
  <2>1. TAKE k \in Keys
  <2>2. CASE lock[k] = t
    <3>1. k[2] < at[t]
      BY <1>0, <1>1, <2>2, RetailerAssumption DEF Commit, PositionInv, Keys, Retailers
    <3>2. draft[k] \in Row /\ draft[k].status \in Final /\ draft[k].status = report[t][k[2]]
      BY <1>0, <2>2, <3>1 DEF DraftInv, DraftOK
    <3> QED  BY <1>1, <2>2, <3>2 DEF Commit
  <2>3. CASE lock[k] # t
    BY <1>1, <2>3 DEF Commit
  <2> QED  BY <2>2, <2>3
<1>2. CASE ~Commit(t)
  <2>1. UNCHANGED <<table, errors>>
    BY <1>2 DEF Deliver, Reuse, Lookup, Claim, StartAttempt, FinishStep, Finish,
                BodyFailsRetry, Backoff, Ack, Abort, GiveUpStep, GiveUp
  <2> QED  BY <2>1
<1> QED  BY <1>1, <1>2

LEMMA FinalStep ==
    ASSUME IInv, Next
    PROVE  CommittedRowsAreFinal'
<1>0. TypeOK /\ CommittedRowsAreFinal
  BY DEF IInv
<1>1. CASE UNCHANGED vars
  BY <1>0, <1>1 DEF CommittedRowsAreFinal, vars
<1>2. ASSUME NEW t \in Tasks,
             \A k \in Keys : table'[k] = table[k] \/ table'[k].status \in Final
      PROVE  CommittedRowsAreFinal'
  BY <1>0, <1>2 DEF CommittedRowsAreFinal
<1> QED  BY <1>0, <1>1, <1>2, NextCases, TableChange

LEMMA DraftStep ==
    ASSUME IInv, Next
    PROVE  DraftInv'
<1> USE TasksAssumption, RetailerAssumption
<1>0. TypeOK /\ PositionInv /\ LockInv /\ DraftInv /\ CommittedRowsAreFinal
  BY DEF IInv
<1>1. CASE UNCHANGED vars
  BY <1>0, <1>1 DEF DraftInv, DraftOK, JobKey, Key, vars
<1>2. ASSUME NEW t \in Tasks, NEW u \in Tasks, u # t,
             \/ Deliver(t) \/ Reuse(t) \/ Lookup(t) \/ Claim(t)
             \/ StartAttempt(t) \/ FinishStep(t) \/ BodyFailsRetry(t)
             \/ Backoff(t) \/ Commit(t) \/ Ack(t) \/ Abort(t) \/ GiveUpStep(t)
      PROVE  DraftOK(u)'
  <2>1. /\ pc'[u] = pc[u] /\ at'[u] = at[u] /\ job'[u] = job[u]
        /\ report'[u] = report[u] /\ JobKey(u)' = JobKey(u)
    BY <1>2, OthersStay
  <2>2. \A k \in Keys : /\ lock'[k] = u <=> lock[k] = u
                        /\ lock[k] = u => draft'[k] = draft[k]
    BY <1>2, HeldRowsStay
  <2>3. \A k \in Keys : table[k] # NoRow => table'[k] # NoRow
    BY <1>2, TableChange DEF NoRow, Final, TerminalSuccess
  <2>4. pc[u] = "claim" => JobKey(u) \in Keys
    BY <1>0, JobKeyInKeys
  <2> QED  BY <1>0, <2>1, <2>2, <2>3, <2>4 DEF DraftInv, DraftOK
\* The step only moves on to a later phase of the same retailer.
<1>3. ASSUME NEW t \in Tasks, Lookup(t) PROVE DraftOK(t)'
  <2>1. /\ pc[t] = "lookup" /\ job'[t] = table[JobKey(t)] /\ pc'[t] = "claim"
        /\ table[JobKey(t)].status \notin TerminalSuccess
        /\ UNCHANGED <<table, lock, draft, at, report>>
    BY <1>0, <1>3 DEF TypeOK, Lookup
  <2>2. JobKey(t) \in Keys /\ JobKey(t)' = JobKey(t)
    BY <1>0, <2>1, JobKeyInKeys DEF JobKey, Key
  <2>3. job'[t] # NoRow => job'[t] \in Row /\ job'[t].status = "failed"
    BY <1>0, <2>1, <2>2 DEF TypeOK, CommittedRowsAreFinal, Final
  <2> QED  BY <1>0, <2>1, <2>2, <2>3 DEF DraftInv, DraftOK, Working
<1>4. ASSUME NEW t \in Tasks, Claim(t) PROVE DraftOK(t)'
  <2>1. /\ pc'[t] = "attempt" /\ at' = at /\ report' = report
        /\ lock' = [lock EXCEPT ![JobKey(t)] = t]
        /\ pc[t] = "claim"
    BY <1>0, <1>4 DEF TypeOK, Claim
  <2>2. /\ JobKey(t) \in Keys /\ draft'[JobKey(t)] \in Row
        /\ draft' = [draft EXCEPT ![JobKey(t)] = draft'[JobKey(t)]]
        /\ job'[t] \in Row /\ job'[t].status = "running"
    BY <1>4, ClaimRow
  <2>3. JobKey(t)[2] = at[t]
    BY <1>0, <2>1, JobKeyInKeys
  <2>4. at[t] \in Nat
    BY <1>0 DEF TypeOK
  <2> QED  BY <1>0, <2>1, <2>2, <2>3, <2>4 DEF TypeOK, DraftInv, DraftOK
<1>5. ASSUME NEW t \in Tasks, StartAttempt(t) PROVE DraftOK(t)'
  <2>1. /\ pc'[t] = "body" /\ at' = at /\ report' = report /\ lock' = lock
        /\ pc[t] \in Working
    BY <1>0, <1>5 DEF TypeOK, StartAttempt, Working
  <2>2. /\ JobKey(t) \in Keys /\ draft'[JobKey(t)] \in Row
        /\ draft' = [draft EXCEPT ![JobKey(t)] = draft'[JobKey(t)]]
        /\ job'[t] \in Row /\ job'[t].status = "running"
    BY <1>5, AttemptRow
  <2>3. JobKey(t)[2] = at[t]
    BY <1>0, <2>1, JobKeyInKeys
  <2>4. at[t] \in Nat
    BY <1>0 DEF TypeOK
  <2> QED  BY SMTT(30), <1>0, <2>1, <2>2, <2>3, <2>4 DEF TypeOK, DraftInv, DraftOK
<1>6. ASSUME NEW t \in Tasks, BodyFailsRetry(t) \/ Backoff(t) PROVE DraftOK(t)'
  <2>1. pc[t] \in Working /\ pc'[t] \in Working
    BY <1>0, <1>6 DEF TypeOK, BodyFailsRetry, Backoff, Working
  <2>2. UNCHANGED <<table, lock, draft, at, job, report>>
    BY <1>6 DEF BodyFailsRetry, Backoff
  <2> QED  BY <1>0, <2>1, <2>2 DEF DraftInv, DraftOK, Working
\* The run moves on to the next retailer.
<1>7. ASSUME NEW t \in Tasks, Deliver(t) PROVE DraftOK(t)'
  <2>1. \A k \in Keys : lock'[k] # t
    BY <1>0, <1>7 DEF Deliver, LockInv, InRun
  <2>2. pc'[t] \in {"lookup", "commit"}
    BY <1>0, <1>7, GoToPhase DEF Deliver
  <2> QED  BY <2>1, <2>2 DEF DraftOK, Working
<1>8. ASSUME NEW t \in Tasks, Reuse(t) PROVE DraftOK(t)'
  <2>1. pc'[t] \in {"lookup", "commit"}
    BY <1>0, <1>8, GoToPhase DEF Reuse
  <2>2. ASSUME NEW k \in Keys, lock[k] = t
        PROVE  k[2] < at[t] /\ report'[t][k[2]] = report[t][k[2]]
    <3>1. k[2] < at[t] /\ k[2] \in Nat
      BY <1>0, <1>8, <2>2 DEF Reuse, LockInv, Keys, Retailers
    <3>2. at[t] \in Nat /\ report' = [report EXCEPT ![t][at[t]] = table[JobKey(t)].status]
      BY <1>0, <1>8 DEF TypeOK, Reuse
    <3> QED  BY <1>0, <3>1, <3>2 DEF TypeOK
  <2>3. lock' = lock /\ draft' = draft
    BY <1>8 DEF Reuse
  <2> QED  BY <1>0, <2>1, <2>2, <2>3 DEF DraftInv, DraftOK, Working
<1>9. ASSUME NEW t \in Tasks, FinishStep(t) PROVE DraftOK(t)'
  <2>1. PICK status \in Final, added \in Nat : Finish(t, status, added)
    BY <1>9 DEF FinishStep
  <2>2. pc[t] = "body"
    BY <1>9 DEF FinishStep
  <2>3. pc'[t] \in {"lookup", "commit"}
    BY <1>0, <2>1, GoToPhase DEF Finish
  <2>4. /\ JobKey(t) \in Keys /\ draft'[JobKey(t)] \in Row
        /\ draft' = [draft EXCEPT ![JobKey(t)] = draft'[JobKey(t)]]
        /\ draft'[JobKey(t)].status = status
    BY <2>1, <2>2, FinishRow
  <2>5. /\ at[t] \in Retailers /\ JobKey(t)[1] = ScopeOf[t] /\ JobKey(t)[2] = at[t]
        /\ JobKey(t) = <<ScopeOf[t], at[t]>>
    BY <1>0, <2>2, JobKeyInKeys DEF Working
  <2>6. report' = [report EXCEPT ![t][at[t]] = status] /\ lock' = lock
    BY <2>1 DEF Finish
  <2>7. report'[t] = [report[t] EXCEPT ![at[t]] = status] /\ report'[t][at[t]] = status
    BY <1>0, <2>5, <2>6 DEF TypeOK
  <2>8. ASSUME NEW k \in Keys, lock[k] = t, k # JobKey(t)
        PROVE  draft'[k] = draft[k] /\ k[2] < at[t] /\ report'[t][k[2]] = report[t][k[2]]
    <3>1. k[1] = ScopeOf[t] /\ k[2] <= at[t] /\ k = <<k[1], k[2]>> /\ k[2] \in Retailers
      BY <1>0, <2>8 DEF LockInv, Keys
    <3>2. k[2] # at[t]
      BY <2>5, <2>8, <3>1
    <3>3. k[2] < at[t]
      BY <2>5, <3>1, <3>2 DEF Retailers
    <3>4. draft'[k] = draft[k]
      BY <1>0, <2>4, <2>8 DEF TypeOK
    <3> QED  BY <1>0, <2>7, <3>1, <3>2, <3>3, <3>4 DEF TypeOK
  <2>9. ASSUME NEW k \in Keys, lock'[k] = t
        PROVE  draft'[k] \in Row /\ draft'[k].status \in Final
               /\ draft'[k].status = report'[t][k[2]]
    <3>1. CASE k = JobKey(t)
      BY <2>4, <2>5, <2>7, <3>1
    <3>2. CASE k # JobKey(t)
      BY <1>0, <2>6, <2>8, <2>9, <3>2 DEF DraftInv, DraftOK
    <3> QED  BY <3>1, <3>2
  <2> QED  BY <2>3, <2>9 DEF DraftOK, Working
\* The run ends and holds nothing.
<1>10. ASSUME NEW t \in Tasks, Commit(t) \/ Ack(t) \/ Abort(t) \/ GiveUpStep(t)
       PROVE  DraftOK(t)'
  <2>1. \A k \in Keys : lock'[k] # t
    BY <1>0, <1>10 DEF Commit, Ack, Abort, GiveUpStep, GiveUp, Release, LockInv, InRun
  <2>2. pc'[t] \notin Working \cup {"claim"}
    BY <1>0, <1>10 DEF TypeOK, Commit, Ack, Abort, GiveUpStep, GiveUp, Working
  <2> QED  BY <2>1, <2>2 DEF DraftOK
<1>11. ASSUME NEW t \in Tasks,
              \/ Deliver(t) \/ Reuse(t) \/ Lookup(t) \/ Claim(t)
              \/ StartAttempt(t) \/ FinishStep(t) \/ BodyFailsRetry(t)
              \/ Backoff(t) \/ Commit(t) \/ Ack(t) \/ Abort(t) \/ GiveUpStep(t)
       PROVE  DraftInv'
  <2>1. DraftOK(t)'
    BY <1>3, <1>4, <1>5, <1>6, <1>7, <1>8, <1>9, <1>10, <1>11
  <2>2. \A u \in Tasks : u # t => DraftOK(u)'
    BY <1>2, <1>11
  <2> QED  BY <2>1, <2>2 DEF DraftInv
<1> QED  BY <1>0, <1>1, <1>11, NextCases

LEMMA CoverStep ==
    ASSUME IInv, Next
    PROVE  CoverInv'
<1> USE TasksAssumption, RetailerAssumption, PlanAssumption
<1>0. TypeOK /\ PositionInv /\ LockInv /\ DraftInv /\ CoverInv
  BY DEF IInv
<1> DEFINE Step12(t) ==
              \/ Deliver(t) \/ Reuse(t) \/ Lookup(t) \/ Claim(t)
              \/ StartAttempt(t) \/ FinishStep(t) \/ BodyFailsRetry(t)
              \/ Backoff(t) \/ Commit(t) \/ Ack(t) \/ Abort(t) \/ GiveUpStep(t)
<1>1. CASE UNCHANGED vars
  BY <1>0, <1>1 DEF CoverInv, CoverOK, vars
<1>2. ASSUME NEW t \in Tasks, NEW r \in PlanOf[t]
      PROVE  Key(t, r) \in Keys /\ Key(t, r)[2] = r /\ r \in Retailers
  BY DEF Key, Keys
<1>3. ASSUME NEW t \in Tasks, Step12(t), NEW k \in Keys, table[k].status \in Final
      PROVE  table'[k].status \in Final
  BY <1>3, TableChange
<1>4. ASSUME NEW t \in Tasks, NEW u \in Tasks, u # t, Step12(t)
      PROVE  CoverOK(u)'
  <2>1. pc'[u] = pc[u] /\ at'[u] = at[u]
    BY <1>4, OthersStay
  <2>2. \A k \in Keys : lock[k] = u => lock'[k] = u
    BY <1>4, HeldRowsStay
  <2> HIDE DEF Step12
  <2> QED  BY <1>0, <1>2, <1>3, <1>4, <2>1, <2>2 DEF CoverInv, CoverOK, Key
<1>5. ASSUME NEW t \in Tasks,
             Lookup(t) \/ Claim(t) \/ StartAttempt(t) \/ BodyFailsRetry(t) \/ Backoff(t)
      PROVE  CoverOK(t)'
  <2>1. pc'[t] \in InRun /\ pc[t] \in InRun /\ at' = at /\ table' = table
    BY <1>0, <1>5 DEF TypeOK, Lookup, Claim, StartAttempt, BodyFailsRetry, Backoff, InRun
  <2>2. \A k \in Keys : lock[k] = t => lock'[k] = t
    BY <1>0, <1>5 DEF TypeOK, Lookup, Claim, StartAttempt, BodyFailsRetry, Backoff
  <2> QED  BY <1>0, <1>2, <2>1, <2>2 DEF CoverInv, CoverOK, Key
\* The run moves on to q: what it leaves behind is r and what was before it.
<1>6. ASSUME NEW t \in Tasks, NEW r \in 0..NumRetailers, NEW q \in 1..NumRetailers + 1,
             IsNext(t, r, q), GoTo(t, q), table' = table, lock' = lock,
             \A p \in PlanOf[t] : p <= r =>
                \/ lock[Key(t, p)] = t
                \/ table[Key(t, p)].status \in Final
      PROVE  CoverOK(t)'
  <2>1. at'[t] = q /\ pc'[t] \in InRun
    BY <1>0, <1>6, GoToPhase DEF InRun
  <2>2. \A p \in PlanOf[t] : p < q => p <= r
    BY <1>6, NextRetailer
  <2> QED  BY <1>6, <2>1, <2>2 DEF CoverOK, Key
<1>7. ASSUME NEW t \in Tasks, Deliver(t) PROVE CoverOK(t)'
  BY <1>2, <1>6, <1>7 DEF Deliver, Retailers
<1>8. ASSUME NEW t \in Tasks, pc[t] \in InRun, NEW p \in PlanOf[t], p < at[t]
      PROVE  lock[Key(t, p)] = t \/ table[Key(t, p)].status \in Final
  BY <1>0, <1>8 DEF CoverInv, CoverOK, InRun
<1>9. ASSUME NEW t \in Tasks, Reuse(t) PROVE CoverOK(t)'
  <2>1. at[t] \in 1..NumRetailers /\ pc[t] \in InRun
    BY <1>0, <1>9, JobKeyInKeys DEF Reuse, Retailers, InRun
  <2>2. table[Key(t, at[t])].status \in Final
    BY <1>9 DEF Reuse, JobKey, Final
  <2>3. \A p \in PlanOf[t] : p <= at[t] => p < at[t] \/ p = at[t]
    BY <1>2, <2>1 DEF Retailers
  <2> QED  BY <1>6, <1>8, <1>9, <2>1, <2>2, <2>3 DEF Reuse
<1>10. ASSUME NEW t \in Tasks, FinishStep(t) PROVE CoverOK(t)'
  <2>1. at[t] \in 1..NumRetailers /\ pc[t] \in InRun
    BY <1>0, <1>10, JobKeyInKeys DEF FinishStep, Retailers, InRun, Working
  <2>2. lock[Key(t, at[t])] = t
    BY <1>0, <1>10 DEF FinishStep, JobKey, LockInv, Working
  <2>3. \A p \in PlanOf[t] : p <= at[t] => p < at[t] \/ p = at[t]
    BY <1>2, <2>1 DEF Retailers
  <2> QED  BY <1>6, <1>8, <1>10, <2>1, <2>2, <2>3 DEF FinishStep, Finish
<1>11. ASSUME NEW t \in Tasks, Commit(t) PROVE CoverOK(t)'
  <2>1. at[t] = NumRetailers + 1 /\ pc[t] \in InRun
    BY <1>0, <1>11 DEF Commit, PositionInv, InRun
  <2>2. ASSUME NEW r \in PlanOf[t] PROVE table'[Key(t, r)].status \in Final
    <3>1. r < at[t]
      BY <1>2, <2>1 DEF Retailers
    <3>2. CASE lock[Key(t, r)] = t
      BY <1>0, <1>2, <1>11, <3>1, <3>2 DEF Commit, DraftInv, DraftOK
    <3>3. CASE table[Key(t, r)].status \in Final
      BY <1>2, <1>3, <1>11, <3>3
    <3> QED  BY <1>8, <2>1, <3>1, <3>2, <3>3
  <2> QED  BY <2>2 DEF CoverOK, Key
<1>12. ASSUME NEW t \in Tasks, Ack(t) \/ Abort(t) \/ GiveUpStep(t)
       PROVE  CoverOK(t)'
  <2>1. CASE Ack(t)
    BY <1>0, <2>1 DEF TypeOK, Ack, CoverInv, CoverOK, Key, InRun
  <2>2. CASE Abort(t) \/ GiveUpStep(t)
    BY <1>0, <2>2 DEF TypeOK, Abort, GiveUpStep, GiveUp, CoverOK, InRun
  <2> QED  BY <1>12, <2>1, <2>2
<1>13. ASSUME NEW t \in Tasks, Step12(t) PROVE CoverInv'
  <2>1. CoverOK(t)'
    BY <1>5, <1>7, <1>9, <1>10, <1>11, <1>12, <1>13
  <2>2. \A u \in Tasks : u # t => CoverOK(u)'
    BY <1>4, <1>13
  <2> QED  BY <2>1, <2>2 DEF CoverInv
<1> QED  BY <1>0, <1>1, <1>13, NextCases

LEMMA EvidenceStep ==
    ASSUME IInv, Next
    PROVE  EvidenceInv'
<1> USE TasksAssumption
<1>0. /\ TypeOK /\ PositionInv /\ LockInv /\ DraftInv /\ EvidenceInv
      /\ CounterInv /\ CounterInv' /\ TypeOK'
  BY CounterStep, TypeStep DEF IInv
<1> DEFINE Step12(t) ==
              \/ Deliver(t) \/ Reuse(t) \/ Lookup(t) \/ Claim(t)
              \/ StartAttempt(t) \/ FinishStep(t) \/ BodyFailsRetry(t)
              \/ Backoff(t) \/ Commit(t) \/ Ack(t) \/ Abort(t) \/ GiveUpStep(t)
<1>1. CASE UNCHANGED vars
  BY <1>0, <1>1 DEF EvidenceInv, EvidenceOK, RetriesAreRecorded, JobKey, Key, vars
<1>2. ASSUME NEW t \in Tasks, Step12(t) PROVE RetriesAreRecorded'
  <2> SUFFICES ASSUME NEW k \in Keys PROVE errors'[k] >= table'[k].retries
    BY DEF RetriesAreRecorded
  <2>2. CASE table'[k] = table[k] /\ errors'[k] = errors[k]
    BY <1>0, <2>2 DEF EvidenceInv, RetriesAreRecorded
  <2>3. CASE lock[k] = t /\ table'[k] = draft[k] /\ errors'[k] = errors[k] + pending[k]
    BY <1>0, <2>3 DEF EvidenceInv, EvidenceOK
  <2> QED  BY <1>2, <2>2, <2>3, TableChange
<1>3. ASSUME NEW t \in Tasks, NEW u \in Tasks, u # t, Step12(t)
      PROVE  EvidenceOK(u)'
  <2>1. pc'[u] = pc[u] /\ attempt'[u] = attempt[u] /\ JobKey(u)' = JobKey(u)
    BY <1>3, OthersStay
  <2>2. \A k \in Keys : /\ lock'[k] = u <=> lock[k] = u
                        /\ lock[k] = u => /\ draft'[k] = draft[k]
                                          /\ pending'[k] = pending[k]
                                          /\ errors'[k] = errors[k]
    BY <1>3, HeldRowsStay
  <2>3. pc[u] \in Working => JobKey(u) \in Keys /\ lock[JobKey(u)] = u
    BY <1>0, JobKeyInKeys DEF LockInv
  <2> HIDE DEF Step12
  <2> QED  BY <1>0, <2>1, <2>2, <2>3 DEF EvidenceInv, EvidenceOK, Working
<1>4. ASSUME NEW t \in Tasks, Lookup(t) \/ Reuse(t) PROVE EvidenceOK(t)'
  <2>1. UNCHANGED <<errors, lock, draft, pending>>
    BY <1>4 DEF Lookup, Reuse
  <2>2. pc'[t] \in {"claim", "lookup", "commit"}
    BY <1>0, <1>4, GoToPhase DEF TypeOK, Lookup, Reuse
  <2> QED  BY <1>0, <2>1, <2>2 DEF EvidenceInv, EvidenceOK
<1>5. ASSUME NEW t \in Tasks, Claim(t) PROVE EvidenceOK(t)'
  <2>1. /\ lock' = [lock EXCEPT ![JobKey(t)] = t] /\ pc'[t] = "attempt"
        /\ attempt'[t] = 1 /\ UNCHANGED <<errors, pending, table>>
        /\ JobKey(t)' = JobKey(t)
    BY <1>0, <1>5 DEF TypeOK, Claim, JobKey, Key
  <2>2. /\ JobKey(t) \in Keys /\ draft'[JobKey(t)].retries = table[JobKey(t)].retries
        /\ draft' = [draft EXCEPT ![JobKey(t)] = draft'[JobKey(t)]]
    BY <1>5, ClaimRow
  <2>3. errors[JobKey(t)] >= table[JobKey(t)].retries /\ table[JobKey(t)].retries \in Nat
    BY <1>0, <2>2 DEF EvidenceInv, RetriesAreRecorded, TypeOK, Row, NoRow
  <2>4. errors[JobKey(t)] \in Nat /\ pending[JobKey(t)] \in Nat
    BY <1>0, <2>2 DEF TypeOK
  <2>5. ASSUME NEW k \in Keys, lock'[k] = t
        PROVE  errors'[k] + pending'[k] >= draft'[k].retries
    <3>1. CASE k = JobKey(t)
      BY <2>1, <2>2, <2>3, <2>4, <3>1
    <3>2. CASE k # JobKey(t)
      BY <1>0, <2>1, <2>2, <2>5, <3>2 DEF TypeOK, EvidenceInv, EvidenceOK
    <3> QED  BY <3>1, <3>2
  <2> QED  BY <2>1, <2>4, <2>5 DEF EvidenceOK
<1>6. ASSUME NEW t \in Tasks, StartAttempt(t) PROVE EvidenceOK(t)'
  <2>1. /\ lock' = lock /\ pc'[t] = "body" /\ pc[t] = "attempt"
        /\ UNCHANGED <<errors, pending, attempt>>
        /\ JobKey(t)' = JobKey(t)
    BY <1>0, <1>6 DEF TypeOK, StartAttempt, JobKey, Key
  <2>2. /\ JobKey(t) \in Keys
        /\ draft'[JobKey(t)].retries \in {draft[JobKey(t)].retries, attempt[t] - 1}
        /\ draft' = [draft EXCEPT ![JobKey(t)] = draft'[JobKey(t)]]
    BY <1>6, AttemptRow
  <2>3. lock[JobKey(t)] = t
    BY <1>0, <2>1 DEF LockInv, Working
  <2>4. errors[JobKey(t)] \in Nat /\ pending[JobKey(t)] \in Nat /\ attempt[t] \in Nat
    BY <1>0, <2>2 DEF TypeOK
  <2>5. /\ pending[JobKey(t)] + 1 >= attempt[t]
        /\ errors[JobKey(t)] + pending[JobKey(t)] >= draft[JobKey(t)].retries
    BY <1>0, <2>1, <2>2, <2>3 DEF EvidenceInv, EvidenceOK
  <2>6. ASSUME NEW k \in Keys, lock'[k] = t
        PROVE  errors'[k] + pending'[k] >= draft'[k].retries
    <3>1. CASE k = JobKey(t)
      BY <2>1, <2>2, <2>4, <2>5, <3>1
    <3>2. CASE k # JobKey(t)
      BY <1>0, <2>1, <2>2, <2>6, <3>2 DEF TypeOK, EvidenceInv, EvidenceOK
    <3> QED  BY <3>1, <3>2
  <2> QED  BY <2>1, <2>5, <2>6 DEF EvidenceOK
<1>7. ASSUME NEW t \in Tasks, FinishStep(t) PROVE EvidenceOK(t)'
  <2>1. PICK status \in Final, added \in Nat : Finish(t, status, added)
    BY <1>7 DEF FinishStep
  <2>2. pc[t] = "body"
    BY <1>7 DEF FinishStep
  <2>3. pc'[t] \in {"lookup", "commit"}
    BY <1>0, <2>1, GoToPhase DEF Finish
  <2>4. /\ JobKey(t) \in Keys /\ draft'[JobKey(t)].retries = draft[JobKey(t)].retries
        /\ draft' = [draft EXCEPT ![JobKey(t)] = draft'[JobKey(t)]]
        /\ draft'[JobKey(t)] \in Row
    BY <2>1, <2>2, FinishRow
  <2>5. /\ pending' = [pending EXCEPT ![JobKey(t)] = @ + added]
        /\ errors' = errors /\ lock' = lock
    BY <2>1 DEF Finish
  <2>6. ASSUME NEW k \in Keys, lock'[k] = t
        PROVE  errors'[k] + pending'[k] >= draft'[k].retries
    <3>1. /\ errors[k] + pending[k] >= draft[k].retries
          /\ errors[k] \in Nat /\ pending[k] \in Nat
      BY <1>0, <2>5, <2>6 DEF TypeOK, EvidenceInv, EvidenceOK
    <3>2. CASE k = JobKey(t)
      <4>1. pending'[k] = pending[k] + added
        BY <1>0, <2>5, <3>2 DEF TypeOK
      <4>2. draft[k].retries \in Nat
        BY <2>4, <3>2 DEF Row
      <4> QED  BY <2>4, <2>5, <3>1, <3>2, <4>1, <4>2
    <3>3. CASE k # JobKey(t)
      BY <1>0, <2>4, <2>5, <3>1, <3>3 DEF TypeOK
    <3> QED  BY <3>2, <3>3
  <2> QED  BY <2>3, <2>6 DEF EvidenceOK
<1>8. ASSUME NEW t \in Tasks, BodyFailsRetry(t) PROVE EvidenceOK(t)'
  <2>1. /\ pc[t] = "body" /\ pc'[t] = "backoff"
        /\ pending' = [pending EXCEPT ![JobKey(t)] = @ + 1]
        /\ UNCHANGED <<errors, lock, draft, attempt>>
        /\ JobKey(t)' = JobKey(t)
    BY <1>0, <1>8 DEF TypeOK, BodyFailsRetry, JobKey, Key
  <2>2. JobKey(t) \in Keys
    BY <1>0, <2>1, JobKeyInKeys DEF Working
  <2>3. \A k \in Keys : pending[k] \in Nat /\ errors[k] \in Nat /\ attempt[t] \in Nat
    BY <1>0 DEF TypeOK
  <2>4. pending'[JobKey(t)] = pending[JobKey(t)] + 1
        /\ \A k \in Keys : k # JobKey(t) => pending'[k] = pending[k]
    BY <1>0, <2>1, <2>2 DEF TypeOK
  <2>5. pending[JobKey(t)] + 1 >= attempt[t]
    BY <1>0, <2>1 DEF EvidenceInv, EvidenceOK
  <2>6. ASSUME NEW k \in Keys, lock'[k] = t
        PROVE  errors'[k] + pending'[k] >= draft'[k].retries
    <3>1. draft[k].retries \in Nat /\ errors[k] + pending[k] >= draft[k].retries
      BY <1>0, <2>1, <2>6 DEF DraftInv, DraftOK, Row, EvidenceInv, EvidenceOK
    <3>2. pending'[k] = pending[k] \/ pending'[k] = pending[k] + 1
      BY <2>4
    <3> QED  BY <2>1, <2>3, <3>1, <3>2
  <2> QED  BY <2>1, <2>4, <2>5, <2>6 DEF EvidenceOK
<1>9. ASSUME NEW t \in Tasks, Backoff(t) PROVE EvidenceOK(t)'
  <2>1. /\ pc[t] = "backoff" /\ pc'[t] = "attempt" /\ attempt'[t] = attempt[t] + 1
        /\ UNCHANGED <<errors, lock, draft, pending>>
        /\ JobKey(t)' = JobKey(t)
    BY <1>0, <1>9 DEF TypeOK, Backoff, JobKey, Key
  <2>2. JobKey(t) \in Keys /\ attempt[t] \in Nat /\ pending[JobKey(t)] \in Nat
    BY <1>0, <2>1, JobKeyInKeys DEF TypeOK, Working
  <2> QED  BY <1>0, <2>1, <2>2 DEF EvidenceInv, EvidenceOK
<1>10. ASSUME NEW t \in Tasks,
              Deliver(t) \/ Commit(t) \/ Ack(t) \/ Abort(t) \/ GiveUpStep(t)
       PROVE  EvidenceOK(t)'
  <2>1. \A k \in Keys : lock'[k] # t
    BY <1>0, <1>10
       DEF Deliver, Commit, Ack, Abort, GiveUpStep, GiveUp, Release, LockInv, InRun
  <2>2. pc'[t] \notin Working
    <3>1. CASE Deliver(t)
      BY <1>0, <3>1, GoToPhase DEF Deliver, Working
    <3>2. CASE Commit(t) \/ Ack(t) \/ Abort(t) \/ GiveUpStep(t)
      BY <1>0, <3>2 DEF TypeOK, Commit, Ack, Abort, GiveUpStep, GiveUp, Working
    <3> QED  BY <1>10, <3>1, <3>2
  <2> QED  BY <2>1, <2>2 DEF EvidenceOK, Working
<1>11. ASSUME NEW t \in Tasks, Step12(t) PROVE EvidenceInv'
  <2>1. EvidenceOK(t)'
    BY <1>4, <1>5, <1>6, <1>7, <1>8, <1>9, <1>10, <1>11
  <2>2. \A u \in Tasks : u # t => EvidenceOK(u)'
    BY <1>3, <1>11
  <2>3. RetriesAreRecorded'
    BY <1>2, <1>11
  <2> QED  BY <2>1, <2>2, <2>3 DEF EvidenceInv
<1> QED  BY <1>0, <1>1, <1>11, NextCases

-----------------------------------------------------------------------------
\* IInv is inductive: it holds initially and every step keeps it, for every set
\* of tasks, plan and bound (the whole of workers/tasks.py and orchestrator.py).
THEOREM InductiveInvariant == Spec => []IInv
<1>1. Init => IInv
  BY InitIInv
<1>2. IInv /\ [Next]_vars => IInv'
  <2> SUFFICES ASSUME IInv, [Next]_vars PROVE IInv'
    OBVIOUS
  <2>1. CASE Next
    BY <2>1, TypeStep, FinalStep, PositionStep, CounterStep, LockStep, DraftStep,
       CoverStep, EvidenceStep DEF IInv
  <2>2. CASE UNCHANGED vars
    <3>1. UNCHANGED <<table, errors, lock, draft, pending, pc, at, attempt, job,
                      report, deliveries>>
      BY <2>2 DEF vars
    <3> QED
      BY <3>1 DEF IInv, TypeOK, CommittedRowsAreFinal, PositionInv, CounterInv, LockInv,
         DraftInv, DraftOK, CoverInv, CoverOK, EvidenceInv, EvidenceOK,
         RetriesAreRecorded, JobKey, Key
  <2> QED  BY <2>1, <2>2
<1> QED  BY <1>1, <1>2, PTL DEF Spec

\* The state of every run and of the two tables is well typed.
THEOREM TypeCorrect == Spec => []TypeOK
<1>1. IInv => TypeOK
  BY DEF IInv
<1> QED  BY <1>1, InductiveInvariant, PTL

\* No reader ever meets a PENDING or RUNNING collection_jobs row.
THEOREM CommittedRowsFinal == Spec => []CommittedRowsAreFinal
<1>1. IInv => CommittedRowsAreFinal
  BY DEF IInv
<1> QED  BY <1>1, InductiveInvariant, PTL

\* Every retry a committed row counts has its collection_errors row.
THEOREM RetriesRecorded == Spec => []RetriesAreRecorded
<1>1. IInv => RetriesAreRecorded
  BY DEF IInv, EvidenceInv
<1> QED  BY <1>1, InductiveInvariant, PTL

\* What a run reports for a retailer it executed is what its row says.
THEOREM ReportMatches == Spec => []ReportMatchesDraft
<1>1. IInv => ReportMatchesDraft
  <2> SUFFICES ASSUME IInv, NEW t \in Tasks, NEW r \in Retailers,
                      lock[Key(t, r)] = t, r < at[t]
               PROVE  draft[Key(t, r)].status = report[t][r]
    BY DEF ReportMatchesDraft
  <2>1. Key(t, r) \in Keys /\ Key(t, r)[2] = r
    BY PlanAssumption DEF Key, Keys
  <2> QED  BY <2>1 DEF IInv, DraftInv, DraftOK
<1> QED  BY <1>1, InductiveInvariant, PTL

\* A committed run leaves a finished row for every retailer of its plan.
THEOREM CommittedRunComplete == Spec => []CommittedRunIsComplete
<1>1. IInv => CommittedRunIsComplete
  BY DEF IInv, CoverInv, CoverOK, InRun, CommittedRunIsComplete
<1> QED  BY <1>1, InductiveInvariant, PTL

\* Runs that wait for rows of each other never wait in a circle.
THEOREM NoWaitCycles == Spec => []NoWaitCycle
<1>1. IInv => NoWaitCycle
  <2> SUFFICES ASSUME IInv, NEW a \in Tasks, NEW b \in Tasks, WaitsFor(a, b), pc[b] = "claim"
               PROVE  at[a] < at[b]
    BY DEF NoWaitCycle
  <2>1. pc[a] = "claim" /\ lock[JobKey(a)] = b
    BY DEF WaitsFor
  <2>2. JobKey(a) \in Keys /\ JobKey(a)[2] = at[a]
    BY <2>1, JobKeyInKeys DEF IInv
  <2> QED  BY <2>1, <2>2 DEF IInv, LockInv
<1> QED  BY <1>1, InductiveInvariant, PTL

-----------------------------------------------------------------------------
(* The aggregate result of a run agrees with the rows it commits, and the  *)
(* collection tasks implement RunLedger.                                   *)

\* One of the twelve kinds of step of a task (NextCases).
TaskStep(t) ==
    \/ Deliver(t) \/ Reuse(t) \/ Lookup(t) \/ Claim(t)
    \/ StartAttempt(t) \/ FinishStep(t) \/ BodyFailsRetry(t)
    \/ Backoff(t) \/ Commit(t) \/ Ack(t) \/ Abort(t) \/ GiveUpStep(t)

LEMMA NextIsTaskStep ==
    ASSUME IInv, Next
    PROVE  (\E t \in Tasks : TaskStep(t)) \/ UNCHANGED vars
BY NextCases DEF IInv, TaskStep

LEMMA PlanKeyInKeys ==
    ASSUME NEW t \in Tasks, NEW r \in PlanOf[t]
    PROVE  Key(t, r) \in Keys /\ Key(t, r)[2] = r /\ r \in Retailers
BY PlanAssumption DEF Key, Keys

-----------------------------------------------------------------------------
LEMMA ReuseStep ==
    ASSUME IInv, ReuseInv, Next
    PROVE  ReuseInv'
<1> USE TasksAssumption, RetailerAssumption, PlanAssumption
<1>0. TypeOK /\ PositionInv /\ LockInv
  BY DEF IInv
<1>1. CASE UNCHANGED vars
  BY <1>0, <1>1 DEF ReuseInv, ReuseOK, vars, Key
<1>2. ASSUME NEW t \in Tasks, NEW u \in Tasks, u # t, TaskStep(t)
      PROVE  ReuseOK(u)'
  <2>1. pc'[u] = pc[u] /\ at'[u] = at[u] /\ report'[u] = report[u]
    BY <1>2, OthersStay DEF TaskStep
  <2>2. \A k \in Keys : lock[k] = u => lock'[k] = u
    BY <1>2, HeldRowsStay DEF TaskStep
  <2> QED  BY PlanKeyInKeys, <2>1, <2>2 DEF ReuseInv, ReuseOK, Key
<1>3. ASSUME NEW t \in Tasks,
             Lookup(t) \/ Claim(t) \/ StartAttempt(t) \/ BodyFailsRetry(t) \/ Backoff(t)
      PROVE  ReuseOK(t)'
  <2>1. pc[t] \in InRun /\ at' = at /\ report' = report
    BY <1>3 DEF Lookup, Claim, StartAttempt, BodyFailsRetry, Backoff, InRun
  <2>2. \A k \in Keys : lock[k] = t => lock'[k] = t
    BY <1>0, <1>3 DEF TypeOK, Lookup, Claim, StartAttempt, BodyFailsRetry, Backoff
  <2> QED  BY PlanKeyInKeys, <2>1, <2>2 DEF ReuseInv, ReuseOK, Key
\* The run moves on to q: what it leaves behind is r and what was before it.
<1>4. ASSUME NEW t \in Tasks, NEW r \in 0..NumRetailers, NEW q \in 1..NumRetailers + 1,
             IsNext(t, r, q), GoTo(t, q), lock' = lock,
             \A p \in PlanOf[t] : p <= r =>
                lock[Key(t, p)] = t \/ report'[t][p] \in TerminalSuccess
      PROVE  ReuseOK(t)'
  <2>1. at'[t] = q
    BY <1>0, <1>4, GoToPhase
  <2>2. \A p \in PlanOf[t] : p < q => p <= r
    BY <1>4, NextRetailer
  <2> QED  BY <1>4, <2>1, <2>2 DEF ReuseOK, Key
<1>5. CASE \E t \in Tasks : TaskStep(t)
  <2>1. PICK t \in Tasks : TaskStep(t)
    BY <1>5
  <2>2. ASSUME Deliver(t) PROVE ReuseOK(t)'
    BY PlanKeyInKeys, <1>4, <2>2 DEF Deliver, Retailers
  <2>3. ASSUME Reuse(t) \/ FinishStep(t) PROVE ReuseOK(t)'
    <3>1. /\ at[t] \in 1..NumRetailers /\ at[t] \in PlanOf[t] /\ pc[t] \in InRun
          /\ \E status \in Final : report' = [report EXCEPT ![t][at[t]] = status]
          /\ lock' = lock
      BY <1>0, <2>3, JobKeyInKeys
         DEF Reuse, FinishStep, Finish, Retailers, InRun, Working, Final
    <3>2. lock[Key(t, at[t])] = t \/ report'[t][at[t]] \in TerminalSuccess
      <4>1. CASE Reuse(t)
        BY <1>0, <3>1, <4>1 DEF Reuse, TypeOK, Retailers
      <4>2. CASE FinishStep(t)
        BY <1>0, <4>2 DEF FinishStep, JobKey, LockInv, Working
      <4> QED  BY <2>3, <4>1, <4>2
    <3>3. \A p \in PlanOf[t] : p < at[t] =>
             lock[Key(t, p)] = t \/ report'[t][p] \in TerminalSuccess
      BY <1>0, PlanKeyInKeys, <3>1 DEF ReuseInv, ReuseOK, TypeOK, Retailers
    <3>4. \A p \in PlanOf[t] : p <= at[t] =>
             lock[Key(t, p)] = t \/ report'[t][p] \in TerminalSuccess
      BY PlanKeyInKeys, <3>1, <3>2, <3>3 DEF Retailers
    <3>5. PICK q \in 1..NumRetailers + 1 : IsNext(t, at[t], q) /\ GoTo(t, q)
      BY <2>3 DEF Reuse, FinishStep, Finish
    <3> QED  BY <1>4, <3>1, <3>4, <3>5
  <2>4. ASSUME Commit(t) \/ Ack(t) \/ Abort(t) \/ GiveUpStep(t) PROVE ReuseOK(t)'
    BY <1>0, <2>4 DEF TypeOK, Commit, Ack, Abort, GiveUpStep, GiveUp, ReuseOK, InRun
  <2>5. ReuseOK(t)'
    BY <1>3, <2>1, <2>2, <2>3, <2>4 DEF TaskStep
  <2> QED  BY <1>2, <2>1, <2>5 DEF ReuseInv
<1> QED  BY <1>1, <1>5, NextIsTaskStep

\* What a run reused it reported as a success: the companion of IInv.
THEOREM ReusedWasSuccess == Spec => []ReuseInv
<1>1. Init => ReuseInv
  BY DEF Init, ReuseInv, ReuseOK, InRun
<1>2. IInv /\ ReuseInv /\ [Next]_vars => ReuseInv'
  <2> SUFFICES ASSUME IInv, ReuseInv, [Next]_vars PROVE ReuseInv'
    OBVIOUS
  <2>1. CASE UNCHANGED vars
    BY <2>1 DEF ReuseInv, ReuseOK, vars, Key
  <2> QED  BY <2>1, ReuseStep
<1> QED  BY <1>1, <1>2, InductiveInvariant, PTL DEF Spec

\* The status a task returns agrees with the rows it commits
\* (CollectionRunResult.status over results run and reused).
THEOREM ResultMatches == Spec => []ResultMatchesRows
<1>1. IInv /\ ReuseInv => ResultMatchesRows
  <2> SUFFICES ASSUME IInv, ReuseInv, NEW t \in Tasks, pc[t] = "commit"
               PROVE  LET held == {r \in Retailers : lock[Key(t, r)] = t}
                          rows == {draft[Key(t, r)].status : r \in held}
                      IN  /\ RunStatus(t) = "failed" <=>
                                held = PlanOf[t] /\ rows = {"failed"}
                          /\ RunStatus(t) = "success" => rows \subseteq {"success"}
    BY DEF ResultMatchesRows
  <2> DEFINE held     == {r \in Retailers : lock[Key(t, r)] = t}
             rows     == {draft[Key(t, r)].status : r \in held}
             statuses == {report[t][r] : r \in PlanOf[t]}
  <2>0. \A r \in Retailers : Key(t, r) \in Keys /\ Key(t, r)[2] = r /\ r < at[t]
    BY PlanAssumption, RetailerAssumption DEF Key, Keys, IInv, PositionInv, Retailers
  <2>1. \A r \in held : /\ r \in PlanOf[t]
                        /\ draft[Key(t, r)].status = report[t][r]
                        /\ report[t][r] \in Final
    BY <2>0 DEF IInv, LockInv, DraftInv, DraftOK
  <2>2. \A r \in PlanOf[t] : r \in held \/ report[t][r] \in TerminalSuccess
    BY <2>0, PlanKeyInKeys DEF ReuseInv, ReuseOK, InRun
  <2>3. statuses \subseteq Final
    BY <2>1, <2>2 DEF Final
  <2>4. rows \subseteq statuses
    BY <2>1
  <2>5. RunStatus(t) = IF statuses \subseteq {"success"} THEN "success"
                       ELSE IF statuses \cap TerminalSuccess = {} THEN "failed"
                       ELSE "partial_success"
    BY DEF RunStatus
  <2>6. RunStatus(t) = "success" => rows \subseteq {"success"}
    BY <2>4, <2>5
  <2>7. ASSUME RunStatus(t) = "failed"
        PROVE  held = PlanOf[t] /\ rows = {"failed"}
    <3>1. statuses \cap TerminalSuccess = {} /\ ~(statuses \subseteq {"success"})
      BY <2>5, <2>7
    <3>2. \A r \in PlanOf[t] : r \in held /\ report[t][r] = "failed"
      BY <2>2, <2>3, <3>1 DEF Final
    <3>3. held = PlanOf[t]
      BY <2>1, <3>2
    <3>4. PICK r \in PlanOf[t] : report[t][r] # "success"
      BY <3>1
    <3>5. rows = {"failed"}
      BY <2>1, <3>2, <3>4
    <3> QED  BY <3>3, <3>5
  <2>8. ASSUME held = PlanOf[t], rows = {"failed"}
        PROVE  RunStatus(t) = "failed"
    <3>1. \A r \in PlanOf[t] : report[t][r] \in rows
      BY <2>1, <2>8
    <3>2. statuses = {"failed"}
      BY <2>4, <2>8, <3>1
    <3> QED  BY <2>5, <3>2 DEF TerminalSuccess
  <2> HIDE DEF held, rows, statuses
  <2>9. RunStatus(t) = "failed" <=> held = PlanOf[t] /\ rows = {"failed"}
    BY <2>7, <2>8
  <2> QED  BY <2>6, <2>9 DEF held, rows
<1> QED  BY <1>1, InductiveInvariant, ReusedWasSuccess, PTL

-----------------------------------------------------------------------------
LEMMA InitIsLedgerInit == Init => Ledger!Init
<1> SUFFICES ASSUME Init PROVE Ledger!Init
  OBVIOUS
<1> USE TasksAssumption DEF Init
<1>1. RowStatus = [k \in Keys |-> "absent"]
  BY DEF RowStatus, NoRow
<1>2. RowsHeld = [t \in Tasks |-> {}] /\ RowsTodo = [t \in Tasks |-> {}]
  BY DEF RowsHeld, RowsTodo
<1>3. RunState = [t \in Tasks |-> "open"]
  BY DEF RunState
<1> QED  BY <1>1, <1>2, <1>3 DEF Ledger!Init

\* What one task does leaves the other tasks' part of the ledger alone.
LEMMA OthersInLedger ==
    ASSUME IInv, NEW t \in Tasks, TaskStep(t), NEW u \in Tasks, u # t
    PROVE  /\ RowsHeld'[u] = RowsHeld[u]
           /\ RowsTodo'[u] = RowsTodo[u]
           /\ RunState'[u] = RunState[u]
<1>1. pc'[u] = pc[u] /\ JobKey(u)' = JobKey(u)
  BY OthersStay DEF TaskStep
<1>2. \A k \in Keys : lock'[k] = u <=> lock[k] = u
  BY HeldRowsStay DEF TaskStep
<1> QED  BY <1>1, <1>2 DEF RowsHeld, RowsTodo, RunState

LEMMA ChangeAtOne ==
    ASSUME NEW S, NEW f, NEW g, f = [s \in S |-> f[s]], g = [s \in S |-> g[s]],
           NEW t \in S, \A u \in S : u # t => g[u] = f[u]
    PROVE  g = [f EXCEPT ![t] = g[t]]
OBVIOUS

\* The three functions of the mapping change at t only.
LEMMA LedgerChange ==
    ASSUME IInv, NEW t \in Tasks, TaskStep(t)
    PROVE  /\ RowsHeld' = [RowsHeld EXCEPT ![t] = RowsHeld'[t]]
           /\ RowsTodo' = [RowsTodo EXCEPT ![t] = RowsTodo'[t]]
           /\ RunState' = [RunState EXCEPT ![t] = RunState'[t]]
<1>1. \A u \in Tasks : u # t => /\ RowsHeld'[u] = RowsHeld[u]
                                /\ RowsTodo'[u] = RowsTodo[u]
                                /\ RunState'[u] = RunState[u]
  BY OthersInLedger
<1>2. RowsHeld = [u \in Tasks |-> RowsHeld[u]] /\ RowsHeld' = [u \in Tasks |-> RowsHeld'[u]]
  BY DEF RowsHeld
<1>3. RowsTodo = [u \in Tasks |-> RowsTodo[u]] /\ RowsTodo' = [u \in Tasks |-> RowsTodo'[u]]
  BY DEF RowsTodo
<1>4. RunState = [u \in Tasks |-> RunState[u]] /\ RunState' = [u \in Tasks |-> RunState'[u]]
  BY DEF RunState
<1>5. RowsHeld' = [RowsHeld EXCEPT ![t] = RowsHeld'[t]]
  BY <1>1, <1>2, ChangeAtOne
<1>6. RowsTodo' = [RowsTodo EXCEPT ![t] = RowsTodo'[t]]
  BY <1>1, <1>3, ChangeAtOne
<1>7. RunState' = [RunState EXCEPT ![t] = RunState'[t]]
  BY <1>1, <1>4, ChangeAtOne
<1> QED  BY <1>5, <1>6, <1>7

\* Steps that neither decide, claim nor end a run are invisible.
LEMMA InvisibleSteps ==
    ASSUME IInv, NEW t \in Tasks, TaskStep(t),
           \/ Deliver(t) \/ Reuse(t) \/ StartAttempt(t) \/ FinishStep(t)
           \/ BodyFailsRetry(t) \/ Backoff(t) \/ Ack(t) \/ Abort(t)
    PROVE  UNCHANGED Ledger!vars
<1>0. TypeOK
  BY DEF IInv
<1>1. lock' = lock /\ table' = table
  BY DEF Deliver, Reuse, StartAttempt, FinishStep, Finish, BodyFailsRetry, Backoff,
         Ack, Abort
<1>2. /\ pc[t] # "claim" /\ pc'[t] # "claim"
      /\ pc[t] \in {"acking", "done"} <=> pc'[t] \in {"acking", "done"}
      /\ pc[t] \in {"abort", "failed", "lost"} <=> pc'[t] \in {"abort", "failed", "lost"}
  <2>1. CASE Deliver(t) \/ Reuse(t) \/ FinishStep(t)
    BY <1>0, <2>1, GoToPhase DEF Deliver, Reuse, FinishStep, Finish
  <2>2. CASE StartAttempt(t) \/ BodyFailsRetry(t) \/ Backoff(t) \/ Ack(t) \/ Abort(t)
    BY <1>0, <2>2 DEF TypeOK, StartAttempt, BodyFailsRetry, Backoff, Ack, Abort
  <2> QED  BY <2>1, <2>2
<1>3. RowStatus' = RowStatus
  BY <1>1 DEF RowStatus
<1>4. RowsHeld' = RowsHeld
  BY <1>1 DEF RowsHeld
<1>5. RowsTodo'[t] = RowsTodo[t] /\ RunState'[t] = RunState[t]
  BY <1>1, <1>2 DEF RowsTodo, RunState
<1>6. RowsTodo' = RowsTodo /\ RunState' = RunState
  BY <1>5, OthersInLedger DEF RowsTodo, RunState
<1> QED  BY <1>3, <1>4, <1>6 DEF Ledger!vars

\* A look-up that finds no success decides on the key.
LEMMA LookupDecides ==
    ASSUME IInv, NEW t \in Tasks, Lookup(t)
    PROVE  Ledger!Decide(t, JobKey(t))
<1> USE PlanAssumption
<1>0. TypeOK /\ PositionInv
  BY DEF IInv
<1>1. TaskStep(t)
  BY DEF TaskStep
<1>2. JobKey(t) \in Keys /\ JobKey(t) \in {Key(t, r) : r \in PlanOf[t]}
  BY <1>0, JobKeyInKeys DEF Lookup, JobKey
<1>3. RunState[t] = "open" /\ RunState'[t] = "open"
  BY <1>0 DEF RunState, Lookup, TypeOK
<1>4. RowStatus[JobKey(t)] \notin Ledger!Success
  BY <1>2 DEF RowStatus, Lookup, Ledger!Success, TerminalSuccess
<1>5. RowsHeld' = RowsHeld /\ RowStatus' = RowStatus
  BY DEF RowsHeld, RowStatus, Lookup
<1>6. RowsTodo'[t] = RowsTodo[t] \cup {JobKey(t)}
  <2>1. JobKey(t)' = JobKey(t) /\ lock' = lock /\ pc[t] # "claim" /\ pc'[t] = "claim"
    BY <1>0 DEF JobKey, Key, Lookup, TypeOK
  <2> QED  BY <1>2, <2>1 DEF RowsTodo
<1>7. RunState' = RunState
  BY <1>1, <1>3, OthersInLedger DEF RunState
<1> QED  BY <1>1, <1>2, <1>3, <1>4, <1>5, <1>6, <1>7, LedgerChange DEF Ledger!Decide

\* The flush that claims the row takes the key.
LEMMA ClaimTakes ==
    ASSUME IInv, NEW t \in Tasks, Claim(t)
    PROVE  Ledger!Take(t, JobKey(t))
<1> USE TasksAssumption
<1>0. TypeOK /\ PositionInv
  BY DEF IInv
<1>1. TaskStep(t)
  BY DEF TaskStep
<1>2. JobKey(t) \in Keys
  BY <1>0, JobKeyInKeys DEF Claim
<1>3. /\ pc[t] = "claim" /\ pc'[t] = "attempt" /\ lock[JobKey(t)] = NoTask
      /\ lock' = [lock EXCEPT ![JobKey(t)] = t] /\ table' = table
  BY <1>0 DEF Claim, TypeOK
<1>4. JobKey(t) \in RowsTodo[t]
  BY <1>2, <1>3 DEF RowsTodo
<1>5. \A u \in Tasks : JobKey(t) \notin RowsHeld[u]
  BY <1>3 DEF RowsHeld
<1>6. \A k \in Keys : lock'[k] = t <=> lock[k] = t \/ k = JobKey(t)
  BY <1>0, <1>2, <1>3 DEF TypeOK
<1>7. RowsHeld'[t] = RowsHeld[t] \cup {JobKey(t)}
  BY <1>2, <1>6 DEF RowsHeld
<1>8. RowsTodo'[t] = RowsTodo[t] /\ RunState'[t] = RunState[t]
  BY <1>3, <1>6 DEF RowsTodo, RunState
<1>9. RowsTodo' = RowsTodo /\ RunState' = RunState /\ RowStatus' = RowStatus
  BY <1>3, <1>8, OthersInLedger, <1>1 DEF RowsTodo, RunState, RowStatus
<1> QED  BY <1>1, <1>4, <1>5, <1>7, <1>9, LedgerChange DEF Ledger!Take

\* The session commit publishes what the run holds.
LEMMA CommitPublishes ==
    ASSUME IInv, IInv', NEW t \in Tasks, Commit(t)
    PROVE  Ledger!Publish(t)
<1> USE TasksAssumption
<1>0. TypeOK /\ CommittedRowsAreFinal' /\ CoverInv' /\ TypeOK'
  BY DEF IInv
<1>1. TaskStep(t)
  BY DEF TaskStep
<1>2. /\ pc[t] = "commit" /\ pc'[t] = "acking"
      /\ \A k \in Keys : lock'[k] # t
  BY <1>0 DEF Commit, Release, TypeOK
<1>3. RunState[t] = "open" /\ RunState'[t] = "published"
  BY <1>2 DEF RunState
<1>4. RowsHeld[t] = RowsTodo[t] /\ RowsHeld'[t] = {} /\ RowsTodo'[t] = {}
  BY <1>2 DEF RowsHeld, RowsTodo
<1>5. \A k \in Keys : RowStatus'[k] \in Ledger!Final \cup {"absent"}
  BY <1>0 DEF RowStatus, CommittedRowsAreFinal, NoRow, Ledger!Final, Ledger!Success,
              Final, TerminalSuccess
<1>6. \A k \in Keys : IF k \in RowsHeld[t] THEN RowStatus'[k] \in Ledger!Final
                                            ELSE RowStatus'[k] = RowStatus[k]
  <2>1. \A k \in Keys : lock[k] # t => table'[k] = table[k]
    BY DEF Commit
  <2>2. \A k \in Keys : lock[k] = t => table'[k].status \in Final
    <3>1. \A k \in Keys : lock[k] = t => k[2] < at[t]
      BY RetailerAssumption DEF IInv, PositionInv, Commit, Keys, Retailers
    <3> QED  BY <3>1 DEF Commit, IInv, DraftInv, DraftOK
  <2> QED  BY <2>1, <2>2 DEF RowsHeld, RowStatus, Ledger!Final, Ledger!Success, Final,
                             TerminalSuccess
<1>7. \A k \in {Key(t, r) : r \in PlanOf[t]} : RowStatus'[k] \in Ledger!Final
  <2>1. \A r \in PlanOf[t] : table'[Key(t, r)].status \in Final
    BY <1>0, <1>2 DEF CoverInv, CoverOK, InRun, Key
  <2> QED  BY <2>1, PlanKeyInKeys DEF RowStatus, Ledger!Final, Ledger!Success, Final,
                                      TerminalSuccess
<1>8. RowStatus' \in [Keys -> Ledger!Final \cup {"absent"}]
  BY <1>5 DEF RowStatus
<1>9. RowsHeld' = [RowsHeld EXCEPT ![t] = {}] /\ RowsTodo' = [RowsTodo EXCEPT ![t] = {}]
  BY <1>1, <1>4, LedgerChange
<1>10. RunState' = [RunState EXCEPT ![t] = "published"]
  BY <1>1, <1>3, LedgerChange
<1> QED  BY <1>3, <1>4, <1>6, <1>7, <1>8, <1>9, <1>10 DEF Ledger!Publish

\* A run that is given up drops what it held.
LEMMA GiveUpDrops ==
    ASSUME IInv, NEW t \in Tasks, GiveUpStep(t)
    PROVE  Ledger!Drop(t)
<1> USE TasksAssumption
<1>0. TypeOK
  BY DEF IInv
<1>1. TaskStep(t)
  BY DEF TaskStep
<1>2. /\ pc'[t] \in {"queued", "abort", "failed", "lost"}
      /\ \A k \in Keys : lock'[k] # t
      /\ table' = table
  BY <1>0 DEF GiveUpStep, GiveUp, Release, TypeOK
<1>3. RowsHeld'[t] = {} /\ RowsTodo'[t] = {} /\ RowStatus' = RowStatus
  BY <1>2 DEF RowsHeld, RowsTodo, RowStatus
<1>4. RunState'[t] \in {"open", "dropped"}
  BY <1>2 DEF RunState
<1>5. RowsHeld' = [RowsHeld EXCEPT ![t] = {}] /\ RowsTodo' = [RowsTodo EXCEPT ![t] = {}]
  BY <1>1, <1>3, LedgerChange
<1>6. \E s \in {"open", "dropped"} : RunState' = [RunState EXCEPT ![t] = s]
  BY <1>1, <1>4, LedgerChange
<1> QED  BY <1>3, <1>5, <1>6 DEF Ledger!Drop

\* The collection_jobs table, read by anybody at any time, is a ledger of whole
\* runs (the single commit of workers/tasks.py over the flushes of the
\* orchestrator).
THEOREM TasksImplementLedger == Spec => ImplementsLedger
<1>1. Init => Ledger!Init
  BY InitIsLedgerInit
<1>2. IInv /\ IInv' /\ [Next]_vars => [Ledger!Next]_(Ledger!vars)
  <2> SUFFICES ASSUME IInv, IInv', [Next]_vars
               PROVE  Ledger!Next \/ UNCHANGED Ledger!vars
    OBVIOUS
  <2>1. CASE UNCHANGED vars
    BY <2>1 DEF vars, Ledger!vars, RowStatus, RowsHeld, RowsTodo, RunState, JobKey, Key
  <2>2. ASSUME NEW t \in Tasks, TaskStep(t)
        PROVE  Ledger!Next \/ UNCHANGED Ledger!vars
    <3>1. CASE Lookup(t) \/ Claim(t)
      <4>1. JobKey(t) \in Keys
        BY <3>1, JobKeyInKeys DEF IInv, Lookup, Claim
      <4> QED  BY <3>1, <4>1, LookupDecides, ClaimTakes DEF Ledger!Next
    <3>2. CASE Commit(t)
      BY <3>2, CommitPublishes DEF Ledger!Next
    <3>3. CASE GiveUpStep(t)
      BY <3>3, GiveUpDrops DEF Ledger!Next
    <3> QED  BY <2>2, <3>1, <3>2, <3>3, InvisibleSteps DEF TaskStep
  <2> QED  BY <2>1, <2>2, NextIsTaskStep
<1> QED  BY <1>1, <1>2, InductiveInvariant, PTL DEF Spec, ImplementsLedger, Ledger!Spec
=============================================================================
