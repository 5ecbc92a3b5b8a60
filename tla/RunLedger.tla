------------------------------ MODULE RunLedger ------------------------------
(***************************************************************************)
(* What the collection pipeline promises to whoever reads collection_jobs: *)
(* a ledger of finished retailer jobs, written one whole run at a time.    *)
(*                                                                         *)
(*  - A run decides which of its keys it has to work on by finding them    *)
(*    without a success; it writes exactly those keys, in one step.        *)
(*  - Afterwards every key of its plan has a final status.                 *)
(*  - A run that is given up leaves no trace, and nothing is ever deleted. *)
(*  - Two runs never have a key written but not yet visible at once        *)
(*    (`held`), although both may have decided to work on it.              *)
(***************************************************************************)

CONSTANTS
    Runs,      \* the runs
    Keys,      \* idempotency keys
    PlanKeys   \* the keys each run covers

VARIABLES
    ledger,   \* the status of every key
    todo,     \* the keys each run has decided to work on
    held,     \* those of them it has taken for itself
    state     \* of each run

vars == <<ledger, todo, held, state>>

Success == {"success", "partial_success"}
Final   == Success \cup {"failed"}

Init ==
    /\ ledger = [k \in Keys |-> "absent"]
    /\ todo = [t \in Runs |-> {}]
    /\ held = [t \in Runs |-> {}]
    /\ state = [t \in Runs |-> "open"]

\* The run finds a key of its plan without a success.
Decide(t, k) ==
    /\ state[t] = "open"
    /\ k \in PlanKeys[t]
    /\ ledger[k] \notin Success
    /\ todo' = [todo EXCEPT ![t] = @ \cup {k}]
    /\ UNCHANGED <<ledger, held, state>>

\* It takes the key, unless another run has it.
Take(t, k) ==
    /\ k \in todo[t]
    /\ \A u \in Runs : k \notin held[u]
    /\ held' = [held EXCEPT ![t] = @ \cup {k}]
    /\ UNCHANGED <<ledger, todo, state>>

\* The whole run becomes visible: all it decided to work on, and only that.
Publish(t) ==
    /\ state[t] = "open"
    /\ held[t] = todo[t]
    /\ ledger' \in [Keys -> Final \cup {"absent"}]
    /\ \A k \in Keys : IF k \in held[t] THEN ledger'[k] \in Final
                                        ELSE ledger'[k] = ledger[k]
    /\ \A k \in PlanKeys[t] : ledger'[k] \in Final
    /\ todo' = [todo EXCEPT ![t] = {}]
    /\ held' = [held EXCEPT ![t] = {}]
    /\ state' = [state EXCEPT ![t] = "published"]

\* The run is given up, for good or to be run again, or, its result published
\* but not acknowledged, it is delivered a second time.
Drop(t) ==
    /\ todo' = [todo EXCEPT ![t] = {}]
    /\ held' = [held EXCEPT ![t] = {}]
    /\ \E s \in {"open", "dropped"} : state' = [state EXCEPT ![t] = s]
    /\ UNCHANGED ledger

Next ==
    \E t \in Runs :
        \/ \E k \in Keys : Decide(t, k) \/ Take(t, k)
        \/ Publish(t)
        \/ Drop(t)

Spec == Init /\ [][Next]_vars
=============================================================================
