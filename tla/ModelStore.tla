----------------------------- MODULE ModelStore -----------------------------
(***************************************************************************)
(* The trained sale price models on disk (src/ml): training scripts that   *)
(* save a model as three files of a directory of its own and then point    *)
(* latest.json to it, and prediction requests that find a model and load   *)
(* its files one by one.  Nothing locks the files, opening one for writing *)
(* empties it, and a training may die between any two steps.               *)
(*                                                                         *)
(* The content of a file is the training that wrote it.  SalePrediction    *)
(* has what a model is trained on and what it is asked.                    *)
(***************************************************************************)
EXTENDS Naturals, Sequences

CONSTANTS
    Trainers,          \* runs of scripts/train_sale_price_model.py
    Requests,          \* calls of predict_product
    FeatureVersionOf,  \* FEATURE_VERSION of the code each training runs
    ServedVersion,     \* FEATURE_VERSION of the serving code
    None, Torn,
    MaxClock           \* bound: seconds

ASSUME ClockAssumption == MaxClock \in Nat

\* Nothing that is written, said or trained is the absence of it.
ASSUME NoneAssumption ==
    /\ None # Torn /\ {None, Torn} \cap Trainers = {}
    /\ \A t \in Trainers, second \in 0..MaxClock :
          <<FeatureVersionOf[t], second>> \notin {None, Torn}
    /\ None \notin {"error", "PREDICTED", "INSUFFICIENT_DATA", "no_trained_model"}

VARIABLES
    clock,     \* in the seconds of make_model_version
    files,     \* the files of each version: a training, Torn, or None if absent
    latest,    \* latest.json: a version, Torn, or None if absent
    trainers,
    requests

vars == <<clock, files, latest, trainers, requests>>

Versions == {<<FeatureVersionOf[t], second>> : t \in Trainers, second \in 0..MaxClock}

Files == {"model", "preprocessor", "metadata"}

\* Mutant: the pointer is written first.
MutSteps == <<"latest", "model", "preprocessor", "metadata">>

\* save_artifact: what it writes, in this order.
Steps == <<"model", "preprocessor", "metadata", "latest">>

\* load_model: the booster, then read_preprocessor and read_metadata.
Loads == <<"model", "preprocessor", "metadata">>

Init ==
    /\ clock = 0
    /\ files = [v \in Versions |-> [f \in Files |-> None]]
    /\ latest = None
    /\ trainers = [t \in Trainers |-> [pc |-> "idle", version |-> None,
                                       step |-> 1, open |-> FALSE]]
    /\ requests = [q \in Requests |-> [pc |-> "idle", asked |-> None, version |-> None,
                                       loaded |-> <<>>, status |-> None, code |-> None]]

Tick ==
    /\ clock < MaxClock
    /\ clock' = clock + 1
    /\ UNCHANGED <<files, latest, trainers, requests>>

-----------------------------------------------------------------------------
(* Training.                                                               *)

\* Too few rows in a fold, or no column: nothing is written.
GiveUp(t) ==
    /\ trainers[t].pc = "idle"
    /\ trainers' = [trainers EXCEPT ![t] = [@ EXCEPT !.pc = "insufficient_data"]]
    /\ UNCHANGED <<clock, files, latest, requests>>

\* make_model_version, once the booster is trained and evaluated.
Fit(t) ==
    /\ trainers[t].pc = "idle"
    /\ trainers' = [trainers EXCEPT ![t] =
         [@ EXCEPT !.pc = "saving", !.version = <<FeatureVersionOf[t], clock>>]]
    /\ UNCHANGED <<clock, files, latest, requests>>

\* The file of a step gets a content; the pointer's content is the version.
Put(t, content) ==
    LET file == Steps[trainers[t].step]
        v    == trainers[t].version
    IN  IF file = "latest"
        THEN latest' = (IF content = Torn THEN Torn ELSE v) /\ UNCHANGED files
        ELSE files' = [files EXCEPT ![v][file] = content] /\ UNCHANGED latest

Open(t) ==
    /\ trainers[t].pc = "saving" /\ ~trainers[t].open
    /\ Put(t, Torn)
    /\ trainers' = [trainers EXCEPT ![t] = [@ EXCEPT !.open = TRUE]]
    /\ UNCHANGED <<clock, requests>>

Write(t) ==
    /\ trainers[t].pc = "saving" /\ trainers[t].open
    /\ Put(t, t)
    /\ trainers' = [trainers EXCEPT ![t] =
         [@ EXCEPT !.open = FALSE, !.step = trainers[t].step + 1,
                   !.pc = IF trainers[t].step = Len(Steps) THEN "trained" ELSE "saving"]]
    /\ UNCHANGED <<clock, requests>>

Die(t) ==
    /\ trainers[t].pc = "saving"
    /\ trainers' = [trainers EXCEPT ![t] = [@ EXCEPT !.pc = "dead"]]
    /\ UNCHANGED <<clock, files, latest, requests>>

-----------------------------------------------------------------------------
(* Predicting.                                                             *)

Answer(q, status, code) == [requests[q] EXCEPT !.pc = "answered",
                                               !.status = status, !.code = code]

Fail(q) == Answer(q, "error", None)

NoModel(q, asked) ==
    [Answer(q, "INSUFFICIENT_DATA",
            IF asked = None THEN "no_trained_model" ELSE "model_not_found")
     EXCEPT !.asked = asked]

\* predict_product up to load_model: the version asked for, or that of the
\* pointer, which cannot be parsed while it is being rewritten.  A version that
\* was never trained, or is no version at all, is not found.
Resolve(q, asked) ==
    LET version == IF asked = None THEN latest ELSE asked IN
    /\ requests[q].pc = "idle"
    /\ requests' = [requests EXCEPT ![q] =
         CASE version = None -> NoModel(q, asked)
           [] version = Torn -> [Fail(q) EXCEPT !.version = Torn]
           [] OTHER -> [@ EXCEPT !.pc = "loading", !.asked = asked, !.version = version]]
    /\ UNCHANGED <<clock, files, latest, trainers>>

\* Mutant: every file is looked up through the pointer.
MutContentFor(q, file) == files[IF latest \in Versions THEN latest
                                ELSE requests[q].version][file]

ContentFor(q, file) == files[requests[q].version][file]

\* The next file: a missing booster means no model, anything else that is
\* missing or cut short is an error nobody handles.
Load(q) ==
    LET file == Loads[Len(requests[q].loaded) + 1]
        content == ContentFor(q, file)
    IN  /\ requests[q].pc = "loading"
        /\ requests' = [requests EXCEPT ![q] =
             CASE content \in Trainers ->
                    [@ EXCEPT !.loaded = Append(requests[q].loaded, content),
                              !.pc = IF file = "metadata" THEN "predicting" ELSE "loading"]
               [] content = None /\ file = "model" -> NoModel(q, @.asked)
               [] OTHER -> Fail(q)]
        /\ UNCHANGED <<clock, files, latest, trainers>>

\* predict_listing for the listings of the product: some have features, or
\* none has.  The answer for the product names one reason for all.
Predict(q, known) ==
    LET metadata == requests[q].loaded[Len(Loads)] IN
    /\ requests[q].pc = "predicting"
    /\ requests' = [requests EXCEPT ![q] =
         IF known /\ FeatureVersionOf[metadata] = ServedVersion
         THEN Answer(q, "PREDICTED", None)
         ELSE Answer(q, "INSUFFICIENT_DATA", "no_qualifying_observations")]
    /\ UNCHANGED <<clock, files, latest, trainers>>

-----------------------------------------------------------------------------

Next ==
    \/ \E t \in Trainers : GiveUp(t) \/ Fit(t) \/ Open(t) \/ Write(t) \/ Die(t)
    \/ \E q \in Requests, asked \in Versions \cup {None} : Resolve(q, asked)
    \/ \E q \in Requests : Load(q) \/ \E known \in BOOLEAN : Predict(q, known)
    \/ Tick

Spec == Init /\ [][Next]_vars

-----------------------------------------------------------------------------
Trainer == [pc : {"idle", "insufficient_data", "saving", "trained", "dead"},
            version : Versions \cup {None}, step : 1..(Len(Steps) + 1), open : BOOLEAN]

Request == [pc : {"idle", "loading", "predicting", "answered"},
            asked : Versions \cup {None}, version : Versions \cup {None, Torn},
            loaded : Seq(Trainers),
            status : {"error", "INSUFFICIENT_DATA", "PREDICTED", None},
            code : {"no_trained_model", "model_not_found",
                    "no_qualifying_observations", None}]

TypeOK ==
    /\ clock \in 0..MaxClock
    /\ files \in [Versions -> [Files -> Trainers \cup {None, Torn}]]
    /\ latest \in Versions \cup {None, Torn}
    /\ trainers \in [Trainers -> Trainer]
    /\ requests \in [Requests -> Request]

(* Properties.                                                             *)

\* Two trainings that end within one second share a directory.
SharedVersion ==
    \E t, u \in Trainers : /\ t # u /\ trainers[t].version # None
                           /\ trainers[t].version = trainers[u].version

(* Whatever trainings run, end or die meanwhile, a request gets the booster,
   the preprocessor and the metadata of one training (class LoadedModel: "A
   booster plus the preprocessor and metadata it was trained with"), of the
   served version's features if it predicts; and one that names no version
   finds all of them unless it met the pointer half written.  Only trainings
   that share a version spoil this (save_artifact, load_model). *)
LatestModelIsWhole ==
    ~SharedVersion =>
    \A q \in Requests : LET r == requests[q] IN
        /\ \A i, k \in DOMAIN r.loaded : r.loaded[i] = r.loaded[k]
        /\ r.status = "PREDICTED" =>
              /\ Len(r.loaded) = Len(Loads)
              /\ r.version = trainers[r.loaded[1]].version
              /\ r.version[1] = ServedVersion
        /\ r.asked = None /\ r.version \in Versions =>
              r.status # "error" /\ r.code # "no_trained_model"

=============================================================================
