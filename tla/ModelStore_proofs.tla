------------------------- MODULE ModelStore_proofs -------------------------
(***************************************************************************)
(* For every set of trainings and requests: a request gets the three files *)
(* of one training, and one that follows latest.json finds all of them.    *)
(***************************************************************************)
EXTENDS ModelStore, TLAPS

-----------------------------------------------------------------------------
(* The inductive invariant.                                                *)

\* A training names its version when it has a model to save, after its own
\* features, and saves at most the four files.
TrainerInv ==
    \A t \in Trainers : LET w == trainers[t] IN
        /\ w.version = None <=> w.pc \in {"idle", "insufficient_data"}
        /\ w.pc = "idle" => w.step = 1
        /\ w.pc = "saving" => w.step <= 4
        /\ w.version # None => w.version[1] = FeatureVersionOf[t]

\* Whoever wrote a file wrote it in the directory of its own version.
FileInv ==
    \A v \in Versions, f \in Files :
        files[v][f] \in Trainers => trainers[files[v][f]].version = v

\* What a request has loaded is of trainings of the version it looks up.
Sound(r) ==
    /\ r.pc = "idle" => /\ r.loaded = <<>> /\ r.asked = None /\ r.version = None
                        /\ r.status = None /\ r.code = None
    /\ r.pc = "loading" => /\ Len(r.loaded) < 3 /\ r.version \in Versions
                           /\ r.status = None /\ r.code = None
    /\ r.pc = "predicting" => Len(r.loaded) = 3 /\ r.status = None /\ r.code = None
    /\ \A i \in 1..Len(r.loaded) : trainers[r.loaded[i]].version = r.version
    /\ r.loaded # <<>> => r.version \in Versions
    /\ r.status = "PREDICTED" => /\ Len(r.loaded) = 3
                                 /\ FeatureVersionOf[r.loaded[3]] = ServedVersion

RequestInv == \A q \in Requests : Sound(requests[q])

\* The training of a version is past its last model file.
Finished(v) == \E t \in Trainers : trainers[t].version = v /\ trainers[t].step >= 4

\* While no two trainings share a version: what a training wrote stays, the
\* pointer names a training that is past its model files, and a request that
\* followed the pointer has met nothing else.
Saved ==
    \A t \in Trainers : \A k \in 1..3 :
        trainers[t].version # None /\ k < trainers[t].step =>
            files[trainers[t].version][Steps[k]] = t
Pointed == latest \in Versions => Finished(latest)
Led(r) == r.asked = None /\ r.version \in Versions =>
             /\ Finished(r.version)
             /\ r.status # "error" /\ r.code # "no_trained_model"
Followed == \A q \in Requests : Led(requests[q])

Whole == ~SharedVersion => Saved /\ Pointed /\ Followed

IInv == TypeOK /\ TrainerInv /\ FileInv /\ RequestInv /\ Whole

-----------------------------------------------------------------------------
(* Lemmas about the operators.                                             *)

LEMMA VersionsAreSomething ==
    None \notin Versions /\ Torn \notin Versions
BY NoneAssumption DEF Versions

LEMMA StepsAndLoads ==
    /\ Len(Steps) = 4 /\ Len(Loads) = 3
    /\ Steps[1] = "model" /\ Steps[2] = "preprocessor" /\ Steps[3] = "metadata"
    /\ Steps[4] = "latest"
    /\ Loads[1] = "model" /\ Loads[2] = "preprocessor" /\ Loads[3] = "metadata"
    /\ \A k \in 1..3 : Steps[k] = Loads[k] /\ Steps[k] \in Files /\ Steps[k] # "latest"
    /\ \A j, k \in 1..3 : Steps[j] = Steps[k] => j = k
    /\ "latest" \notin Files
BY DEF Steps, Loads, Files

\* What the edits of a training's record leave alone.
LEMMA TrainerEdits ==
    ASSUME NEW w \in Trainer
    PROVE  /\ \A v \in Versions :
                 LET x == [w EXCEPT !.pc = "saving", !.version = v] IN
                 /\ x \in Trainer /\ x.pc = "saving" /\ x.version = v
                 /\ x.step = w.step
           /\ LET x == [w EXCEPT !.open = TRUE] IN
                 /\ x \in Trainer /\ x.pc = w.pc /\ x.version = w.version
                 /\ x.step = w.step
           /\ \A pc \in {"insufficient_data", "dead"} :
                 LET x == [w EXCEPT !.pc = pc] IN
                 /\ x \in Trainer /\ x.pc = pc /\ x.version = w.version
                 /\ x.step = w.step
           /\ \A pc \in {"trained", "saving"} :
                 w.step <= 4 =>
                 LET x == [w EXCEPT !.open = FALSE, !.step = w.step + 1, !.pc = pc] IN
                 /\ x \in Trainer /\ x.pc = pc /\ x.version = w.version
                 /\ x.step = w.step + 1
<1>1. \A v \in Versions :
         LET x == [w EXCEPT !.pc = "saving", !.version = v] IN
         /\ x \in Trainer /\ x.pc = "saving" /\ x.version = v
         /\ x.step = w.step
  BY DEF Trainer
<1>2. LET x == [w EXCEPT !.open = TRUE] IN
         /\ x \in Trainer /\ x.pc = w.pc /\ x.version = w.version /\ x.step = w.step
  BY DEF Trainer
<1>3. \A pc \in {"insufficient_data", "dead"} :
         LET x == [w EXCEPT !.pc = pc] IN
         /\ x \in Trainer /\ x.pc = pc /\ x.version = w.version /\ x.step = w.step
  BY DEF Trainer
<1>4. ASSUME NEW pc \in {"trained", "saving"}, w.step <= 4
      PROVE  LET x == [w EXCEPT !.open = FALSE, !.step = w.step + 1, !.pc = pc] IN
             /\ x \in Trainer /\ x.pc = pc /\ x.version = w.version
             /\ x.step = w.step + 1
  <2>1. w.step + 1 \in 1..(Len(Steps) + 1)
    BY <1>4, StepsAndLoads DEF Trainer
  <2> QED  BY <2>1 DEF Trainer
<1> QED  BY <1>1, <1>2, <1>3, <1>4, Zenon

LEMMA EditAsked ==
    ASSUME NEW r \in Request, NEW a \in Versions \cup {None}
    PROVE  LET x == [r EXCEPT !.asked = a] IN
           /\ x \in Request /\ x.asked = a /\ x.pc = r.pc /\ x.status = r.status
           /\ x.code = r.code /\ x.version = r.version /\ x.loaded = r.loaded
BY DEF Request

LEMMA EditTorn ==
    ASSUME NEW r \in Request
    PROVE  LET x == [r EXCEPT !.version = Torn] IN
           /\ x \in Request /\ x.version = Torn /\ x.pc = r.pc /\ x.status = r.status
           /\ x.code = r.code /\ x.asked = r.asked /\ x.loaded = r.loaded
BY DEF Request

-----------------------------------------------------------------------------
(* Trainings.                                                              *)

\* A training that has a version keeps it, and its steps only go on.
Grown == \A u \in Trainers : trainers[u].version # None =>
            /\ trainers'[u].version = trainers[u].version
            /\ trainers'[u].step \in Nat /\ trainers'[u].step >= trainers[u].step

LEMMA GrownKeeps ==
    ASSUME TypeOK, Grown
    PROVE  /\ SharedVersion => SharedVersion'
           /\ \A v \in Versions : Finished(v) => Finished(v)'
           /\ requests' = requests /\ RequestInv => RequestInv'
           /\ requests' = requests /\ Followed => Followed'
<1>1. SharedVersion => SharedVersion'
  BY DEF SharedVersion, Grown
<1>2. ASSUME NEW v \in Versions, Finished(v) PROVE Finished(v)'
  <2>1. PICK t \in Trainers : trainers[t].version = v /\ trainers[t].step >= 4
    BY <1>2 DEF Finished
  <2>2. /\ trainers'[t].version = v /\ trainers'[t].step \in Nat
        /\ trainers'[t].step >= trainers[t].step
    BY <2>1, VersionsAreSomething DEF Grown
  <2>3. trainers[t].step \in Nat
    BY StepsAndLoads DEF TypeOK, Trainer
  <2>4. trainers'[t].step >= 4
    BY <2>1, <2>2, <2>3
  <2> QED  BY <2>2, <2>4 DEF Finished
<1>3. ASSUME NEW r \in Request, Sound(r) PROVE Sound(r)'
  <2>1. ASSUME NEW i \in 1..Len(r.loaded) PROVE trainers'[r.loaded[i]].version = r.version
    <3>1. r.loaded[i] \in Trainers /\ r.loaded # <<>>
      BY DEF Request
    <3>2. trainers[r.loaded[i]].version = r.version /\ r.version # None
      BY <1>3, <3>1, VersionsAreSomething DEF Sound
    <3> QED  BY <3>1, <3>2 DEF Grown
  <2> QED  BY <1>3, <2>1 DEF Sound
<1>4. ASSUME NEW r \in Request, Led(r) PROVE Led(r)'
  BY <1>2, <1>4 DEF Led
<1>5. requests' = requests /\ RequestInv => RequestInv'
  BY <1>3 DEF RequestInv, TypeOK
<1>6. requests' = requests /\ Followed => Followed'
  BY <1>4 DEF Followed, TypeOK
<1> QED  BY <1>1, <1>2, <1>5, <1>6

LEMMA TrainerMoves ==
    ASSUME TypeOK, NEW t \in Trainers, NEW x \in Trainer,
           trainers' = [trainers EXCEPT ![t] = x],
           trainers[t].version # None =>
               x.version = trainers[t].version /\ x.step >= trainers[t].step
    PROVE  /\ trainers' \in [Trainers -> Trainer]
           /\ trainers'[t] = x
           /\ \A u \in Trainers \ {t} : trainers'[u] = trainers[u]
           /\ Grown
<1>1. /\ trainers' \in [Trainers -> Trainer] /\ trainers'[t] = x
      /\ \A u \in Trainers \ {t} : trainers'[u] = trainers[u]
  BY DEF TypeOK
<1>2. \A w \in Trainer : w.step \in Nat
  BY StepsAndLoads DEF Trainer
<1>3. \A u \in Trainers : trainers'[u].step \in Nat /\ trainers[u].step \in Nat
  BY <1>1, <1>2 DEF TypeOK
<1>4. Grown
  <2> SUFFICES ASSUME NEW u \in Trainers, trainers[u].version # None
               PROVE  /\ trainers'[u].version = trainers[u].version
                      /\ trainers'[u].step \in Nat /\ trainers'[u].step >= trainers[u].step
    BY DEF Grown
  <2>1. CASE u = t
    BY <1>1, <1>3, <2>1
  <2>2. CASE u # t
    BY <1>1, <1>3, <2>2
  <2> QED  BY <2>1, <2>2
<1> QED  BY <1>1, <1>4

\* A step that writes no file keeps what is known of the files, and a training
\* that gets its version has written none.
LEMMA OnlyTheTrainer ==
    ASSUME IInv, NEW t \in Trainers, NEW x \in Trainer,
           trainers' = [trainers EXCEPT ![t] = x],
           UNCHANGED <<files, latest, requests>>, clock' \in 0..MaxClock,
           \/ trainers[t].version = x.version /\ trainers[t].step = x.step
           \/ trainers[t].version = None /\ x.step = 1,
           x.version = None <=> x.pc \in {"idle", "insufficient_data"},
           x.pc = "idle" => x.step = 1, x.pc = "saving" => x.step <= 4,
           x.version # None => x.version[1] = FeatureVersionOf[t]
    PROVE  IInv'
<1> USE DEF IInv
<1>1. /\ trainers' \in [Trainers -> Trainer] /\ trainers'[t] = x
      /\ \A u \in Trainers \ {t} : trainers'[u] = trainers[u]
      /\ Grown
  <2>1. trainers[t].step \in Nat
    BY StepsAndLoads DEF TypeOK, Trainer
  <2>2. trainers[t].version # None =>
           x.version = trainers[t].version /\ x.step >= trainers[t].step
    BY <2>1
  <2> QED  BY <2>2, TrainerMoves
<1>2. TypeOK'
  BY <1>1 DEF TypeOK
<1>3. TrainerInv'
  BY <1>1 DEF TrainerInv
<1>4. FileInv'
  BY <1>1, VersionsAreSomething DEF FileInv, Grown
<1>5. RequestInv'
  BY <1>1, GrownKeeps
<1>6. ASSUME ~SharedVersion' PROVE Saved' /\ Pointed' /\ Followed'
  <2>1. ~SharedVersion /\ Saved /\ Pointed /\ Followed
    BY <1>1, <1>6, GrownKeeps DEF Whole
  <2>2. Saved'
    <3> SUFFICES ASSUME NEW u \in Trainers, NEW k \in 1..3,
                        trainers'[u].version # None, k < trainers'[u].step
                 PROVE  files[trainers'[u].version][Steps[k]] = u
      BY DEF Saved
    <3>1. trainers'[u].version = trainers[u].version /\ trainers'[u].step = trainers[u].step
      BY <1>1
    <3> QED  BY <2>1, <3>1 DEF Saved
  <2>3. Pointed'
    BY <1>1, <2>1, GrownKeeps DEF Pointed
  <2> QED  BY <1>1, <2>1, <2>2, <2>3, GrownKeeps
<1> QED  BY <1>2, <1>3, <1>4, <1>5, <1>6 DEF Whole

LEMMA GiveUpKeeps ==
    ASSUME IInv, NEW t \in Trainers, GiveUp(t)
    PROVE  IInv'
<1> DEFINE x == [trainers[t] EXCEPT !.pc = "insufficient_data"]
<1>1. trainers[t] \in Trainer
  BY DEF IInv, TypeOK
<1>2. /\ x \in Trainer /\ x.pc = "insufficient_data"
      /\ x.version = trainers[t].version /\ x.step = trainers[t].step
  BY <1>1, TrainerEdits
<1>3. trainers' = [trainers EXCEPT ![t] = x] /\ UNCHANGED <<clock, files, latest, requests>>
  BY DEF GiveUp
<1>4. trainers[t].version = None
  BY DEF GiveUp, IInv, TrainerInv
<1>5. clock' \in 0..MaxClock
  BY <1>3 DEF IInv, TypeOK
<1> HIDE DEF x
<1> QED  BY <1>2, <1>3, <1>4, <1>5, OnlyTheTrainer

LEMMA FitKeeps ==
    ASSUME IInv, NEW t \in Trainers, Fit(t)
    PROVE  IInv'
<1> DEFINE v == <<FeatureVersionOf[t], clock>>
           x == [trainers[t] EXCEPT !.pc = "saving", !.version = v]
<1>1. trainers[t] \in Trainer /\ clock \in 0..MaxClock
  BY DEF IInv, TypeOK
<1>2. v \in Versions /\ v # None /\ v[1] = FeatureVersionOf[t]
  BY <1>1, VersionsAreSomething DEF Versions
<1>3. trainers' = [trainers EXCEPT ![t] = x] /\ UNCHANGED <<clock, files, latest, requests>>
  BY DEF Fit
<1> HIDE DEF v
<1>4. /\ x \in Trainer /\ x.pc = "saving" /\ x.version = v /\ x.step = trainers[t].step
  BY ZenonT(30), <1>1, <1>2, TrainerEdits
<1>5. trainers[t].version = None /\ trainers[t].step = 1
  BY DEF Fit, IInv, TrainerInv
<1> HIDE DEF x
<1>6. /\ x.version # None /\ x.version[1] = FeatureVersionOf[t] /\ x.step = 1
      /\ clock' \in 0..MaxClock /\ x.pc = "saving"
  BY <1>1, <1>2, <1>3, <1>4, <1>5
<1>7. /\ \/ trainers[t].version = x.version /\ trainers[t].step = x.step
         \/ trainers[t].version = None /\ x.step = 1
      /\ x.version = None <=> x.pc \in {"idle", "insufficient_data"}
      /\ x.pc = "idle" => x.step = 1
      /\ x.pc = "saving" => x.step <= 4
  BY <1>5, <1>6
<1> QED  BY <1>3, <1>4, <1>6, <1>7, OnlyTheTrainer

LEMMA DieKeeps ==
    ASSUME IInv, NEW t \in Trainers, Die(t)
    PROVE  IInv'
<1> DEFINE x == [trainers[t] EXCEPT !.pc = "dead"]
<1>1. trainers[t] \in Trainer /\ clock \in 0..MaxClock
  BY DEF IInv, TypeOK
<1>2. /\ x \in Trainer /\ x.pc = "dead"
      /\ x.version = trainers[t].version /\ x.step = trainers[t].step
  BY <1>1, TrainerEdits
<1>3. trainers' = [trainers EXCEPT ![t] = x] /\ UNCHANGED <<clock, files, latest, requests>>
  BY DEF Die
<1>4. trainers[t].version # None /\ trainers[t].version[1] = FeatureVersionOf[t]
  BY DEF Die, IInv, TrainerInv
<1> HIDE DEF x
<1> QED  BY <1>1, <1>2, <1>3, <1>4, OnlyTheTrainer

\* What writing a step of a training does: one file of its own directory, or
\* the pointer.
LEMMA PutOneFile ==
    ASSUME IInv, NEW t \in Trainers, trainers[t].pc = "saving",
           NEW content \in {t, Torn}, Put(t, content)
    PROVE  LET v == trainers[t].version
               k == trainers[t].step
           IN  /\ v \in Versions /\ k \in 1..4
               /\ \/ /\ k \in 1..3 /\ latest' = latest
                     /\ files' \in [Versions -> [Files -> Trainers \cup {None, Torn}]]
                     /\ files'[v][Steps[k]] = content
                     /\ \A w \in Versions, f \in Files :
                           w # v \/ f # Steps[k] => files'[w][f] = files[w][f]
                  \/ /\ k = 4 /\ files' = files
                     /\ latest' = IF content = Torn THEN Torn ELSE v
<1> DEFINE v == trainers[t].version
           k == trainers[t].step
<1>1. v \in Versions /\ k \in 1..4
  <2>1. trainers[t] \in Trainer
    BY DEF IInv, TypeOK
  <2>2. v \in Versions \cup {None} /\ k \in 1..5
    BY <2>1, StepsAndLoads DEF Trainer
  <2>3. v # None /\ k <= 4
    BY DEF IInv, TrainerInv
  <2> QED  BY <2>2, <2>3
<1>2. CASE k \in 1..3
  <2>1. Steps[k] # "latest" /\ Steps[k] \in Files
    BY <1>2, StepsAndLoads
  <2>2. files' = [files EXCEPT ![v][Steps[k]] = content] /\ latest' = latest
    BY <2>1 DEF Put
  <2>3. files \in [Versions -> [Files -> Trainers \cup {None, Torn}]]
    BY DEF IInv, TypeOK
  <2> HIDE DEF v, k
  <2>4. /\ files' \in [Versions -> [Files -> Trainers \cup {None, Torn}]]
        /\ files'[v][Steps[k]] = content
        /\ \A w \in Versions, f \in Files :
              w # v \/ f # Steps[k] => files'[w][f] = files[w][f]
    BY <1>1, <2>1, <2>2, <2>3
  <2> QED  BY <1>1, <1>2, <2>2, <2>4 DEF v, k
<1>3. CASE k = 4
  BY <1>1, <1>3, StepsAndLoads DEF Put
<1>4. k \in 1..3 \/ k = 4
  BY <1>1
<1> QED  BY <1>2, <1>3, <1>4

\* Opening a file for writing spoils only what the training has not finished.
LEMMA OpenKeeps ==
    ASSUME IInv, NEW t \in Trainers, Open(t)
    PROVE  IInv'
<1> DEFINE v == trainers[t].version
           k == trainers[t].step
           x == [trainers[t] EXCEPT !.open = TRUE]
<1>1. trainers[t] \in Trainer /\ clock' \in 0..MaxClock
  BY DEF IInv, TypeOK, Open
<1>2. /\ x \in Trainer /\ x.pc = trainers[t].pc
      /\ x.version = trainers[t].version /\ x.step = trainers[t].step
  BY <1>1, TrainerEdits
<1>3. /\ trainers' = [trainers EXCEPT ![t] = x] /\ requests' = requests
      /\ trainers[t].pc = "saving" /\ Put(t, Torn)
  BY DEF Open
<1>4. /\ v \in Versions /\ k \in 1..4
      /\ \/ /\ k \in 1..3 /\ latest' = latest
            /\ files' \in [Versions -> [Files -> Trainers \cup {None, Torn}]]
            /\ files'[v][Steps[k]] = Torn
            /\ \A w \in Versions, f \in Files :
                  w # v \/ f # Steps[k] => files'[w][f] = files[w][f]
         \/ k = 4 /\ files' = files /\ latest' = Torn
  BY <1>3, PutOneFile
<1>5. /\ trainers' \in [Trainers -> Trainer] /\ trainers'[t] = x
      /\ \A u \in Trainers \ {t} : trainers'[u] = trainers[u]
      /\ Grown
  <2>1. trainers[t].step \in Nat
    BY <1>1, StepsAndLoads DEF Trainer
  <2>2. x.step >= trainers[t].step
    BY <1>2, <2>1
  <2> HIDE DEF x
  <2> QED  BY <1>2, <1>3, <2>2, TrainerMoves DEF IInv
<1> HIDE DEF x
<1>6. \A u \in Trainers : /\ trainers'[u].version = trainers[u].version
                          /\ trainers'[u].step = trainers[u].step
                          /\ trainers'[u].pc = trainers[u].pc
  BY <1>2, <1>5
<1> HIDE DEF v, k
<1>7. TypeOK'
  BY <1>1, <1>3, <1>4, <1>5 DEF IInv, TypeOK
<1>8. TrainerInv'
  BY <1>6 DEF IInv, TrainerInv
<1>9. FileInv'
  <2> SUFFICES ASSUME NEW w \in Versions, NEW f \in Files, files'[w][f] \in Trainers
               PROVE  trainers'[files'[w][f]].version = w
    BY DEF FileInv
  <2>1. files'[w][f] = files[w][f]
    BY <1>4, NoneAssumption
  <2> QED  BY <1>6, <2>1 DEF IInv, FileInv
<1>10. RequestInv'
  BY <1>3, <1>5, GrownKeeps DEF IInv
<1>11. ASSUME ~SharedVersion' PROVE Saved' /\ Pointed' /\ Followed'
  <2>1. ~SharedVersion /\ Saved /\ Pointed /\ Followed
    BY <1>5, <1>11, GrownKeeps DEF IInv, Whole
  <2>2. Saved'
    <3> SUFFICES ASSUME NEW u \in Trainers, NEW j \in 1..3,
                        trainers'[u].version # None, j < trainers'[u].step
                 PROVE  files'[trainers'[u].version][Steps[j]] = u
      BY DEF Saved
    <3>1. /\ trainers'[u].version = trainers[u].version /\ trainers[u].version # None
          /\ j < trainers[u].step /\ Steps[j] \in Files
      BY <1>6, StepsAndLoads
    <3>2. files[trainers[u].version][Steps[j]] = u
      BY <2>1, <3>1 DEF Saved
    <3>3. trainers[u].version \in Versions
      BY <3>1 DEF IInv, TypeOK, Trainer
    <3>4. CASE files' = files
      BY <3>1, <3>2, <3>4
    <3>5. CASE /\ k \in 1..3
               /\ \A w \in Versions, f \in Files :
                     w # v \/ f # Steps[k] => files'[w][f] = files[w][f]
      <4>1. CASE u = t
        <5>1. j < k
          BY <3>1, <4>1 DEF k
        <5>2. j # k
          BY <5>1, <3>5
        <5>3. Steps[j] # Steps[k]
          BY <5>2, <3>5, StepsAndLoads
        <5> QED  BY <3>1, <3>2, <3>3, <3>5, <5>3
      <4>2. CASE u # t
        <5>1. trainers[u].version # v
          BY <2>1, <3>1, <4>2 DEF SharedVersion, v
        <5> QED  BY <3>1, <3>2, <3>3, <3>5, <5>1
      <4> QED  BY <4>1, <4>2
    <3> QED  BY <1>4, <3>4, <3>5
  <2>3. Pointed'
    BY <1>4, <1>5, <2>1, GrownKeeps, VersionsAreSomething DEF IInv, Pointed
  <2> QED  BY <1>3, <1>5, <2>1, <2>2, <2>3, GrownKeeps DEF IInv
<1> QED  BY <1>7, <1>8, <1>9, <1>10, <1>11 DEF IInv, Whole

\* A file that is written counts from now on; the last one is the pointer.
LEMMA WriteKeeps ==
    ASSUME IInv, NEW t \in Trainers, Write(t)
    PROVE  IInv'
<1> DEFINE v == trainers[t].version
           k == trainers[t].step
           pc == IF trainers[t].step = Len(Steps) THEN "trained" ELSE "saving"
           x == [trainers[t] EXCEPT !.open = FALSE, !.step = trainers[t].step + 1, !.pc = pc]
<1>1. trainers[t] \in Trainer /\ clock' \in 0..MaxClock
  BY DEF IInv, TypeOK, Write
<1>2. /\ trainers' = [trainers EXCEPT ![t] = x] /\ requests' = requests
      /\ trainers[t].pc = "saving" /\ Put(t, t)
  BY Zenon DEF Write
<1>3. t # Torn /\ t # None
  BY NoneAssumption
<1>4. /\ v \in Versions /\ k \in 1..4
      /\ \/ /\ k \in 1..3 /\ latest' = latest
            /\ files' \in [Versions -> [Files -> Trainers \cup {None, Torn}]]
            /\ files'[v][Steps[k]] = t
            /\ \A w \in Versions, f \in Files :
                  w # v \/ f # Steps[k] => files'[w][f] = files[w][f]
         \/ k = 4 /\ files' = files /\ latest' = v
  BY <1>2, <1>3, PutOneFile
<1>5. /\ pc \in {"trained", "saving"} /\ (pc = "saving" => k + 1 <= 4)
  BY <1>4, StepsAndLoads
<1> HIDE DEF pc
<1>6. /\ x \in Trainer /\ x.pc = pc
      /\ x.version = trainers[t].version /\ x.step = k + 1
  <2>1. trainers[t].step <= 4
    BY <1>4
  <2>2. /\ x \in Trainer /\ x.pc = pc /\ x.version = trainers[t].version
        /\ x.step = trainers[t].step + 1
    BY ZenonT(30), <1>1, <1>5, <2>1, TrainerEdits
  <2> QED  BY <2>2
<1>7. /\ trainers' \in [Trainers -> Trainer] /\ trainers'[t] = x
      /\ \A u \in Trainers \ {t} : trainers'[u] = trainers[u]
      /\ Grown
  <2>1. x.step >= trainers[t].step
    BY <1>4, <1>6
  <2> HIDE DEF x
  <2> QED  BY <1>2, <1>6, <2>1, TrainerMoves DEF IInv
<1> HIDE DEF x
<1>8. \A u \in Trainers : trainers'[u].version = trainers[u].version
  BY <1>6, <1>7
<1>9. TypeOK'
  BY <1>1, <1>2, <1>4, <1>7 DEF IInv, TypeOK
<1>10. TrainerInv'
  <2> SUFFICES ASSUME NEW u \in Trainers
               PROVE  LET w == trainers'[u] IN
                      /\ w.version = None <=> w.pc \in {"idle", "insufficient_data"}
                      /\ w.pc = "idle" => w.step = 1
                      /\ w.pc = "saving" => w.step <= 4
                      /\ w.version # None => w.version[1] = FeatureVersionOf[u]
    BY DEF TrainerInv
  <2>1. CASE u # t
    BY <1>7, <2>1 DEF IInv, TrainerInv
  <2>2. CASE u = t
    <3>1. v # None /\ v[1] = FeatureVersionOf[t]
      BY <1>2 DEF IInv, TrainerInv
    <3> QED  BY <1>5, <1>6, <1>7, <2>2, <3>1
  <2> QED  BY <2>1, <2>2
<1>11. FileInv'
  <2> SUFFICES ASSUME NEW w \in Versions, NEW f \in Files, files'[w][f] \in Trainers
               PROVE  trainers'[files'[w][f]].version = w
    BY DEF FileInv
  <2>1. CASE files'[w][f] = files[w][f]
    BY <1>8, <2>1 DEF IInv, FileInv
  <2>2. CASE files'[w][f] = t /\ w = v
    BY <1>8, <2>2
  <2> QED  BY <1>4, <2>1, <2>2
<1>12. RequestInv'
  BY <1>2, <1>7, GrownKeeps DEF IInv
<1>13. ASSUME ~SharedVersion' PROVE Saved' /\ Pointed' /\ Followed'
  <2>1. ~SharedVersion /\ Saved /\ Pointed /\ Followed
    BY <1>7, <1>13, GrownKeeps DEF IInv, Whole
  <2>2. Saved'
    <3> SUFFICES ASSUME NEW u \in Trainers, NEW j \in 1..3,
                        trainers'[u].version # None, j < trainers'[u].step
                 PROVE  files'[trainers'[u].version][Steps[j]] = u
      BY DEF Saved
    <3>1. /\ trainers'[u].version = trainers[u].version /\ trainers[u].version # None
          /\ Steps[j] \in Files
      BY <1>8, StepsAndLoads
    <3>2. trainers[u].version \in Versions
      BY <3>1 DEF IInv, TypeOK, Trainer
    <3>3. CASE u # t
      <4>1. files[trainers[u].version][Steps[j]] = u /\ trainers[u].version # v
        <5>1. j < trainers[u].step
          BY <1>7, <3>3
        <5> QED  BY <2>1, <3>1, <3>3, <5>1 DEF Saved, SharedVersion
      <4> QED  BY <1>4, <3>1, <3>2, <4>1
    <3>4. CASE u = t /\ j = k
      BY <1>4, <3>1, <3>4
    <3>5. CASE u = t /\ j # k
      <4>1. j < k
        BY <1>4, <1>6, <1>7, <3>5
      <4>2. files[v][Steps[j]] = t
        BY <2>1, <3>1, <3>5, <4>1 DEF Saved
      <4>3. k \in 1..3 => Steps[j] # Steps[k]
        BY <3>5, StepsAndLoads
      <4> QED  BY <1>4, <3>1, <3>5, <4>2, <4>3
    <3> QED  BY <3>3, <3>4, <3>5
  <2>3. Pointed'
    <3>1. CASE latest' = latest
      BY <1>7, <2>1, <3>1, GrownKeeps DEF IInv, Pointed
    <3>2. CASE k = 4 /\ latest' = v
      <4>1. trainers'[t].version = v /\ trainers'[t].step >= 4
        BY <1>6, <1>7, <3>2
      <4> QED  BY <3>2, <4>1 DEF Pointed, Finished
    <3> QED  BY <1>4, <3>1, <3>2
  <2> QED  BY <1>2, <1>7, <2>1, <2>2, <2>3, GrownKeeps DEF IInv
<1> QED  BY <1>9, <1>10, <1>11, <1>12, <1>13 DEF IInv, Whole

-----------------------------------------------------------------------------
(* Requests.                                                               *)

LEMMA RequestMoves ==
    ASSUME IInv, NEW q \in Requests, NEW x \in Request,
           requests' = [requests EXCEPT ![q] = x],
           UNCHANGED <<clock, files, latest, trainers>>,
           Sound(x), ~SharedVersion => Led(x)
    PROVE  IInv'
<1>1. /\ requests' \in [Requests -> Request] /\ requests'[q] = x
      /\ \A p \in Requests \ {q} : requests'[p] = requests[p]
  BY DEF IInv, TypeOK
<1>2. \A r : Sound(r)' <=> Sound(r)
  BY DEF Sound
<1>3. \A r : Led(r)' <=> Led(r)
  BY DEF Led, Finished
<1>4. TypeOK' /\ TrainerInv' /\ FileInv'
  BY <1>1 DEF IInv, TypeOK, TrainerInv, FileInv
<1>5. RequestInv'
  <2> SUFFICES ASSUME NEW p \in Requests PROVE Sound(requests'[p])
    BY <1>2 DEF RequestInv, Sound
  <2> QED  BY <1>1 DEF IInv, RequestInv
<1>6. ASSUME ~SharedVersion' PROVE Saved' /\ Pointed' /\ Followed'
  <2>1. ~SharedVersion
    BY <1>6 DEF SharedVersion
  <2>2. Saved' /\ Pointed'
    BY <2>1 DEF IInv, Whole, Saved, Pointed, Finished
  <2>3. Followed'
    <3> SUFFICES ASSUME NEW p \in Requests PROVE Led(requests'[p])
      BY <1>3 DEF Followed, Led, Finished
    <3> QED  BY <1>1, <2>1 DEF IInv, Whole, Followed
  <2> QED  BY <2>2, <2>3
<1> QED  BY <1>4, <1>5, <1>6 DEF IInv, Whole

LEMMA AnswerIs ==
    ASSUME IInv, NEW q \in Requests,
           NEW s \in {"error", "INSUFFICIENT_DATA", "PREDICTED"},
           NEW c \in {"no_trained_model", "model_not_found",
                      "no_qualifying_observations", None}
    PROVE  LET x == Answer(q, s, c) IN
           /\ x \in Request /\ x.pc = "answered" /\ x.status = s /\ x.code = c
           /\ x.asked = requests[q].asked /\ x.version = requests[q].version
           /\ x.loaded = requests[q].loaded
<1>1. PICK r \in Request : r = requests[q]
  BY DEF IInv, TypeOK
<1>2. LET x == [r EXCEPT !.pc = "answered", !.status = s, !.code = c] IN
      /\ x \in Request /\ x.pc = "answered" /\ x.status = s /\ x.code = c
      /\ x.asked = r.asked /\ x.version = r.version /\ x.loaded = r.loaded
  BY DEF Request
<1> QED  BY <1>1, <1>2, Zenon DEF Answer

LEMMA NoModelIs ==
    ASSUME IInv, NEW q \in Requests, NEW a \in Versions \cup {None}
    PROVE  LET x == NoModel(q, a) IN
           /\ x \in Request /\ x.pc = "answered" /\ x.status = "INSUFFICIENT_DATA"
           /\ x.code = IF a = None THEN "no_trained_model" ELSE "model_not_found"
           /\ x.asked = a /\ x.version = requests[q].version
           /\ x.loaded = requests[q].loaded
<1> DEFINE c == IF a = None THEN "no_trained_model" ELSE "model_not_found"
           y == Answer(q, "INSUFFICIENT_DATA", c)
<1>1. c \in {"no_trained_model", "model_not_found"}
  OBVIOUS
<1>2. NoModel(q, a) = [y EXCEPT !.asked = a]
  BY DEF NoModel
<1> HIDE DEF c
<1>3. /\ y \in Request /\ y.pc = "answered" /\ y.status = "INSUFFICIENT_DATA"
      /\ y.code = c /\ y.version = requests[q].version /\ y.loaded = requests[q].loaded
  BY <1>1, AnswerIs
<1> HIDE DEF y
<1>4. LET x == [y EXCEPT !.asked = a] IN
      /\ x \in Request /\ x.asked = a /\ x.pc = y.pc /\ x.status = y.status
      /\ x.code = y.code /\ x.version = y.version /\ x.loaded = y.loaded
  BY <1>3, EditAsked, Zenon
<1> QED  BY <1>2, <1>3, <1>4 DEF c

LEMMA ResolveKeeps ==
    ASSUME IInv, NEW q \in Requests, NEW asked \in Versions \cup {None}, Resolve(q, asked)
    PROVE  IInv'
<1> DEFINE r == requests[q]
           version == IF asked = None THEN latest ELSE asked
<1>1. r \in Request /\ version \in Versions \cup {None, Torn}
  BY DEF IInv, TypeOK
<1>2. /\ r.pc = "idle" /\ r.loaded = <<>> /\ r.asked = None /\ r.version = None
      /\ r.status = None /\ r.code = None
  BY DEF Resolve, IInv, RequestInv, Sound
<1>3. UNCHANGED <<clock, files, latest, trainers>>
  BY DEF Resolve
<1>4. CASE version = None
  <2> DEFINE x == NoModel(q, asked)
  <2>1. requests' = [requests EXCEPT ![q] = x]
    BY <1>4, NoneAssumption DEF Resolve
  <2>2. /\ x \in Request /\ x.pc = "answered" /\ x.status = "INSUFFICIENT_DATA"
        /\ x.version = None /\ x.loaded = <<>>
    BY <1>2, NoModelIs
  <2> HIDE DEF x
  <2>3. Sound(x)
    BY <2>2 DEF Sound
  <2>4. Led(x)
    BY <2>2, VersionsAreSomething DEF Led
  <2> QED  BY <1>3, <2>1, <2>2, <2>3, <2>4, RequestMoves
<1>5. CASE version = Torn
  <2> DEFINE y == Answer(q, "error", None)
             x == [y EXCEPT !.version = Torn]
  <2>1. requests' = [requests EXCEPT ![q] = x]
    BY <1>5, NoneAssumption DEF Resolve, Fail
  <2>2. /\ y \in Request /\ y.pc = "answered" /\ y.status = "error" /\ y.loaded = <<>>
    BY <1>2, AnswerIs
  <2> HIDE DEF y
  <2>3. /\ x \in Request /\ x.pc = "answered" /\ x.status = "error"
        /\ x.version = Torn /\ x.loaded = <<>>
    BY <2>2, EditTorn, Zenon
  <2> HIDE DEF x
  <2>4. Sound(x)
    BY <2>3 DEF Sound
  <2>5. Led(x)
    BY <2>3, VersionsAreSomething DEF Led
  <2> QED  BY <1>3, <2>1, <2>3, <2>4, <2>5, RequestMoves
<1>6. CASE version \in Versions
  <2> DEFINE x == [r EXCEPT !.pc = "loading", !.asked = asked, !.version = version]
  <2>1. version # None /\ version # Torn
    BY <1>6, VersionsAreSomething
  <2>2. requests' = [requests EXCEPT ![q] = x]
    BY <2>1 DEF Resolve
  <2> HIDE DEF version
  <2>3. /\ x \in Request /\ x.pc = "loading" /\ x.asked = asked /\ x.version = version
        /\ x.status = None /\ x.code = None /\ x.loaded = <<>>
    <3>1. r \in Request
      BY <1>1
    <3> HIDE DEF r
    <3>2. /\ x \in Request /\ x.pc = "loading" /\ x.asked = asked /\ x.version = version
          /\ x.status = r.status /\ x.code = r.code /\ x.loaded = r.loaded
      BY <3>1, <1>1, <1>6 DEF Request
    <3> HIDE DEF x
    <3> QED  BY <1>2, <3>2
  <2> HIDE DEF x
  <2>4. Sound(x)
    <3>1. None # "PREDICTED" /\ Len(x.loaded) = 0
      BY <2>3, NoneAssumption
    <3> QED  BY <1>6, <2>3, <3>1 DEF Sound
  <2>5. ASSUME ~SharedVersion PROVE Led(x)
    <3>1. asked = None => Finished(version)
      BY <1>6, <2>5 DEF version, IInv, Whole, Pointed
    <3>2. None # "error" /\ None # "no_trained_model"
      BY NoneAssumption
    <3> QED  BY <2>3, <3>1, <3>2 DEF Led
  <2> QED  BY <1>3, <2>2, <2>3, <2>4, <2>5, RequestMoves
<1> QED  BY <1>1, <1>4, <1>5, <1>6

\* A request that followed the pointer finds every file as its training left it.
LEMMA FollowedFindsAll ==
    ASSUME IInv, ~SharedVersion, NEW q \in Requests, requests[q].pc = "loading",
           requests[q].asked = None
    PROVE  ContentFor(q, Loads[Len(requests[q].loaded) + 1]) \in Trainers
<1> DEFINE r == requests[q]
           k == Len(r.loaded) + 1
<1>1. r \in Request
  BY DEF IInv, TypeOK
<1>2. k \in 1..3 /\ r.version \in Versions
  <2>1. Len(r.loaded) \in Nat
    BY <1>1 DEF Request
  <2> QED  BY <2>1 DEF IInv, RequestInv, Sound
<1>3. Finished(r.version)
  BY <1>2 DEF IInv, Whole, Followed, Led
<1>4. PICK t \in Trainers : trainers[t].version = r.version /\ trainers[t].step >= 4
  BY <1>3 DEF Finished
<1>5. trainers[t].step \in Nat
  BY StepsAndLoads DEF IInv, TypeOK, Trainer
<1> HIDE DEF k
<1>6. k < trainers[t].step
  BY <1>2, <1>4, <1>5
<1>7. files[r.version][Steps[k]] = t
  BY <1>2, <1>4, <1>6, VersionsAreSomething DEF IInv, Whole, Saved
<1>8. Steps[k] = Loads[k]
  BY <1>2, StepsAndLoads
<1> QED  BY <1>7, <1>8 DEF ContentFor, k

LEMMA LoadKeeps ==
    ASSUME IInv, NEW q \in Requests, Load(q)
    PROVE  IInv'
<1> DEFINE r == requests[q]
           file == Loads[Len(r.loaded) + 1]
           content == ContentFor(q, file)
<1>1. r \in Request /\ r.pc = "loading"
  BY DEF IInv, TypeOK, Load
<1>2. Len(r.loaded) \in 0..2 /\ r.version \in Versions /\ r.status = None /\ r.code = None
  <2>1. Len(r.loaded) \in Nat
    BY <1>1 DEF Request
  <2>2. Sound(r)
    BY DEF IInv, RequestInv
  <2> HIDE DEF r
  <2>3. Len(r.loaded) < 3
    BY <1>1, <2>2 DEF Sound
  <2>4. \A n \in Nat : n < 3 => n \in 0..2
    OBVIOUS
  <2>5. Len(r.loaded) \in 0..2
    BY <2>1, <2>3, <2>4
  <2> QED  BY <1>1, <2>2, <2>5 DEF Sound
<1>3. \A i \in 1..Len(r.loaded) : trainers[r.loaded[i]].version = r.version
  BY DEF IInv, RequestInv, Sound
<1>4. UNCHANGED <<clock, files, latest, trainers>>
  BY DEF Load
<1>5. CASE content \in Trainers
  <2> DEFINE l == Append(r.loaded, content)
             pc == IF file = "metadata" THEN "predicting" ELSE "loading"
             x == [r EXCEPT !.loaded = l, !.pc = pc]
  <2>1. requests' = [requests EXCEPT ![q] = x]
    <3>1. pc = IF file = "metadata" THEN "predicting" ELSE r.pc
      BY <1>1
    <3> QED  BY <1>5, <3>1, NoneAssumption DEF Load
  <2>2. /\ l \in Seq(Trainers) /\ Len(l) = Len(r.loaded) + 1
        /\ \A i \in 1..Len(r.loaded) : l[i] = r.loaded[i]
        /\ l[Len(l)] = content
    BY <1>1, <1>5 DEF Request
  <2>3. pc = "predicting" <=> Len(l) = 3
    BY <1>2, <2>2, StepsAndLoads
  <2>4. trainers[content].version = r.version
    <3>1. Len(r.loaded) + 1 \in 1..3
      <4>1. \A n \in 0..2 : n + 1 \in 1..3
        OBVIOUS
      <4> QED  BY <1>2, <4>1
    <3>2. file \in Files
      BY <3>1, StepsAndLoads
    <3> QED  BY <1>2, <1>5, <3>2 DEF ContentFor, IInv, FileInv
  <2>5. pc \in {"loading", "predicting"}
    OBVIOUS
  <2> HIDE DEF l, pc, content, file
  <2>6. /\ x \in Request /\ x.pc = pc /\ x.loaded = l /\ x.asked = r.asked
        /\ x.version = r.version /\ x.status = None /\ x.code = None
    <3>1. r \in Request
      BY <1>1
    <3> HIDE DEF r
    <3>2. /\ x \in Request /\ x.pc = pc /\ x.loaded = l /\ x.asked = r.asked
          /\ x.version = r.version /\ x.status = r.status /\ x.code = r.code
      BY <3>1, <2>2, <2>5 DEF Request
    <3> HIDE DEF x
    <3> QED  BY <1>2, <3>2
  <2> HIDE DEF x
  <2>7. \A i \in 1..Len(l) : trainers[l[i]].version = r.version
    <3> TAKE i \in 1..Len(l)
    <3>1. i \in 1..Len(r.loaded) \/ i = Len(l)
      BY <1>2, <2>2
    <3> QED  BY <1>3, <2>2, <2>4, <3>1
  <2>8. Len(l) \in 1..3
    BY SMTT(30), <1>2, <2>2
  <2>9. Sound(x)
    <3>1. None # "PREDICTED"
      BY NoneAssumption
    <3> QED  BY <1>2, <2>3, <2>5, <2>6, <2>7, <2>8, <3>1 DEF Sound
  <2>10. ASSUME ~SharedVersion PROVE Led(x)
    <3>1. Led(r)
      BY <2>10 DEF IInv, Whole, Followed
    <3> QED  BY <1>2, <2>6, <3>1, NoneAssumption DEF Led
  <2> QED  BY <1>4, <2>1, <2>6, <2>9, <2>10, RequestMoves
<1>6. CASE content \notin Trainers
  <2>1. ~SharedVersion => r.asked # None
    BY <1>1, <1>6, FollowedFindsAll
  <2>2. \E x \in Request :
           /\ requests' = [requests EXCEPT ![q] = x]
           /\ x.pc = "answered" /\ x.status # "PREDICTED"
           /\ x.asked = r.asked /\ x.version = r.version /\ x.loaded = r.loaded
    <3>1. CASE content = None /\ file = "model"
      <4>1. requests' = [requests EXCEPT ![q] = NoModel(q, r.asked)]
        BY <1>6, <3>1 DEF Load
      <4>2. r.asked \in Versions \cup {None}
        BY <1>1 DEF Request
      <4> QED  BY ZenonT(30), <4>1, <4>2, NoModelIs
    <3>2. CASE ~(content = None /\ file = "model")
      <4>1. requests' = [requests EXCEPT ![q] = Answer(q, "error", None)]
        BY <1>6, <3>2 DEF Load, Fail
      <4> QED  BY ZenonT(30), <4>1, AnswerIs
    <3> QED  BY <3>1, <3>2
  <2>3. PICK x \in Request :
           /\ requests' = [requests EXCEPT ![q] = x]
           /\ x.pc = "answered" /\ x.status # "PREDICTED"
           /\ x.asked = r.asked /\ x.version = r.version /\ x.loaded = r.loaded
    BY <2>2
  <2>4. Sound(x)
    BY <1>2, <1>3, <2>3 DEF Sound
  <2>5. ~SharedVersion => Led(x)
    BY <2>1, <2>3 DEF Led
  <2> QED  BY <1>4, <2>3, <2>4, <2>5, RequestMoves
<1> QED  BY <1>5, <1>6

LEMMA PredictKeeps ==
    ASSUME IInv, NEW q \in Requests, NEW known \in BOOLEAN, Predict(q, known)
    PROVE  IInv'
<1> DEFINE r == requests[q]
<1>1. r \in Request /\ r.pc = "predicting"
  BY DEF IInv, TypeOK, Predict
<1>2. /\ Len(r.loaded) = 3
      /\ \A i \in 1..Len(r.loaded) : trainers[r.loaded[i]].version = r.version
      /\ r.loaded # <<>> => r.version \in Versions
      /\ UNCHANGED <<clock, files, latest, trainers>>
  BY <1>1 DEF IInv, RequestInv, Sound, Predict
<1>3. PICK s \in {"INSUFFICIENT_DATA", "PREDICTED"},
           c \in {"no_qualifying_observations", None} :
         /\ requests' = [requests EXCEPT ![q] = Answer(q, s, c)]
         /\ s = "PREDICTED" => FeatureVersionOf[r.loaded[3]] = ServedVersion
  BY StepsAndLoads DEF Predict
<1> DEFINE x == Answer(q, s, c)
<1>4. /\ x \in Request /\ x.pc = "answered" /\ x.status = s /\ x.code = c
      /\ x.asked = r.asked /\ x.version = r.version /\ x.loaded = r.loaded
  BY AnswerIs
<1> HIDE DEF x
<1>5. Sound(x)
  BY <1>2, <1>3, <1>4 DEF Sound
<1>6. ASSUME ~SharedVersion PROVE Led(x)
  <2>1. Led(r)
    BY <1>6 DEF IInv, Whole, Followed
  <2>2. c # "no_trained_model"
    BY NoneAssumption
  <2> QED  BY <1>4, <2>1, <2>2 DEF Led
<1>7. requests' = [requests EXCEPT ![q] = x]
  BY <1>3 DEF x
<1> QED  BY <1>2, <1>4, <1>5, <1>6, <1>7, RequestMoves

-----------------------------------------------------------------------------
(* Theorems.                                                               *)

\* Files, pointer, trainings and requests agree in every state.
THEOREM InductiveInvariant == Spec => []IInv
<1>1. Init => IInv
  <2> SUFFICES ASSUME Init PROVE IInv
    OBVIOUS
  <2>1. TypeOK
    <3>1. clock \in 0..MaxClock
      BY ClockAssumption DEF Init
    <3>2. files \in [Versions -> [Files -> Trainers \cup {None, Torn}]]
      BY DEF Init
    <3>3. [pc |-> "idle", version |-> None, step |-> 1, open |-> FALSE] \in Trainer
      BY StepsAndLoads DEF Trainer
    <3>4. [pc |-> "idle", asked |-> None, version |-> None, loaded |-> <<>>,
           status |-> None, code |-> None] \in Request
      BY DEF Request
    <3>5. trainers \in [Trainers -> Trainer] /\ requests \in [Requests -> Request]
      BY <3>3, <3>4 DEF Init
    <3>6. latest \in Versions \cup {None, Torn}
      BY DEF Init
    <3> QED  BY <3>1, <3>2, <3>5, <3>6 DEF TypeOK
  <2>2. \A t \in Trainers : trainers[t].pc = "idle" /\ trainers[t].version = None
                            /\ trainers[t].step = 1
    BY DEF Init
  <2>3. TrainerInv
    BY <2>2 DEF TrainerInv
  <2>4. FileInv
    BY NoneAssumption DEF Init, FileInv
  <2>5. \A q \in Requests : LET r == requests[q] IN
           /\ r.pc = "idle" /\ r.loaded = <<>> /\ r.asked = None /\ r.version = None
           /\ r.status = None /\ r.code = None
    BY DEF Init
  <2>6. RequestInv
    <3>1. None # "PREDICTED" /\ Len(<<>>) = 0
      BY NoneAssumption
    <3> QED  BY <2>5, <3>1 DEF RequestInv, Sound
  <2>7. Saved /\ Pointed /\ Followed
    <3>1. latest = None
      BY DEF Init
    <3> QED  BY <2>2, <2>5, <3>1, VersionsAreSomething DEF Saved, Pointed, Followed, Led
  <2> QED  BY <2>1, <2>3, <2>4, <2>6, <2>7 DEF IInv, Whole
<1>2. ASSUME IInv, [Next]_vars PROVE IInv'
  <2>1. ASSUME UNCHANGED <<files, latest, trainers, requests>>, clock' \in 0..MaxClock
        PROVE  IInv'
    <3>1. TypeOK'
      BY <1>2, <2>1 DEF IInv, TypeOK
    <3> QED  BY <1>2, <2>1, <3>1 DEF IInv, TrainerInv, FileInv, RequestInv, Sound, Whole,
                SharedVersion, Saved, Pointed, Followed, Led, Finished
  <2>2. CASE UNCHANGED vars
    BY <1>2, <2>1, <2>2 DEF vars, IInv, TypeOK
  <2>3. CASE Tick
    BY <1>2, <2>1, <2>3, ClockAssumption DEF Tick, IInv, TypeOK
  <2>4. ASSUME NEW t \in Trainers, GiveUp(t) \/ Fit(t) \/ Open(t) \/ Write(t) \/ Die(t)
        PROVE  IInv'
    BY <1>2, <2>4, GiveUpKeeps, FitKeeps, OpenKeeps, WriteKeeps, DieKeeps
  <2>5. ASSUME NEW q \in Requests, NEW asked \in Versions \cup {None}, Resolve(q, asked)
        PROVE  IInv'
    BY <1>2, <2>5, ResolveKeeps
  <2>6. ASSUME NEW q \in Requests, Load(q) \/ \E known \in BOOLEAN : Predict(q, known)
        PROVE  IInv'
    BY <1>2, <2>6, LoadKeeps, PredictKeeps
  <2> QED  BY <1>2, <2>2, <2>3, <2>4, <2>5, <2>6 DEF Next
<1> QED  BY <1>1, <1>2, PTL DEF Spec

\* Whatever trainings run, end or die meanwhile, a request gets the three files
\* of one training, and one that follows the pointer finds all of them, unless
\* two trainings share a version (save_artifact, load_model).
THEOREM LoadedModelsAreWhole == Spec => []LatestModelIsWhole
<1>1. IInv => LatestModelIsWhole
  <2> SUFFICES ASSUME IInv, ~SharedVersion, NEW q \in Requests
               PROVE  LET r == requests[q] IN
                      /\ \A i, k \in DOMAIN r.loaded : r.loaded[i] = r.loaded[k]
                      /\ r.status = "PREDICTED" =>
                            /\ Len(r.loaded) = Len(Loads)
                            /\ r.version = trainers[r.loaded[1]].version
                            /\ r.version[1] = ServedVersion
                      /\ r.asked = None /\ r.version \in Versions =>
                            r.status # "error" /\ r.code # "no_trained_model"
    BY DEF LatestModelIsWhole
  <2> DEFINE r == requests[q]
  <2>1. r \in Request /\ Sound(r) /\ Led(r)
    BY DEF IInv, TypeOK, RequestInv, Whole, Followed
  <2>2. DOMAIN r.loaded = 1..Len(r.loaded) /\ \A i \in DOMAIN r.loaded : r.loaded[i] \in Trainers
    BY <2>1 DEF Request
  <2> HIDE DEF r
  <2>3. \A i \in DOMAIN r.loaded : trainers[r.loaded[i]].version = r.version /\ r.version # None
    <3> TAKE i \in DOMAIN r.loaded
    <3>1. r.loaded # <<>>
      BY <2>2
    <3> QED  BY <2>1, <2>2, <3>1, VersionsAreSomething DEF Sound
  <2>4. \A i, k \in DOMAIN r.loaded : r.loaded[i] = r.loaded[k]
    BY <2>2, <2>3 DEF SharedVersion
  <2>5. ASSUME r.status = "PREDICTED"
        PROVE  /\ Len(r.loaded) = Len(Loads)
               /\ r.version = trainers[r.loaded[1]].version
               /\ r.version[1] = ServedVersion
    <3>1. Len(r.loaded) = 3 /\ FeatureVersionOf[r.loaded[3]] = ServedVersion
      BY <2>1, <2>5 DEF Sound
    <3>2. 1 \in DOMAIN r.loaded /\ 3 \in DOMAIN r.loaded
      BY <2>2, <3>1
    <3>3. trainers[r.loaded[3]].version[1] = FeatureVersionOf[r.loaded[3]]
      BY <2>2, <2>3, <3>2 DEF IInv, TrainerInv
    <3> QED  BY <2>3, <3>1, <3>2, <3>3, StepsAndLoads
  <2>6. r.asked = None /\ r.version \in Versions =>
           r.status # "error" /\ r.code # "no_trained_model"
    BY <2>1 DEF Led
  <2> QED  BY <2>4, <2>5, <2>6 DEF r
<1> QED  BY <1>1, InductiveInvariant, PTL

\* Files, trainings and requests keep their types: a version is a reading of the
\* clock, a file is missing, torn or one training's.
THEOREM TypeCorrect == Spec => []TypeOK
<1>1. IInv => TypeOK
  BY DEF IInv
<1> QED  BY <1>1, InductiveInvariant, PTL
=============================================================================
