---------------------------- MODULE MCChecks_proofs ----------------------------
(***************************************************************************)
(* Theorems about MCChecks, which puts parts that share no state beside    *)
(* each other: what is proved of a part alone (Checks_proofs, Parts_proofs *)
(* and, here, the directory of models, the backtests and the features)     *)
(* holds of it there, as a step of all is a step of that part, or leaves   *)
(* it alone.                                                               *)
(***************************************************************************)
EXTENDS MCChecks, Checks_proofs, Parts_proofs

-------------------------------------------------------------------------------
(* The directory of models. *)

ModelCount == 2 * Len(Outputs)
OfTraining == [of: Nat, next: Nat, without: SUBSET Nat]
OfLoading  == [is: {"none", "reads", "failed", "loaded"}, order: Nat, models: Seq(Nat), during: SUBSET Nat]

\* A model of the index future.
OfMx(i) == Models[i][2] = "mx_specific"

LEMMA ModelsAre ==
    /\ ModelCount \in Nat /\ ModelCount >= 1 /\ DOMAIN Models = 1 .. ModelCount /\ Len(Models) = ModelCount
    /\ MaxTrainings \in Nat /\ TornModel = MaxTrainings + 1 /\ Absent = 0
  <1>1. Len(Outputs) \in Nat /\ Len(Outputs) # 0 /\ MaxTrainings \in Nat
    BY ModelFilesAssumption, EmptySeq, LenProperties
  <1>2. ModelCount \in Nat /\ ModelCount >= 1
    BY <1>1 DEF ModelCount
  <1>3. DOMAIN Models = 1 .. ModelCount
    BY DEF Models, ModelCount
  <1>4. Len(Models) = ModelCount
    <2>1. PICK S : \A i \in 1 .. ModelCount : Models[i] \in S
      <3>1. \A i \in 1 .. ModelCount : Models[i] \in {Models[j] : j \in 1 .. ModelCount}
        OBVIOUS
      <3>2. QED
        BY <3>1
    <2>2. Models \in [1 .. ModelCount -> S]
      BY <1>3, <2>1 DEF Models, ModelCount
    <2>3. Models \in Seq(S)
      BY <1>2, <2>2, SeqDef
    <2>4. QED
      BY <1>2, <1>3, <2>3, LenProperties
  <1>5. QED
    BY <1>1, <1>2, <1>3, <1>4 DEF TornModel, Absent

\* What the files hold, while trainings write them, and after.
FilesTyped ==
    /\ trainings \in 0 .. MaxTrainings
    /\ featureOrder \in Nat /\ (featureOrder <= trainings \/ featureOrder = TornModel)
    /\ modelFile \in [1 .. ModelCount -> Nat]
    /\ \A i \in 1 .. ModelCount : modelFile[i] <= trainings \/ modelFile[i] = TornModel
    /\ training \in OfTraining /\ training.without \subseteq 1 .. ModelCount /\ training.next <= ModelCount + 1
    /\ training.of \in {0, trainings} /\ (training.of = 0 <=> training = NoTraining)
    /\ partial \subseteq 1 .. trainings /\ withMx \subseteq 1 .. trainings
    /\ verified \in {"nothing", "clean", "issues", "crash"}

FilesFollow ==
    /\ \A i \in 1 .. ModelCount :
         /\ modelFile[i] # TornModel => modelFile[i] <= featureOrder
         /\ \A n \in 1 .. trainings : n \notin partial /\ n # training.of => n <= modelFile[i]
         /\ OfMx(i) => modelFile[i] \in withMx \cup {0, TornModel}
    /\ training = NoTraining /\ trainings \notin partial =>
         featureOrder = trainings /\ \A i \in 1 .. ModelCount : modelFile[i] = trainings

\* How far the training has come that is under way.
TrainingFollows ==
    training # NoTraining =>
        /\ training.next > 0 => featureOrder = trainings
        /\ \A i \in 1 .. ModelCount : i < training.next /\ i \notin training.without => modelFile[i] = trainings
        /\ training.without # {} => trainings \in partial
        /\ \A i \in 1 .. ModelCount : OfMx(i) /\ i \notin training.without => trainings \in withMx

\* What a start of the predictor has read.
LoadingFollows ==
    /\ loading \in OfLoading /\ loading.is \in {"none", "reads"} /\ (loading.is = "none" <=> loading = NoLoading)
    /\ loading.is = "reads" =>
         /\ loading.order \in 1 .. trainings /\ loading.during \subseteq 1 .. trainings
         /\ Len(loading.models) < ModelCount
         /\ training.of # 0 => training.of \in loading.during
         /\ loading.during = {} => loading.order = featureOrder
         /\ \A k \in 1 .. Len(loading.models) :
              /\ loading.models[k] \in 1 .. trainings
              /\ loading.during = {} => loading.models[k] = modelFile[k]
              /\ OfMx(k) => loading.models[k] \in withMx
              /\ \A n \in 1 .. trainings : n \notin partial /\ n \notin loading.during => n <= loading.models[k]

\* What it has loaded: as OrderIsNotOlder and ModelsAreOfOneTraining, with the training to blame.
BundleFits ==
    /\ bundle \in OfLoading /\ Len(bundle.models) <= ModelCount /\ bundle.during \subseteq 1 .. trainings
    /\ bundle.is = "loaded" => \A k \in 1 .. Len(bundle.models) :
         /\ bundle.models[k] > bundle.order => bundle.during # {}
         /\ bundle.models[k] < bundle.order => bundle.order \in partial \cup bundle.during
         /\ OfMx(k) => bundle.models[k] \in withMx
         /\ \A j \in 1 .. Len(bundle.models) :
              bundle.models[k] < bundle.models[j] => bundle.models[j] \in partial \cup bundle.during

ModelsInv == FilesTyped /\ FilesFollow /\ TrainingFollows /\ LoadingFollows /\ BundleFits

LEMMA NoneTyped ==
    /\ NoTraining \in OfTraining /\ NoTraining.of = 0 /\ NoTraining.next = 0 /\ NoTraining.without = {}
    /\ NoLoading \in OfLoading /\ NoLoading.is = "none" /\ NoLoading.order = 0 /\ NoLoading.models = <<>>
    /\ NoLoading.during = {} /\ Len(NoLoading.models) = 0 /\ DOMAIN NoLoading.models = {}
    /\ [NoLoading EXCEPT !.is = "failed"] \in OfLoading /\ [NoLoading EXCEPT !.is = "failed"].is = "failed"
    /\ [NoLoading EXCEPT !.is = "failed"].models = <<>> /\ [NoLoading EXCEPT !.is = "failed"].during = {}
  <1>1. <<>> \in Seq(Nat) /\ Len(<<>>) = 0 /\ DOMAIN <<>> = {}
    BY EmptySeq
  <1>2. NoTraining \in OfTraining /\ NoTraining.of = 0 /\ NoTraining.next = 0 /\ NoTraining.without = {}
    BY DEF NoTraining, OfTraining
  <1>3. /\ NoLoading \in OfLoading /\ NoLoading.is = "none" /\ NoLoading.order = 0 /\ NoLoading.models = <<>>
        /\ NoLoading.during = {}
    BY <1>1 DEF NoLoading, OfLoading
  <1>4. /\ [NoLoading EXCEPT !.is = "failed"] \in OfLoading /\ [NoLoading EXCEPT !.is = "failed"].is = "failed"
        /\ [NoLoading EXCEPT !.is = "failed"].models = <<>> /\ [NoLoading EXCEPT !.is = "failed"].during = {}
    BY <1>1 DEF NoLoading, OfLoading
  <1>5. QED
    BY <1>1, <1>2, <1>3, <1>4

LEMMA ModelsStart ==
    ASSUME ModelFilesInit PROVE ModelsInv
  <1>1. /\ featureOrder = 0 /\ trainings = 0 /\ training = NoTraining /\ partial = {} /\ withMx = {}
        /\ verified = "nothing" /\ loading = NoLoading /\ bundle = NoLoading
        /\ modelFile = [i \in 1 .. ModelCount |-> 0]
    BY ModelsAre DEF ModelFilesInit
  <1>2. FilesTyped
    BY <1>1, ModelsAre, NoneTyped DEF FilesTyped
  <1>3. FilesFollow
    BY <1>1, ModelsAre, NoneTyped DEF FilesFollow
  <1>4. TrainingFollows
    BY <1>1 DEF TrainingFollows
  <1>5. LoadingFollows /\ BundleFits
    BY <1>1, ModelsAre, NoneTyped DEF LoadingFollows, BundleFits
  <1>6. QED
    BY <1>2, <1>3, <1>4, <1>5 DEF ModelsInv

LEMMA ModelsSay ==
    ASSUME ModelsInv PROVE ModelsFitTogether /\ ModelFilesTypeOK
  <1>1. FilesTyped /\ FilesFollow /\ LoadingFollows /\ BundleFits
    BY DEF ModelsInv
  <1>2. bundle \in OfLoading /\ loading \in OfLoading
    BY <1>1 DEF LoadingFollows, BundleFits
  <1>3. \A b \in OfLoading : DOMAIN b.models = 1 .. Len(b.models) /\ Len(b.models) \in Nat
    BY LenProperties DEF OfLoading
  <1>4. OrderIsNotOlder
    BY <1>1, <1>2, <1>3 DEF BundleFits, OrderIsNotOlder
  <1>5. ModelsAreOfOneTraining
    BY <1>1, <1>2, <1>3 DEF BundleFits, ModelsAreOfOneTraining, OfMx
  <1>6. CleanCanBeLoaded
    <2> SUFFICES ASSUME training = NoTraining, trainings \notin partial
                 PROVE  {featureOrder} \cup {modelFile[i] : i \in DOMAIN modelFile} = {trainings}
      BY DEF CleanCanBeLoaded
    <2>1. featureOrder = trainings /\ \A i \in 1 .. ModelCount : modelFile[i] = trainings
      BY <1>1 DEF FilesFollow
    <2>2. DOMAIN modelFile = 1 .. ModelCount
      BY <1>1 DEF FilesTyped
    <2>3. QED
      BY <2>1, <2>2
  <1>7. ModelFilesTypeOK
    <2>1. /\ featureOrder \in 0 .. trainings \cup {TornModel} /\ trainings \in 0 .. MaxTrainings
          /\ modelFile \in [DOMAIN Models -> 0 .. trainings \cup {TornModel}]
          /\ partial \cup withMx \subseteq 1 .. trainings
      BY <1>1, ModelsAre DEF FilesTyped
    <2>2. /\ training.of \in {0, trainings} /\ training.next \in Steps /\ training.without \subseteq DOMAIN Models
          /\ verified \in {"nothing", "clean", "issues", "crash"}
      BY <1>1, ModelsAre DEF FilesTyped, OfTraining, Steps
    <2>3. \A b \in {loading, bundle} : b.is \in {"none", "reads", "failed", "loaded"}
      BY <1>2 DEF OfLoading
    <2>4. DOMAIN loading.models \subseteq DOMAIN Models /\ loading.during \subseteq 1 .. trainings
      BY <1>1, <1>2, <1>3, ModelsAre, NoneTyped DEF LoadingFollows
    <2>5. DOMAIN bundle.models \subseteq DOMAIN Models /\ bundle.during \subseteq 1 .. trainings
      BY <1>1, <1>2, <1>3, ModelsAre DEF BundleFits
    <2>6. QED
      BY <2>1, <2>2, <2>3, <2>4, <2>5 DEF ModelFilesTypeOK
  <1>8. QED
    BY <1>4, <1>5, <1>6, <1>7 DEF ModelsFitTogether

LEMMA StartTrainingKeeps ==
    ASSUME ModelsInv, StartTraining PROVE ModelsInv'
  <1>1. FilesTyped /\ FilesFollow /\ TrainingFollows /\ LoadingFollows /\ BundleFits
    BY DEF ModelsInv
  <1>2. /\ training = NoTraining /\ trainings < MaxTrainings /\ trainings' = trainings + 1
        /\ UNCHANGED <<featureOrder, modelFile, verified, bundle>>
        /\ loading' = IF loading = NoLoading THEN loading
                                             ELSE [loading EXCEPT !.during = @ \cup {trainings'}]
    BY DEF StartTraining
  <1>3. PICK mx \in BOOLEAN, without \in SUBSET (1 .. ModelCount) :
           /\ \A i \in 1 .. ModelCount : OfMx(i) /\ i \notin without => mx
           /\ training' = [of |-> trainings', next |-> 0, without |-> without]
           /\ partial' = (IF without = {} THEN partial ELSE partial \cup {trainings'})
           /\ withMx' = (IF mx THEN withMx \cup {trainings'} ELSE withMx)
    <2>1. PICK mx \in BOOLEAN, unclean \in {{}} \cup {{Outputs[k]} : k \in DOMAIN Outputs} :
             LET without == {i \in DOMAIN Models : \/ Models[i][1] \in unclean
                                                   \/ Models[i][2] = "mx_specific" /\ ~mx} IN
             /\ training' = [of |-> trainings', next |-> 0, without |-> without]
             /\ partial' = IF without = {} THEN partial ELSE partial \cup {trainings'}
             /\ withMx' = IF mx THEN withMx \cup {trainings'} ELSE withMx
      BY DEF StartTraining
    <2>2. PICK without : without = {i \in DOMAIN Models : \/ Models[i][1] \in unclean
                                                          \/ Models[i][2] = "mx_specific" /\ ~mx}
      OBVIOUS
    <2>3. without \subseteq 1 .. ModelCount
      BY <2>2, ModelsAre
    <2>4. \A i \in 1 .. ModelCount : OfMx(i) /\ i \notin without => mx
      BY <2>2, ModelsAre DEF OfMx
    <2>5. QED
      BY <2>1, <2>2, <2>3, <2>4
  <1>4. trainings \in Nat /\ trainings' \in 1 .. MaxTrainings /\ MaxTrainings \in Nat
    BY <1>1, <1>2, ModelsAre DEF FilesTyped
  <1>5. /\ training' \in OfTraining /\ training'.of = trainings + 1 /\ training'.next = 0
        /\ training'.without = without /\ training'.of # 0 /\ training' # NoTraining
    BY <1>2, <1>3, <1>4, NoneTyped DEF OfTraining
  <1>6. partial \subseteq partial' /\ withMx \subseteq withMx' /\ training.of = 0
    BY <1>2, <1>3, NoneTyped
  <1>7. FilesTyped'
    <2>1. partial' \subseteq 1 .. trainings' /\ withMx' \subseteq 1 .. trainings'
      BY <1>1, <1>2, <1>3, <1>4 DEF FilesTyped
    <2>2. \A i \in 1 .. ModelCount : modelFile'[i] <= trainings' \/ modelFile'[i] = TornModel
      <3>1. \A i \in 1 .. ModelCount : modelFile[i] \in Nat /\ (modelFile[i] <= trainings \/ modelFile[i] = TornModel)
        BY <1>1 DEF FilesTyped
      <3>2. QED
        BY <1>2, <1>4, <3>1
    <2>3. featureOrder' \in Nat /\ (featureOrder' <= trainings' \/ featureOrder' = TornModel)
      BY <1>1, <1>2, <1>4 DEF FilesTyped
    <2>4. /\ modelFile' \in [1 .. ModelCount -> Nat] /\ verified' \in {"nothing", "clean", "issues", "crash"}
          /\ trainings' \in 0 .. MaxTrainings
      BY <1>1, <1>2, <1>4 DEF FilesTyped
    <2>5. /\ training'.without \subseteq 1 .. ModelCount /\ training'.next <= ModelCount + 1
          /\ training'.of \in {0, trainings'}
      BY <1>2, <1>3, <1>5, ModelsAre
    <2>6. QED
      BY <1>5, <2>1, <2>2, <2>3, <2>4, <2>5, ModelsAre DEF FilesTyped, TornModel
  <1>8. FilesFollow'
    <2>1. ASSUME NEW i \in 1 .. ModelCount
          PROVE  /\ modelFile'[i] # TornModel => modelFile'[i] <= featureOrder'
                 /\ \A n \in 1 .. trainings' : n \notin partial' /\ n # training'.of => n <= modelFile'[i]
                 /\ OfMx(i) => modelFile'[i] \in withMx' \cup {0, TornModel}
      <3>1. \A n \in 1 .. trainings' : n # training'.of => n \in 1 .. trainings
        BY <1>2, <1>4, <1>5
      <3>2. \A n \in 1 .. trainings : n \notin partial /\ n # 0 => n <= modelFile[i]
        BY <1>1, <1>6 DEF FilesFollow
      <3>3. \A n \in 1 .. trainings' : n \notin partial' /\ n # training'.of => n <= modelFile'[i]
        BY <1>2, <1>6, <3>1, <3>2
      <3>4. (modelFile'[i] # TornModel => modelFile'[i] <= featureOrder') /\ (OfMx(i) => modelFile'[i] \in withMx' \cup {0, TornModel})
        BY <1>1, <1>2, <1>6 DEF FilesFollow
      <3>5. QED
        BY <3>3, <3>4
    <2>2. QED
      BY <1>5, <2>1 DEF FilesFollow, TornModel
  <1>9. TrainingFollows'
    <2>1. without # {} => trainings' \in partial'
      BY <1>3
    <2>2. mx => trainings' \in withMx'
      BY <1>3
    <2>3. \A i \in 1 .. ModelCount : ~(i < training'.next)
      BY <1>5
    <2>4. QED
      BY <1>3, <1>5, <2>1, <2>2, <2>3 DEF TrainingFollows
  <1>10. LoadingFollows'
    <2>1. CASE loading = NoLoading
      <3>1. loading' = NoLoading
        BY <1>2, <2>1
      <3>2. QED
        BY <3>1, NoneTyped DEF LoadingFollows
    <2>2. CASE loading # NoLoading
      <3>1. loading.is = "reads" /\ loading \in OfLoading
        BY <1>1, <2>2 DEF LoadingFollows
      <3>2. loading' = [loading EXCEPT !.during = @ \cup {trainings'}]
        BY <1>2, <2>2
      <3>3. /\ loading' \in OfLoading /\ loading'.is = "reads" /\ loading'.order = loading.order
            /\ loading'.models = loading.models /\ loading'.during = loading.during \cup {trainings'}
        BY <1>4, <3>1, <3>2 DEF OfLoading
      <3>4. loading'.during # {}
        BY <3>3
      <3>5. loading'.order \in 1 .. trainings' /\ loading'.during \subseteq 1 .. trainings'
        BY <1>1, <1>2, <1>4, <3>1, <3>3 DEF LoadingFollows
      <3>6. training'.of \in loading'.during
        BY <1>2, <1>5, <3>3
      <3>7. ASSUME NEW k \in 1 .. Len(loading'.models)
            PROVE  /\ loading'.models[k] \in 1 .. trainings'
                   /\ OfMx(k) => loading'.models[k] \in withMx'
                   /\ \A n \in 1 .. trainings' : n \notin partial' /\ n \notin loading'.during => n <= loading'.models[k]
        <4>1. /\ loading.models[k] \in 1 .. trainings /\ (OfMx(k) => loading.models[k] \in withMx)
              /\ \A n \in 1 .. trainings : n \notin partial /\ n \notin loading.during => n <= loading.models[k]
          BY <1>1, <3>1, <3>3 DEF LoadingFollows
        <4>2. \A n \in 1 .. trainings' : n # trainings' => n \in 1 .. trainings
          BY <1>2, <1>4
        <4>3. \A n \in 1 .. trainings' : n \notin partial' /\ n \notin loading'.during => n <= loading'.models[k]
          BY <1>6, <3>3, <4>1, <4>2
        <4>4. QED
          BY <1>2, <1>4, <1>6, <3>3, <4>1, <4>3
      <3>8. loading' # NoLoading /\ Len(loading'.models) < ModelCount
        BY <1>1, <3>1, <3>3, NoneTyped DEF LoadingFollows
      <3>9. QED
        BY <3>3, <3>4, <3>5, <3>6, <3>7, <3>8 DEF LoadingFollows
    <2>3. QED
      BY <2>1, <2>2
  <1>11. BundleFits'
    BY <1>1, <1>2, <1>4, <1>6 DEF BundleFits
  <1>12. QED
    BY <1>7, <1>8, <1>9, <1>10, <1>11 DEF ModelsInv

\* A file takes the number of the training, or is torn by it.
LEMMA FilesKeepFitting ==
    ASSUME FilesTyped, FilesFollow, training # NoTraining, trainings' = trainings, partial \subseteq partial',
           withMx' = withMx, featureOrder' \in {featureOrder, trainings, TornModel},
           NEW at, NEW to \in {trainings, TornModel}, \A i \in 1 .. ModelCount : modelFile'[i] = IF i = at THEN to ELSE modelFile[i],
           \A i \in 1 .. ModelCount : i = at /\ to # TornModel => featureOrder' = trainings,
           \A i \in 1 .. ModelCount : i = at /\ to # TornModel /\ OfMx(i) => trainings \in withMx
    PROVE  /\ featureOrder' \in Nat /\ (featureOrder' <= trainings' \/ featureOrder' = TornModel)
           /\ \A i \in 1 .. ModelCount :
                /\ modelFile'[i] \in Nat /\ (modelFile'[i] <= trainings' \/ modelFile'[i] = TornModel)
                /\ modelFile'[i] # TornModel => modelFile'[i] <= featureOrder'
                /\ \A n \in 1 .. trainings' : n \notin partial' /\ n # training.of => n <= modelFile'[i]
                /\ OfMx(i) => modelFile'[i] \in withMx' \cup {0, TornModel}
  <1>1. /\ trainings \in Nat /\ trainings < TornModel /\ TornModel \in Nat
        /\ featureOrder \in Nat /\ (featureOrder <= trainings \/ featureOrder = TornModel)
    BY ModelsAre DEF FilesTyped
  <1>2. featureOrder' \in Nat /\ (featureOrder' <= trainings' \/ featureOrder' = TornModel)
    BY <1>1
  <1>3. ASSUME NEW i \in 1 .. ModelCount
        PROVE  /\ modelFile'[i] \in Nat /\ (modelFile'[i] <= trainings' \/ modelFile'[i] = TornModel)
               /\ modelFile'[i] # TornModel => modelFile'[i] <= featureOrder'
               /\ \A n \in 1 .. trainings' : n \notin partial' /\ n # training.of => n <= modelFile'[i]
               /\ OfMx(i) => modelFile'[i] \in withMx' \cup {0, TornModel}
    <2>1. /\ modelFile[i] \in Nat /\ (modelFile[i] <= trainings \/ modelFile[i] = TornModel)
          /\ modelFile[i] # TornModel => modelFile[i] <= featureOrder
          /\ \A n \in 1 .. trainings : n \notin partial /\ n # training.of => n <= modelFile[i]
          /\ OfMx(i) => modelFile[i] \in withMx \cup {0, TornModel}
      BY DEF FilesTyped, FilesFollow
    <2>2. CASE i = at
      <3>1. modelFile'[i] = to /\ to \in Nat /\ trainings <= to
        BY <1>1, <2>2
      <3>2. \A n \in 1 .. trainings' : n <= modelFile'[i]
        BY <1>1, <3>1
      <3>3. modelFile'[i] # TornModel => modelFile'[i] <= featureOrder'
        BY <1>1, <2>2, <3>1
      <3>4. OfMx(i) => modelFile'[i] \in withMx' \cup {0, TornModel}
        BY <2>2, <3>1
      <3>5. modelFile'[i] \in Nat /\ (modelFile'[i] <= trainings' \/ modelFile'[i] = TornModel)
        BY <1>1, <3>1
      <3>6. QED
        BY <3>2, <3>3, <3>4, <3>5
    <2>3. CASE i # at
      <3>1. modelFile'[i] = modelFile[i]
        BY <2>3
      <3>2. modelFile'[i] # TornModel => modelFile'[i] <= featureOrder'
        <4>1. modelFile[i] # TornModel => modelFile[i] <= trainings /\ modelFile[i] <= featureOrder
          BY <2>1
        <4>2. featureOrder' = featureOrder \/ trainings <= featureOrder'
          BY <1>1
        <4>3. QED
          BY <1>1, <1>2, <2>1, <3>1, <4>1, <4>2
      <3>3. QED
        BY <2>1, <3>1, <3>2
    <2>4. QED
      BY <2>2, <2>3
  <1>4. QED
    BY <1>2, <1>3

\* A start of the predictor that a training overlaps with.
LEMMA LoadingKeepsFitting ==
    ASSUME LoadingFollows, FilesTyped, UNCHANGED <<loading, trainings, withMx>>, partial \subseteq partial',
           training'.of \in {0, training.of}, training.of # 0 \/ UNCHANGED <<featureOrder, modelFile>>
    PROVE  LoadingFollows'
  <1>1. CASE loading.is = "none"
    BY <1>1, NoneTyped DEF LoadingFollows
  <1>2. CASE loading.is = "reads"
    <2>1. training'.of # 0 => training'.of \in loading'.during
      BY <1>2 DEF LoadingFollows
    <2>2. training.of # 0 => loading'.during # {}
      BY <1>2 DEF LoadingFollows
    <2>3. loading'.during = {} => loading'.order = featureOrder'
      BY <1>2, <2>2 DEF LoadingFollows
    <2>4. \A k \in 1 .. Len(loading'.models) : loading'.during = {} => loading'.models[k] = modelFile'[k]
      BY <1>2, <2>2 DEF LoadingFollows
    <2>5. QED
      BY <1>2, <2>1, <2>3, <2>4 DEF LoadingFollows
  <1>3. QED
    BY <1>1, <1>2 DEF LoadingFollows

LEMMA WriteKeeps ==
    ASSUME ModelsInv, Write PROVE ModelsInv'
  <1>1. FilesTyped /\ FilesFollow /\ TrainingFollows /\ LoadingFollows /\ BundleFits
    BY DEF ModelsInv
  <1>2. PICK i : i = training.next
    OBVIOUS
  <1>3. /\ training # NoTraining /\ featureOrder' = (IF i = 0 THEN training.of ELSE featureOrder)
        /\ modelFile' = (IF i \in DOMAIN modelFile \ training.without THEN [modelFile EXCEPT ![i] = training.of] ELSE modelFile)
        /\ \/ i = ModelCount + 1 /\ verified' = Verdict(modelFile) /\ training' = NoTraining
           \/ i # ModelCount + 1 /\ training' = [training EXCEPT !.next = i + 1] /\ UNCHANGED verified
        /\ UNCHANGED <<trainings, partial, withMx, loading, bundle>>
    BY <1>2, ModelsAre DEF Write, OrderComesAt
  <1>4. /\ training.of = trainings /\ trainings \in Nat /\ trainings # 0 /\ DOMAIN modelFile = 1 .. ModelCount
        /\ i \in Nat /\ i <= ModelCount + 1 /\ training \in OfTraining /\ ModelCount \in Nat
    BY <1>1, <1>2, <1>3, ModelsAre DEF FilesTyped, OfTraining
  <1>5. PICK at : at = IF i \in 1 .. ModelCount /\ i \notin training.without THEN i ELSE 0
    OBVIOUS
  <1>6. \A j \in 1 .. ModelCount : modelFile'[j] = IF j = at THEN trainings ELSE modelFile[j]
    <2>1. modelFile \in [1 .. ModelCount -> Nat]
      BY <1>1 DEF FilesTyped
    <2>2. QED
      BY <1>3, <1>4, <1>5, <2>1
  <1>7. \A j \in 1 .. ModelCount : j = at => j = i /\ i > 0 /\ i \notin training.without
    BY <1>4, <1>5
  <1>8. i > 0 => featureOrder = trainings
    BY <1>1, <1>2, <1>3 DEF TrainingFollows
  <1>9. featureOrder' = trainings
    BY <1>3, <1>4, <1>8
  <1>10. \A j \in 1 .. ModelCount : j = at /\ OfMx(j) => trainings \in withMx
    BY <1>1, <1>3, <1>7 DEF TrainingFollows
  <1>11. /\ featureOrder' \in Nat /\ (featureOrder' <= trainings' \/ featureOrder' = TornModel)
         /\ \A j \in 1 .. ModelCount :
                /\ modelFile'[j] \in Nat /\ (modelFile'[j] <= trainings' \/ modelFile'[j] = TornModel)
                /\ modelFile'[j] # TornModel => modelFile'[j] <= featureOrder'
                /\ \A n \in 1 .. trainings' : n \notin partial' /\ n # training.of => n <= modelFile'[j]
                /\ OfMx(j) => modelFile'[j] \in withMx' \cup {0, TornModel}
    BY <1>1, <1>3, <1>6, <1>9, <1>10, FilesKeepFitting
  <1>12. modelFile' \in [1 .. ModelCount -> Nat]
    BY <1>1, <1>3, <1>4 DEF FilesTyped
  <1>13. \A j \in 1 .. ModelCount : j < i + 1 /\ j \notin training.without => modelFile'[j] = trainings
    <2> SUFFICES ASSUME NEW j \in 1 .. ModelCount, j < i + 1, j \notin training.without PROVE modelFile'[j] = trainings
      OBVIOUS
    <2>1. CASE j = i
      BY <1>5, <1>6, <2>1
    <2>2. CASE j # i
      <3>1. j < i
        BY <1>4, <2>2
      <3>2. modelFile[j] = trainings
        BY <1>1, <1>2, <1>3, <3>1 DEF TrainingFollows
      <3>3. QED
        BY <1>6, <3>2
    <2>3. QED
      BY <2>1, <2>2
  <1>14. CASE i = ModelCount + 1
    <2>1. training' = NoTraining /\ verified' = Verdict(modelFile)
      BY <1>3, <1>14
    <2>2. verified' \in {"nothing", "clean", "issues", "crash"}
      BY <2>1 DEF Verdict
    <2>3. FilesTyped'
      BY <1>1, <1>3, <1>11, <1>12, <2>1, <2>2, NoneTyped, ModelsAre DEF FilesTyped, TornModel
    <2>4. trainings \notin partial => \A j \in 1 .. ModelCount : modelFile'[j] = trainings
      <3>1. trainings \notin partial => training.without = {}
        BY <1>1, <1>3 DEF TrainingFollows
      <3>2. \A j \in 1 .. ModelCount : j < i + 1
        BY <1>4, <1>14
      <3>3. QED
        BY <1>13, <3>1, <3>2
    <2>5. \A j \in 1 .. ModelCount : \A n \in 1 .. trainings' : n \notin partial' => n <= modelFile'[j]
      <3>1. \A j \in 1 .. ModelCount : trainings \notin partial => trainings <= modelFile'[j]
        BY <1>4, <2>4
      <3>2. QED
        BY <1>3, <1>4, <1>11, <3>1
    <2>6. FilesFollow'
      BY <1>3, <1>9, <1>11, <2>1, <2>4, <2>5 DEF FilesFollow, TornModel
    <2>7. TrainingFollows'
      BY <2>1 DEF TrainingFollows, NoTraining
    <2>8. LoadingFollows'
      BY <1>1, <1>3, <1>4, <2>1, NoneTyped, LoadingKeepsFitting
    <2>9. BundleFits'
      BY <1>1, <1>3 DEF BundleFits
    <2>10. QED
      BY <2>3, <2>6, <2>7, <2>8, <2>9 DEF ModelsInv
  <1>15. CASE i # ModelCount + 1
    <2>1. training' = [training EXCEPT !.next = i + 1] /\ verified' = verified
      BY <1>3, <1>15
    <2>2. /\ training' \in OfTraining /\ training'.of = training.of /\ training'.without = training.without
          /\ training'.next = i + 1
      BY <1>4, <2>1 DEF OfTraining
    <2>3. training' # NoTraining /\ training'.of # 0
      BY <1>4, <2>2, NoneTyped
    <2>4. FilesTyped'
      <3>1. i + 1 <= ModelCount + 1
        BY <1>4, <1>15
      <3>2. QED
        BY <1>1, <1>3, <1>4, <1>11, <1>12, <2>1, <2>2, <2>3, <3>1, ModelsAre DEF FilesTyped, TornModel
    <2>5. FilesFollow'
      BY <1>11, <2>2, <2>3 DEF FilesFollow, TornModel
    <2>6. TrainingFollows'
      BY <1>1, <1>3, <1>9, <1>13, <2>2, <2>3 DEF TrainingFollows
    <2>7. LoadingFollows'
      BY <1>1, <1>3, <1>4, <2>2, LoadingKeepsFitting
    <2>8. BundleFits'
      BY <1>1, <1>3 DEF BundleFits
    <2>9. QED
      BY <2>4, <2>5, <2>6, <2>7, <2>8 DEF ModelsInv
  <1>16. QED
    BY <1>14, <1>15

LEMMA DieTrainingKeeps ==
    ASSUME ModelsInv, DieTraining PROVE ModelsInv'
  <1>1. FilesTyped /\ FilesFollow /\ TrainingFollows /\ LoadingFollows /\ BundleFits
    BY DEF ModelsInv
  <1>2. PICK i : i = training.next
    OBVIOUS
  <1>3. /\ training # NoTraining /\ training' = NoTraining /\ partial' = partial \cup {training.of}
        /\ UNCHANGED <<trainings, withMx, verified, loading, bundle>>
        /\ \/ UNCHANGED <<featureOrder, modelFile>>
           \/ i = 0 /\ featureOrder' = TornModel /\ UNCHANGED modelFile
           \/ /\ i \in DOMAIN modelFile \ training.without /\ modelFile' = [modelFile EXCEPT ![i] = TornModel]
              /\ UNCHANGED featureOrder
    BY <1>2 DEF DieTraining, OrderComesAt
  <1>4. /\ training.of = trainings /\ trainings \in Nat /\ trainings # 0 /\ DOMAIN modelFile = 1 .. ModelCount
        /\ modelFile \in [1 .. ModelCount -> Nat] /\ TornModel \in Nat /\ ModelCount \in Nat
    BY <1>1, <1>3, ModelsAre DEF FilesTyped
  <1>5. PICK at \in {0, i} : \A j \in 1 .. ModelCount : modelFile'[j] = IF j = at THEN TornModel ELSE modelFile[j]
    <2>1. CASE UNCHANGED modelFile
      <3>1. \A j \in 1 .. ModelCount : modelFile'[j] = IF j = 0 THEN TornModel ELSE modelFile[j]
        BY <2>1
      <3>2. QED
        BY <3>1
    <2>2. CASE i \in DOMAIN modelFile /\ modelFile' = [modelFile EXCEPT ![i] = TornModel]
      <3>1. \A j \in 1 .. ModelCount : modelFile'[j] = IF j = i THEN TornModel ELSE modelFile[j]
        BY <1>4, <2>2
      <3>2. QED
        BY <3>1
    <2>3. QED
      BY <1>3, <2>1, <2>2
  <1>6. featureOrder' \in {featureOrder, trainings, TornModel} /\ partial \subseteq partial'
    BY <1>3
  <1>7. /\ featureOrder' \in Nat /\ (featureOrder' <= trainings' \/ featureOrder' = TornModel)
        /\ \A j \in 1 .. ModelCount :
               /\ modelFile'[j] \in Nat /\ (modelFile'[j] <= trainings' \/ modelFile'[j] = TornModel)
               /\ modelFile'[j] # TornModel => modelFile'[j] <= featureOrder'
               /\ \A n \in 1 .. trainings' : n \notin partial' /\ n # training.of => n <= modelFile'[j]
               /\ OfMx(j) => modelFile'[j] \in withMx' \cup {0, TornModel}
    BY <1>1, <1>3, <1>5, <1>6, FilesKeepFitting
  <1>8. modelFile' \in [1 .. ModelCount -> Nat]
    BY <1>3, <1>4
  <1>9. FilesTyped'
    <2>1. partial' \subseteq 1 .. trainings'
      BY <1>1, <1>3, <1>4 DEF FilesTyped
    <2>2. training' \in OfTraining /\ training'.of = 0 /\ training'.without = {} /\ training'.next = 0
      BY <1>3, NoneTyped
    <2>3. /\ withMx' \subseteq 1 .. trainings' /\ trainings' \in 0 .. MaxTrainings
          /\ verified' \in {"nothing", "clean", "issues", "crash"}
      BY <1>1, <1>3 DEF FilesTyped
    <2>4. QED
      BY <1>3, <1>4, <1>7, <1>8, <2>1, <2>2, <2>3 DEF FilesTyped, TornModel
  <1>10. FilesFollow'
    <2>1. trainings' \in partial' /\ training.of \in partial' /\ training'.of = 0
      BY <1>3, <1>4, NoneTyped
    <2>2. QED
      BY <1>7, <2>1 DEF FilesFollow, TornModel
  <1>11. TrainingFollows'
    BY <1>3 DEF TrainingFollows, NoTraining
  <1>12. LoadingFollows'
    BY <1>1, <1>3, <1>4, <1>6, NoneTyped, LoadingKeepsFitting
  <1>13. BundleFits'
    BY <1>1, <1>3, <1>6 DEF BundleFits
  <1>14. QED
    BY <1>9, <1>10, <1>11, <1>12, <1>13 DEF ModelsInv

LEMMA VerifyOnlyKeeps ==
    ASSUME ModelsInv, VerifyOnly PROVE ModelsInv'
  <1>1. FilesTyped /\ FilesFollow /\ TrainingFollows /\ LoadingFollows /\ BundleFits
    BY DEF ModelsInv
  <1>2. /\ verified' = Verdict(modelFile)
        /\ UNCHANGED <<featureOrder, modelFile, trainings, training, partial, withMx, loading, bundle>>
    BY DEF VerifyOnly
  <1>3. verified' \in {"nothing", "clean", "issues", "crash"}
    BY <1>2 DEF Verdict
  <1>4. FilesTyped'
    BY <1>1, <1>2, <1>3 DEF FilesTyped, TornModel, NoTraining
  <1>5. FilesFollow' /\ TrainingFollows'
    BY <1>1, <1>2 DEF FilesFollow, TrainingFollows, TornModel, NoTraining
  <1>6. LoadingFollows' /\ BundleFits'
    BY <1>1, <1>2 DEF LoadingFollows, BundleFits, NoLoading
  <1>7. QED
    BY <1>4, <1>5, <1>6 DEF ModelsInv

LEMMA StartLoadingKeeps ==
    ASSUME ModelsInv, StartLoading PROVE ModelsInv'
  <1>1. FilesTyped /\ FilesFollow /\ TrainingFollows /\ LoadingFollows /\ BundleFits
    BY DEF ModelsInv
  <1>2. /\ UNCHANGED <<featureOrder, modelFile, trainings, training, partial, withMx, verified>>
        /\ loading = NoLoading
        /\ \/ bundle' = [NoLoading EXCEPT !.is = "failed"] /\ UNCHANGED loading
           \/ /\ featureOrder \notin {Absent, TornModel} /\ UNCHANGED bundle
              /\ loading' = [is |-> "reads", order |-> featureOrder, models |-> <<>>,
                             during |-> {training.of} \ {0}]
    BY DEF StartLoading
  <1>3. FilesTyped' /\ FilesFollow' /\ TrainingFollows'
    BY <1>1, <1>2 DEF FilesTyped, FilesFollow, TrainingFollows, TornModel, NoTraining
  <1>4. CASE bundle' = [NoLoading EXCEPT !.is = "failed"] /\ UNCHANGED loading
    <2>1. LoadingFollows'
      BY <1>2, <1>4, NoneTyped DEF LoadingFollows
    <2>2. BundleFits'
      BY <1>4, NoneTyped, ModelsAre DEF BundleFits
    <2>3. QED
      BY <1>3, <2>1, <2>2 DEF ModelsInv
  <1>5. CASE /\ featureOrder \notin {Absent, TornModel} /\ UNCHANGED bundle
             /\ loading' = [is |-> "reads", order |-> featureOrder, models |-> <<>>, during |-> {training.of} \ {0}]
    <2>1. featureOrder \in 1 .. trainings /\ training.of \in {0, trainings} /\ trainings \in Nat /\ trainings # 0
      BY <1>1, <1>5, ModelsAre DEF FilesTyped
    <2>2. /\ loading'.is = "reads" /\ loading'.order = featureOrder /\ loading'.models = <<>>
          /\ loading'.during = {training.of} \ {0} /\ Len(loading'.models) = 0 /\ loading' # NoLoading
      BY <1>5, NoneTyped
    <2>3. loading' \in OfLoading
      <3>1. <<>> \in Seq(Nat) /\ featureOrder \in Nat /\ {training.of} \ {0} \in SUBSET Nat
        BY <2>1, EmptySeq
      <3>2. QED
        BY <1>5, <3>1 DEF OfLoading
    <2>4. \A k \in 1 .. Len(loading'.models) : FALSE
      BY <2>2
    <2>5. loading'.during \subseteq 1 .. trainings' /\ (training'.of # 0 => training'.of \in loading'.during)
      BY <1>2, <2>1, <2>2
    <2>6. loading'.order \in 1 .. trainings' /\ loading'.order = featureOrder' /\ Len(loading'.models) < ModelCount
      BY <1>2, <2>1, <2>2, ModelsAre
    <2>7. LoadingFollows'
      BY <2>2, <2>3, <2>4, <2>5, <2>6 DEF LoadingFollows, NoLoading
    <2>8. BundleFits'
      BY <1>1, <1>2, <1>5 DEF BundleFits
    <2>9. QED
      BY <1>3, <2>7, <2>8 DEF ModelsInv
  <1>6. QED
    BY <1>2, <1>4, <1>5

LEMMA LoadModelKeeps ==
    ASSUME ModelsInv, LoadModel PROVE ModelsInv'
  <1>1. FilesTyped /\ FilesFollow /\ TrainingFollows /\ LoadingFollows /\ BundleFits
    BY DEF ModelsInv
  <1>2. PICK i : i = Len(loading.models) + 1
    OBVIOUS
  <1>3. PICK read : read = [loading EXCEPT !.models = Append(@, modelFile[i])]
    OBVIOUS
  <1>4. /\ UNCHANGED <<featureOrder, modelFile, trainings, training, partial, withMx, verified>>
        /\ loading # NoLoading
        /\ \/ bundle' = [NoLoading EXCEPT !.is = "failed"] /\ loading' = NoLoading
           \/ /\ modelFile[i] \notin {Absent, TornModel} /\ i = ModelCount
              /\ bundle' = [read EXCEPT !.is = "loaded"] /\ loading' = NoLoading
           \/ /\ modelFile[i] \notin {Absent, TornModel} /\ i # ModelCount
              /\ loading' = read /\ UNCHANGED bundle
    BY <1>2, <1>3, ModelsAre DEF LoadModel
  <1>5. FilesTyped' /\ FilesFollow' /\ TrainingFollows'
    BY <1>1, <1>4 DEF FilesTyped, FilesFollow, TrainingFollows, TornModel, NoTraining
  <1>6. loading.is = "reads" /\ loading \in OfLoading
    BY <1>1, <1>4 DEF LoadingFollows
  <1>7. i \in 1 .. ModelCount /\ Len(loading.models) \in Nat /\ loading.models \in Seq(Nat) /\ modelFile[i] \in Nat
    <2>1. loading.models \in Seq(Nat) /\ Len(loading.models) \in Nat /\ Len(loading.models) < ModelCount
      BY <1>1, <1>6, LenProperties DEF LoadingFollows, OfLoading
    <2>2. i \in 1 .. ModelCount
      BY <1>2, <2>1, ModelsAre
    <2>3. QED
      BY <1>1, <2>1, <2>2 DEF FilesTyped
  <1>8. CASE bundle' = [NoLoading EXCEPT !.is = "failed"] /\ loading' = NoLoading
    <2>1. LoadingFollows'
      BY <1>8, NoneTyped DEF LoadingFollows
    <2>2. BundleFits'
      BY <1>8, NoneTyped, ModelsAre DEF BundleFits
    <2>3. QED
      BY <1>5, <2>1, <2>2 DEF ModelsInv
  <1>9. CASE modelFile[i] \notin {Absent, TornModel}
    <2>1. PICK more : more = Append(loading.models, modelFile[i])
      OBVIOUS
    <2>2. /\ more \in Seq(Nat) /\ Len(more) = i /\ more[i] = modelFile[i]
          /\ \A k \in 1 .. Len(loading.models) : more[k] = loading.models[k]
      BY <1>2, <1>7, <2>1, AppendProperties
    <2>3. /\ read \in OfLoading /\ read.is = "reads" /\ read.order = loading.order /\ read.models = more
          /\ read.during = loading.during
      BY <1>3, <1>6, <2>1, <2>2 DEF OfLoading
    <2>4. \A k \in 1 .. i : k = i \/ k \in 1 .. Len(loading.models)
      BY <1>2, <1>7
    <2>5. /\ read.order \in 1 .. trainings /\ read.during \subseteq 1 .. trainings
          /\ training.of # 0 => training.of \in read.during
          /\ read.during = {} => read.order = featureOrder
      BY <1>1, <1>6, <2>3 DEF LoadingFollows
    <2>6. ASSUME NEW k \in 1 .. i
          PROVE  /\ more[k] \in 1 .. trainings
                 /\ read.during = {} => more[k] = modelFile[k]
                 /\ OfMx(k) => more[k] \in withMx
                 /\ \A n \in 1 .. trainings : n \notin partial /\ n \notin read.during => n <= more[k]
      <3>1. CASE k = i
        <4>1. /\ modelFile[i] \in 1 .. trainings /\ modelFile[i] # TornModel
              /\ OfMx(i) => modelFile[i] \in withMx
              /\ \A n \in 1 .. trainings : n \notin partial /\ n # training.of => n <= modelFile[i]
          BY <1>1, <1>7, <1>9, ModelsAre DEF FilesTyped, FilesFollow
        <4>2. \A n \in 1 .. trainings : n \notin read.during => n # training.of
          BY <2>5
        <4>3. QED
          BY <2>2, <3>1, <4>1, <4>2
      <3>2. CASE k \in 1 .. Len(loading.models)
        BY <1>1, <1>6, <2>2, <2>3, <3>2 DEF LoadingFollows
      <3>3. QED
        BY <2>4, <3>1, <3>2
    <2>7. CASE i # ModelCount
      <3>1. \/ loading' = read /\ UNCHANGED bundle
            \/ bundle' = [NoLoading EXCEPT !.is = "failed"] /\ loading' = NoLoading
        BY ONLY <1>4, <2>7
      <3>2. CASE loading' = read /\ UNCHANGED bundle
        <4>1. read # NoLoading /\ i < ModelCount
          BY <1>7, <2>3, <2>7, NoneTyped, ModelsAre
        <4>2. LoadingFollows'
          BY <1>4, <2>2, <2>3, <2>5, <2>6, <3>2, <4>1 DEF LoadingFollows, NoLoading
        <4>3. BundleFits'
          BY <1>1, <1>4, <3>2 DEF BundleFits
        <4>4. QED
          BY <1>5, <4>2, <4>3 DEF ModelsInv
      <3>3. QED
        BY <1>8, <3>1, <3>2
    <2>8. CASE bundle' = [read EXCEPT !.is = "loaded"] /\ loading' = NoLoading
      <3>1. /\ bundle' \in OfLoading /\ bundle'.is = "loaded" /\ bundle'.order = read.order /\ bundle'.models = more
            /\ bundle'.during = read.during
        BY <2>3, <2>8 DEF OfLoading
      <3>2. LoadingFollows'
        BY <2>8, NoneTyped DEF LoadingFollows
      <3>3. ASSUME NEW k \in 1 .. i
            PROVE  /\ more[k] > read.order => read.during # {}
                   /\ more[k] < read.order => read.order \in partial \cup read.during
                   /\ OfMx(k) => more[k] \in withMx
                   /\ \A j \in 1 .. i : more[k] < more[j] => more[j] \in partial \cup read.during
        <4>1. more[k] > read.order => read.during # {}
          <5>1. k \in 1 .. ModelCount
            <6>1. i \in Nat /\ i <= ModelCount /\ ModelCount \in Nat
              BY <1>7, ModelsAre
            <6>2. QED
              BY <3>3, <6>1
          <5>2. read.during = {} => more[k] = modelFile[k] /\ read.order = featureOrder /\ more[k] \in 1 .. trainings
            BY <2>5, <2>6
          <5>3. modelFile[k] \in 1 .. trainings => modelFile[k] <= featureOrder
            BY <1>1, <5>1, ModelsAre DEF FilesFollow, FilesTyped
          <5>4. QED
            BY <2>5, <2>6, <5>2, <5>3
        <4>2. more[k] < read.order => read.order \in partial \cup read.during
          BY <2>5, <2>6
        <4>3. ASSUME NEW j \in 1 .. i, more[k] < more[j] PROVE more[j] \in partial \cup read.during
          <5>1. more[j] \in 1 .. trainings /\ more[k] \in 1 .. trainings
            BY <2>6
          <5>2. ~(more[j] <= more[k])
            BY <4>3, <5>1
          <5>3. QED
            BY <2>6, <5>1, <5>2
        <4>4. QED
          BY <2>6, <4>1, <4>2, <4>3
      <3>4. BundleFits'
        BY <1>4, <1>7, <2>2, <2>5, <3>1, <3>3 DEF BundleFits
      <3>5. QED
        BY <1>5, <3>2, <3>4 DEF ModelsInv
    <2>9. QED
      BY <1>4, <1>8, <2>7, <2>8
  <1>10. QED
    BY <1>4, <1>8, <1>9

LEMMA ModelsStep ==
    ASSUME ModelsInv, [ModelFilesNext]_modelFilesVars PROVE ModelsInv'
  <1>1. CASE UNCHANGED modelFilesVars
    <2>1. ModelsInv
      OBVIOUS
    <2>2. QED
      BY <1>1, <2>1 DEF ModelsInv, FilesTyped, FilesFollow, TrainingFollows, LoadingFollows, BundleFits,
         modelFilesVars, TornModel, NoTraining, NoLoading
  <1>2. QED
    BY <1>1, StartTrainingKeeps, WriteKeeps, DieTrainingKeeps, VerifyOnlyKeeps, StartLoadingKeeps, LoadModelKeeps
       DEF ModelFilesNext

\* What the predictor has loaded fits together, whenever it was started and however a
\* training ended: models newer than the order only if a training ran meanwhile, models of
\* the index future only from a corpus that names it, a clean verdict only of one training.
THEOREM ModelsFitTogetherHolds == ModelFilesSpec => []ModelsFitTogether
  <1>1. ModelsInv /\ [ModelFilesNext]_modelFilesVars => ModelsInv'
    BY ModelsStep
  <1>2. ModelFilesInit => ModelsInv
    BY ModelsStart
  <1>3. ModelsInv => ModelsFitTogether
    BY ModelsSay
  <1>4. QED
    BY <1>1, <1>2, <1>3, PTL DEF ModelFilesSpec
-------------------------------------------------------------------------------
(* The loop of the backtests. *)

MadeTrade == [ticker: Traded, news: Nat, opened: Nat, closed: Nat, pnl: Int, row: Positions, by: Positions]

\* The sums on the way to what some trades have gained.
SumsOfGains(made, S) ==
    {g \in [0 .. Len(made) -> Int] :
        g[0] = 0 /\ \A i \in 1 .. Len(made) : g[i] = g[i - 1] + (IF i \in S THEN made[i].pnl ELSE 0)}

LEMMA GainedIs ==
    ASSUME NEW made \in Seq(MadeTrade), NEW S
    PROVE  \E g \in SumsOfGains(made, S) : Gained(made, S) = g[Len(made)]
  <1>1. PICK n \in Nat : n = Len(made)
    OBVIOUS
  <1> DEFINE gain == [i \in Nat |-> IF i \in 1 .. n /\ i \in S THEN made[i].pnl ELSE 0]
             adding == [p \in Nat \X Int |-> p[2] + gain[p[1]]]
  <1>2. /\ gain \in [Nat -> Int]
        /\ \A i \in 1 .. n : i \in Nat /\ gain[i] = IF i \in S THEN made[i].pnl ELSE 0
    <2>1. \A i \in 1 .. n : made[i].pnl \in Int
      <3> TAKE i \in 1 .. n
      <3>1. made[i] \in MadeTrade
        BY <1>1, ElementOfSeq
      <3>2. QED
        BY <3>1 DEF MadeTrade
    <2>2. QED
      BY <2>1
  <1> HIDE DEF gain
  <1>3. adding \in [Nat \X Int -> Int]
    <2>1. \A p \in Nat \X Int : p[1] \in Nat /\ p[2] \in Int
      OBVIOUS
    <2>2. \A p \in Nat \X Int : p[2] + gain[p[1]] \in Int
      <3> TAKE p \in Nat \X Int
      <3>1. gain[p[1]] \in Int /\ p[2] \in Int
        BY <1>2, <2>1
      <3>2. QED
        BY <3>1
    <2>3. QED
      BY <2>2
  <1>4. \A i \in Nat, x \in Int : adding[<<i, x>>] = x + gain[i]
    OBVIOUS
  <1> HIDE DEF adding
  <1>5. PICK g \in [0 .. n -> Int] : g[0] = 0 /\ \A i \in 1 .. n : g[i] = adding[<<i, g[i - 1]>>]
    <2>1. Runs(Int, 0, adding, n) # {}
      <3>1. 0 \in Int
        OBVIOUS
      <3>2. QED
        BY ONLY <1>1, <1>3, <3>1, StepByStep
    <2>2. QED
      BY <2>1 DEF Runs
  <1>6. ASSUME NEW i \in 1 .. n PROVE g[i] = g[i - 1] + (IF i \in S THEN made[i].pnl ELSE 0)
    <2>1. i \in Nat /\ i - 1 \in 0 .. n
      OBVIOUS
    <2>2. g[i - 1] \in Int
      BY <1>5, <2>1
    <2>3. QED
      BY <1>2, <1>4, <1>5, <2>1, <2>2
  <1> DEFINE Sums(f) == f = [i \in 0 .. n |-> IF i = 0 THEN 0 ELSE f[i - 1] + (IF i \in S THEN made[i].pnl ELSE 0)]
  <1>7. Sums(g)
    <2>1. \A i \in 0 .. n : i = 0 \/ i \in 1 .. n
      BY <1>1
    <2>2. \A i \in 0 .. n : g[i] = IF i = 0 THEN 0 ELSE g[i - 1] + (IF i \in S THEN made[i].pnl ELSE 0)
      BY <1>5, <1>6, <2>1
    <2>3. QED
      BY <1>5, <2>2
  <1>8. PICK f : f = CHOOSE f0 : Sums(f0)
    OBVIOUS
  <1>9. Sums(f)
    BY <1>7, <1>8
  <1>10. Gained(made, S) = f[n]
    BY <1>1, <1>8 DEF Gained
  <1>11. \A i \in 0 .. n : f[i] = IF i = 0 THEN 0 ELSE f[i - 1] + (IF i \in S THEN made[i].pnl ELSE 0)
    BY <1>9
  <1> HIDE DEF Sums
  <1>12. \A i \in Nat : i \in 0 .. n => f[i] = g[i]
    <2> DEFINE Good == {i \in Nat : i \in 0 .. n => f[i] = g[i]}
    <2>1. 0 \in Good
      BY <1>1, <1>5, <1>11
    <2>2. ASSUME NEW i \in Good PROVE i + 1 \in Good
      <3>1. SUFFICES ASSUME i + 1 \in 0 .. n PROVE f[i + 1] = g[i + 1]
        OBVIOUS
      <3>2. i \in 0 .. n /\ i + 1 # 0 /\ i + 1 \in 1 .. n /\ (i + 1) - 1 = i /\ i \in Nat
        BY <1>1, <3>1
      <3>3. f[i] = g[i]
        BY <2>2, <3>2
      <3>4. QED
        BY <1>6, <1>11, <3>1, <3>2, <3>3
    <2>3. Good \in SUBSET Nat
      OBVIOUS
    <2> HIDE DEF Good
    <2>4. \A i \in Nat : i \in Good
      BY <2>1, <2>2, <2>3, AllNumbers
    <2>5. QED
      BY <2>4 DEF Good
  <1>13. n \in 0 .. n
    BY <1>1
  <1>14. QED
    BY <1>1, <1>5, <1>6, <1>10, <1>12, <1>13 DEF SumsOfGains

\* With one trade more.
LEMMA GainedGrows ==
    ASSUME NEW made \in Seq(MadeTrade), NEW t \in MadeTrade, NEW S, NEW T, S = T \cap (1 .. Len(made))
    PROVE  /\ Gained(made, S) \in Int
           /\ Gained(Append(made, t), T) = Gained(made, S) + (IF Len(made) + 1 \in T THEN t.pnl ELSE 0)
  <1>1. PICK n \in Nat : n = Len(made)
    OBVIOUS
  <1>2. PICK more \in Seq(MadeTrade) : more = Append(made, t)
    BY AppendProperties
  <1>3. Len(more) = n + 1 /\ more[n + 1] = t /\ \A i \in 1 .. n : more[i] = made[i]
    BY <1>1, <1>2, AppendProperties
  <1>4. PICK g \in SumsOfGains(made, S) : Gained(made, S) = g[n]
    BY <1>1, GainedIs
  <1>5. PICK h \in SumsOfGains(more, T) : Gained(more, T) = h[n + 1]
    BY <1>3, GainedIs
  <1>6. g \in [0 .. n -> Int] /\ g[0] = 0 /\ \A i \in 1 .. n : g[i] = g[i - 1] + (IF i \in S THEN made[i].pnl ELSE 0)
    BY <1>1, <1>4 DEF SumsOfGains
  <1>7. /\ h \in [0 .. n + 1 -> Int] /\ h[0] = 0
        /\ \A i \in 1 .. n + 1 : h[i] = h[i - 1] + (IF i \in T THEN more[i].pnl ELSE 0)
    BY <1>3, <1>5 DEF SumsOfGains
  <1>8. \A i \in Nat : i \in 0 .. n => h[i] = g[i]
    <2> DEFINE Good == {i \in Nat : i \in 0 .. n => h[i] = g[i]}
    <2>1. 0 \in Good
      BY <1>6, <1>7
    <2>2. ASSUME NEW i \in Good PROVE i + 1 \in Good
      <3>1. SUFFICES ASSUME i + 1 \in 0 .. n PROVE h[i + 1] = g[i + 1]
        OBVIOUS
      <3>2. i \in 0 .. n /\ i + 1 \in 1 .. n /\ i + 1 \in 1 .. n + 1 /\ (i + 1) - 1 = i /\ i \in Nat
        BY <1>1, <3>1
      <3>3. h[i] = g[i] /\ more[i + 1] = made[i + 1] /\ (i + 1 \in T <=> i + 1 \in S)
        BY <1>1, <1>3, <2>2, <3>2
      <3>4. h[i + 1] = h[i] + (IF i + 1 \in T THEN more[i + 1].pnl ELSE 0)
        BY <1>7, <3>2
      <3>5. g[i + 1] = g[i] + (IF i + 1 \in S THEN made[i + 1].pnl ELSE 0)
        BY <1>6, <3>2
      <3>6. QED
        BY <3>3, <3>4, <3>5
    <2>3. Good \in SUBSET Nat
      OBVIOUS
    <2> HIDE DEF Good
    <2>4. \A i \in Nat : i \in Good
      BY <2>1, <2>2, <2>3, AllNumbers
    <2>5. QED
      BY <2>4 DEF Good
  <1>9. n + 1 \in 1 .. n + 1 /\ (n + 1) - 1 = n /\ n \in 0 .. n
    BY <1>1
  <1>10. h[n + 1] = h[n] + (IF n + 1 \in T THEN t.pnl ELSE 0)
    BY <1>3, <1>7, <1>9
  <1>11. QED
    BY <1>1, <1>2, <1>4, <1>5, <1>6, <1>8, <1>9, <1>10

\* Of two sets apart.
LEMMA GainedTogether ==
    ASSUME NEW made \in Seq(MadeTrade), NEW S, NEW T, S \cap T = {}
    PROVE  /\ Gained(made, S) \in Int /\ Gained(made, T) \in Int
           /\ Gained(made, S \cup T) = Gained(made, S) + Gained(made, T)
  <1>1. PICK n \in Nat : n = Len(made)
    OBVIOUS
  <1>2. PICK g \in SumsOfGains(made, S) : Gained(made, S) = g[n]
    BY <1>1, GainedIs
  <1>3. PICK h \in SumsOfGains(made, T) : Gained(made, T) = h[n]
    BY <1>1, GainedIs
  <1>4. PICK k \in SumsOfGains(made, S \cup T) : Gained(made, S \cup T) = k[n]
    BY <1>1, GainedIs
  <1>5. g \in [0 .. n -> Int] /\ g[0] = 0 /\ \A i \in 1 .. n : g[i] = g[i - 1] + (IF i \in S THEN made[i].pnl ELSE 0)
    BY <1>1, <1>2 DEF SumsOfGains
  <1>6. h \in [0 .. n -> Int] /\ h[0] = 0 /\ \A i \in 1 .. n : h[i] = h[i - 1] + (IF i \in T THEN made[i].pnl ELSE 0)
    BY <1>1, <1>3 DEF SumsOfGains
  <1>7. /\ k \in [0 .. n -> Int] /\ k[0] = 0
        /\ \A i \in 1 .. n : k[i] = k[i - 1] + (IF i \in S \cup T THEN made[i].pnl ELSE 0)
    BY <1>1, <1>4 DEF SumsOfGains
  <1>8. \A i \in Nat : i \in 0 .. n => k[i] = g[i] + h[i]
    <2> DEFINE Good == {i \in Nat : i \in 0 .. n => k[i] = g[i] + h[i]}
    <2>1. 0 \in Good
      BY <1>5, <1>6, <1>7
    <2>2. ASSUME NEW i \in Good PROVE i + 1 \in Good
      <3>1. SUFFICES ASSUME i + 1 \in 0 .. n PROVE k[i + 1] = g[i + 1] + h[i + 1]
        OBVIOUS
      <3>2. i \in 0 .. n /\ i + 1 \in 1 .. n /\ (i + 1) - 1 = i /\ i \in Nat
        BY <1>1, <3>1
      <3>3. k[i] = g[i] + h[i] /\ g[i] \in Int /\ h[i] \in Int
        BY <1>5, <1>6, <2>2, <3>2
      <3>4. PICK p \in Int : p = made[i + 1].pnl
        <4>1. made[i + 1] \in MadeTrade
          BY <1>1, <3>2, ElementOfSeq
        <4>2. QED
          BY <4>1 DEF MadeTrade
      <3>5. /\ g[i + 1] = g[i] + (IF i + 1 \in S THEN p ELSE 0) /\ h[i + 1] = h[i] + (IF i + 1 \in T THEN p ELSE 0)
            /\ k[i + 1] = k[i] + (IF i + 1 \in S \cup T THEN p ELSE 0)
        BY <1>5, <1>6, <1>7, <3>2, <3>4
      <3>6. QED
        BY <3>3, <3>5
    <2>3. Good \in SUBSET Nat
      OBVIOUS
    <2> HIDE DEF Good
    <2>4. \A i \in Nat : i \in Good
      BY <2>1, <2>2, <2>3, AllNumbers
    <2>5. QED
      BY <2>4 DEF Good
  <1>9. n \in 0 .. n
    BY <1>1
  <1>10. QED
    BY <1>2, <1>3, <1>4, <1>5, <1>6, <1>8, <1>9

SortedTimes(n) == {at \in [1 .. n -> Nat] : \A i, j \in 1 .. n : i < j => at[i] <= at[j]}
Resorts(n, at) == {p \in [1 .. n -> 1 .. n] : /\ \A i, j \in 1 .. n : p[i] = p[j] => i = j
                                             /\ \A i, j \in 1 .. n : i < j => at[p[i]] <= at[p[j]]}

\* Sorting again what is sorted moves a row to places of its own time only.
LEMMA SortedTwice ==
    ASSUME NEW n \in Nat, NEW at \in SortedTimes(n), NEW p \in Resorts(n, at), NEW k \in 1 .. n
    PROVE  at[p[k]] = at[k]
  <1>a. at \in [1 .. n -> Nat] /\ \A i, j \in 1 .. n : i < j => at[i] <= at[j]
    BY DEF SortedTimes
  <1>b. /\ p \in [1 .. n -> 1 .. n] /\ \A i, j \in 1 .. n : p[i] = p[j] => i = j
        /\ \A i, j \in 1 .. n : i < j => at[p[i]] <= at[p[j]]
    BY DEF Resorts
  <1> USE <1>a, <1>b
  <1>1. k \in Nat /\ 1 <= k /\ k <= n /\ at[k] \in Nat /\ p[k] \in 1 .. n /\ at[p[k]] \in Nat
    OBVIOUS
  <1>2. ASSUME at[p[k]] > at[k] PROVE FALSE
    <2>1. \A j \in k .. n : p[j] \in k + 1 .. n
      <3> TAKE j \in k .. n
      <3>1. j \in 1 .. n /\ p[j] \in 1 .. n /\ at[p[j]] \in Nat
        BY <1>1
      <3>2. at[p[j]] >= at[p[k]]
        <4>1. CASE j = k
          BY <1>1, <4>1
        <4>2. CASE j # k
          <5>1. k < j
            BY <1>1, <4>2
          <5>2. QED
            BY <1>1, <3>1, <5>1
        <4>3. QED
          BY <4>1, <4>2
      <3>3. at[p[j]] > at[k]
        BY <1>1, <1>2, <3>1, <3>2
      <3>5. p[j] # k /\ ~(p[j] < k)
        BY <1>1, <3>1, <3>3
      <3>4. QED
        BY <1>1, <3>1, <3>5
    <2>2. PICK q : q = [j \in k .. n |-> p[j]]
      OBVIOUS
    <2>3. q \in [k .. n -> k + 1 .. n]
      BY <2>1, <2>2
    <2>4. /\ IsFiniteSet(k .. n) /\ IsFiniteSet(k + 1 .. n)
          /\ Cardinality(k .. n) = n - k + 1 /\ Cardinality(k + 1 .. n) = n - k
      <3>1. k \in Int /\ n \in Int /\ k + 1 \in Int
        BY <1>1
      <3>2. QED
        BY <1>1, <3>1, FS_Interval
    <2>5. PICK i, j \in k .. n : i # j /\ q[i] = q[j]
      <3>1. Cardinality(k + 1 .. n) < Cardinality(k .. n)
        BY <1>1, <2>4
      <3>2. QED
        BY <2>3, <2>4, <3>1, FS_PigeonHole
    <2>6. i \in 1 .. n /\ j \in 1 .. n /\ p[i] = p[j]
      BY <1>1, <2>2, <2>5
    <2>7. QED
      BY <2>5, <2>6
  <1>3. ASSUME at[p[k]] < at[k] PROVE FALSE
    <2>1. \A j \in 1 .. k : p[j] \in 1 .. k - 1
      <3> TAKE j \in 1 .. k
      <3>1. j \in 1 .. n /\ p[j] \in 1 .. n /\ at[p[j]] \in Nat
        BY <1>1
      <3>2. at[p[j]] <= at[p[k]]
        <4>1. CASE j = k
          BY <1>1, <4>1
        <4>2. CASE j # k
          <5>1. j < k
            BY <1>1, <4>2
          <5>2. QED
            BY <1>1, <3>1, <5>1
        <4>3. QED
          BY <4>1, <4>2
      <3>3. at[p[j]] < at[k]
        BY <1>1, <1>3, <3>1, <3>2
      <3>5. p[j] # k /\ ~(p[j] > k)
        <4>1. k < p[j] => at[k] <= at[p[j]]
          BY <1>1, <3>1
        <4>2. PICK q \in 1 .. n : q = p[j]
          BY <3>1
        <4>3. at[q] < at[k] /\ at[q] \in Nat /\ (k < q => at[k] <= at[q])
          BY <3>1, <3>3, <4>1, <4>2
        <4>4. q # k /\ ~(q > k)
          BY <1>1, <4>3
        <4>5. QED
          BY <4>2, <4>4
      <3>4. QED
        BY <1>1, <3>1, <3>5
    <2>2. PICK q : q = [j \in 1 .. k |-> p[j]]
      OBVIOUS
    <2>3. q \in [1 .. k -> 1 .. k - 1]
      BY <2>1, <2>2
    <2>4. /\ IsFiniteSet(1 .. k) /\ IsFiniteSet(1 .. k - 1)
          /\ Cardinality(1 .. k) = k /\ Cardinality(1 .. k - 1) = k - 1
      <3>1. k \in Int /\ 1 \in Int /\ k - 1 \in Int
        BY <1>1
      <3>2. IsFiniteSet(1 .. k) /\ Cardinality(1 .. k) = k
        BY <1>1, <3>1, FS_Interval
      <3>3. PICK l \in Nat : l = k - 1
        BY <1>1
      <3>4. IsFiniteSet(1 .. l) /\ Cardinality(1 .. l) = l
        BY <3>3, FS_Interval
      <3>5. QED
        BY <3>2, <3>3, <3>4
    <2>5. PICK i, j \in 1 .. k : i # j /\ q[i] = q[j]
      <3>1. Cardinality(1 .. k - 1) < Cardinality(1 .. k)
        BY <1>1, <2>4
      <3>2. QED
        BY <2>3, <2>4, <3>1, FS_PigeonHole
    <2>6. i \in 1 .. n /\ j \in 1 .. n /\ p[i] = p[j]
      BY <1>1, <2>2, <2>5
    <2>7. QED
      BY <2>5, <2>6
  <1>4. QED
    BY <1>1, <1>2, <1>3

OfDay(made, d)  == {i \in DOMAIN made : made[i].news \div DayLength = d}
Before(made, d) == {i \in DOMAIN made : made[i].news \div DayLength < d}

\* The equity, that of the morning and the kill are what the trades made of them: the day
\* has traded on some equity, and has not lost what kills it yet.
MoneyFits(made, d, start, total, stopped) ==
    /\ d \in Int /\ start \in Int /\ total \in Int
    /\ \A i \in DOMAIN made : made[i].news \div DayLength <= d
    /\ total = StartEquity + Gained(made, DOMAIN made)
    /\ start = StartEquity + Gained(made, Before(made, d))
    /\ OfDay(made, d) # {} =>
           start > 0 /\ (~stopped => 1000 * Gained(made, OfDay(made, d)) >= -start * KillPermille)

DayBound(made, d) ==
    1000 * Gained(made, OfDay(made, d))
        >= -(StartEquity + Gained(made, Before(made, d))) * KillPermille + 1000 * Min(Pnls \cup {0})

LEMMA BacktestNumbers ==
    /\ NewsCount \in Nat /\ NewsCount > 0 /\ MaxPositions \in Nat /\ MaxPositions > 0
    /\ DayLength \in Nat \ {0} /\ TestLength \in Nat /\ TestLength > 0
    /\ LastNews \in Nat /\ KillPermille \in Nat /\ TrainLength \in Nat /\ Purge \in Nat /\ LabelLength \in Nat
    /\ LastRow \in Nat /\ StartEquity = 1000
  BY BacktestAssumption DEF StartEquity

LEMMA WorstTrade ==
    /\ Min(Pnls \cup {0}) \in Int /\ Min(Pnls \cup {0}) <= 0
    /\ \A p \in Pnls : p \in Int /\ Min(Pnls \cup {0}) <= p
  <1>1. PICK worst \in Pnls \cup {0} : \A p \in Pnls \cup {0} : worst <= p
    BY BacktestAssumption
  <1>2. Pnls \subseteq Int
    BY BacktestAssumption
  <1>3. PICK least : least = Min(Pnls \cup {0})
    OBVIOUS
  <1>4. least \in Pnls \cup {0} /\ \A p \in Pnls \cup {0} : least <= p
    BY <1>1, <1>3 DEF Min
  <1>5. least \in Int /\ least <= 0 /\ \A p \in Pnls : p \in Int /\ least <= p
    BY <1>2, <1>4
  <1>6. QED
    BY <1>3, <1>5

LEMMA NothingGained ==
    ASSUME NEW made \in Seq(MadeTrade) PROVE Gained(made, {}) = 0 /\ (made = <<>> => \A S : Gained(made, S) = 0)
  <1>1. Gained(made, {}) = 0
    <2>1. PICK g : g = Gained(made, {})
      OBVIOUS
    <2>2. g \in Int /\ g = g + g
      <3>1. {} \cap {} = {} /\ {} \cup {} = {}
        OBVIOUS
      <3>2. Gained(made, {}) \in Int /\ Gained(made, {} \cup {}) = Gained(made, {}) + Gained(made, {})
        BY <3>1, GainedTogether
      <3>3. QED
        BY <2>1, <3>1, <3>2
    <2>3. QED
      BY <2>1, <2>2
  <1>2. ASSUME made = <<>>, NEW S PROVE Gained(made, S) = 0
    <2>1. PICK g \in SumsOfGains(made, S) : Gained(made, S) = g[Len(made)]
      BY GainedIs
    <2>2. Len(made) = 0 /\ g[0] = 0
      BY <1>2, <2>1 DEF SumsOfGains
    <2>3. QED
      BY <2>1, <2>2
  <1>3. QED
    BY <1>1, <1>2

LEMMA DaysAreSplit ==
    ASSUME NEW made \in Seq(MadeTrade), NEW d \in Int, \A i \in DOMAIN made : made[i].news \div DayLength <= d
    PROVE  /\ Gained(made, Before(made, d)) \in Int /\ Gained(made, OfDay(made, d)) \in Int
           /\ Gained(made, DOMAIN made) = Gained(made, Before(made, d)) + Gained(made, OfDay(made, d))
  <1>1. \A i \in DOMAIN made : made[i].news \div DayLength \in Int
    <2> TAKE i \in DOMAIN made
    <2>1. made[i] \in MadeTrade
      BY ElementOfSeq
    <2>2. made[i].news \in Nat /\ DayLength \in Nat \ {0}
      BY <2>1, BacktestNumbers DEF MadeTrade
    <2>3. QED
      BY <2>2
  <1>2. \A i \in DOMAIN made : (i \in Before(made, d) \/ i \in OfDay(made, d)) /\ ~(i \in Before(made, d) /\ i \in OfDay(made, d))
    BY <1>1 DEF Before, OfDay
  <1>3. Before(made, d) \subseteq DOMAIN made /\ OfDay(made, d) \subseteq DOMAIN made
    BY DEF Before, OfDay
  <1>4. Before(made, d) \cap OfDay(made, d) = {} /\ Before(made, d) \cup OfDay(made, d) = DOMAIN made
    BY <1>2, <1>3
  <1>5. PICK S, T : S = Before(made, d) /\ T = OfDay(made, d)
    OBVIOUS
  <1>6. S \cap T = {} /\ S \cup T = DOMAIN made
    BY <1>4, <1>5
  <1>7. /\ Gained(made, S) \in Int /\ Gained(made, T) \in Int
        /\ Gained(made, S \cup T) = Gained(made, S) + Gained(made, T)
    BY <1>6, GainedTogether
  <1>8. QED
    BY ONLY <1>5, <1>6, <1>7

\* In the morning.
LEMMA MoneyOfNewDay ==
    ASSUME NEW made \in Seq(MadeTrade), NEW d, NEW start, NEW total, NEW stopped, MoneyFits(made, d, start, total, stopped),
           NEW e \in Int, d < e
    PROVE  MoneyFits(made, e, total, total, FALSE)
  <1>1. \A i \in DOMAIN made : made[i].news \div DayLength < e /\ made[i].news \div DayLength <= e
    <2> TAKE i \in DOMAIN made
    <2>1. made[i] \in MadeTrade
      BY ElementOfSeq
    <2>2. made[i].news \in Nat /\ DayLength \in Nat \ {0}
      BY <2>1, BacktestNumbers DEF MadeTrade
    <2>3. PICK x \in Int : x = made[i].news \div DayLength
      BY <2>2
    <2>4. x <= d /\ d \in Int
      BY <2>3 DEF MoneyFits
    <2>5. QED
      BY <2>3, <2>4
  <1>2. Before(made, e) = DOMAIN made /\ OfDay(made, e) = {}
    <2>1. \A i \in DOMAIN made : made[i].news \div DayLength # e
      <3> TAKE i \in DOMAIN made
      <3>1. PICK x : x = made[i].news \div DayLength
        OBVIOUS
      <3>2. x < e
        BY <1>1, <3>1
      <3>3. QED
        BY <3>1, <3>2
    <2>2. QED
      BY <1>1, <2>1 DEF Before, OfDay
  <1>3. QED
    BY <1>1, <1>2 DEF MoneyFits

\* What a trade adds to the sets of the days.
LEMMA DaysOfMore ==
    ASSUME NEW made \in Seq(MadeTrade), NEW t \in MadeTrade, NEW d \in Int
    PROVE  /\ Before(made, d) = Before(Append(made, t), d) \cap (1 .. Len(made))
           /\ OfDay(made, d) = OfDay(Append(made, t), d) \cap (1 .. Len(made))
           /\ DOMAIN made = DOMAIN Append(made, t) \cap (1 .. Len(made))
           /\ Len(made) + 1 \in DOMAIN Append(made, t)
           /\ Len(made) + 1 \in Before(Append(made, t), d) <=> t.news \div DayLength < d
           /\ Len(made) + 1 \in OfDay(Append(made, t), d) <=> t.news \div DayLength = d
  <1>1. PICK n \in Nat : n = Len(made)
    OBVIOUS
  <1>2. PICK more \in Seq(MadeTrade) : more = Append(made, t)
    BY AppendProperties
  <1>3. Len(more) = n + 1 /\ more[n + 1] = t /\ \A i \in 1 .. n : more[i] = made[i]
    BY <1>1, <1>2, AppendProperties
  <1>4. DOMAIN made = 1 .. n /\ DOMAIN more = 1 .. n + 1
    BY <1>1, <1>2, <1>3
  <1>5. n + 1 \in 1 .. n + 1 /\ \A i : i \in 1 .. n <=> i \in (1 .. n + 1) /\ i \in 1 .. n
    OBVIOUS
  <1>6. \A i : i \in Before(made, d) <=> i \in Before(more, d) /\ i \in 1 .. n
    BY <1>3, <1>4, <1>5 DEF Before
  <1>7. \A i : i \in OfDay(made, d) <=> i \in OfDay(more, d) /\ i \in 1 .. n
    BY <1>3, <1>4, <1>5 DEF OfDay
  <1>8. /\ n + 1 \in Before(more, d) <=> t.news \div DayLength < d
        /\ n + 1 \in OfDay(more, d) <=> t.news \div DayLength = d
    BY <1>3, <1>4, <1>5 DEF Before, OfDay
  <1>9. QED
    BY <1>1, <1>2, <1>4, <1>5, <1>6, <1>7, <1>8

LEMMA GainsOfMore ==
    ASSUME NEW made \in Seq(MadeTrade), NEW t \in MadeTrade, NEW d \in Int, \A i \in DOMAIN made : made[i].news \div DayLength <= d,
           t.news \div DayLength = d, NEW e \in Int, e <= d
    PROVE  /\ Gained(Append(made, t), DOMAIN Append(made, t)) = Gained(made, DOMAIN made) + t.pnl
           /\ Gained(Append(made, t), Before(Append(made, t), e)) = Gained(made, Before(made, e))
           /\ Gained(Append(made, t), OfDay(Append(made, t), e)) =
                  Gained(made, OfDay(made, e)) + (IF e = d THEN t.pnl ELSE 0)
           /\ Gained(made, Before(made, e)) \in Int /\ Gained(made, OfDay(made, e)) \in Int
           /\ Gained(made, DOMAIN made) \in Int
  <1>1. PICK more : more = Append(made, t)
    OBVIOUS
  <1>2. /\ Gained(made, DOMAIN made) \in Int
        /\ Gained(more, DOMAIN more) = Gained(made, DOMAIN made) + (IF Len(made) + 1 \in DOMAIN more THEN t.pnl ELSE 0)
    BY <1>1, DaysOfMore, GainedGrows
  <1>3. /\ Gained(made, Before(made, e)) \in Int
        /\ Gained(more, Before(more, e)) = Gained(made, Before(made, e)) + (IF Len(made) + 1 \in Before(more, e) THEN t.pnl ELSE 0)
    <2>1. PICK S : S = Before(made, e)
      OBVIOUS
    <2>2. PICK T : T = Before(more, e)
      OBVIOUS
    <2>3. S = T \cap (1 .. Len(made))
      BY <1>1, <2>1, <2>2, DaysOfMore
    <2>4. QED
      BY <1>1, <2>1, <2>2, <2>3, GainedGrows
  <1>4. /\ Gained(made, OfDay(made, e)) \in Int
        /\ Gained(more, OfDay(more, e)) = Gained(made, OfDay(made, e)) + (IF Len(made) + 1 \in OfDay(more, e) THEN t.pnl ELSE 0)
    <2>1. PICK S : S = OfDay(made, e)
      OBVIOUS
    <2>2. PICK T : T = OfDay(more, e)
      OBVIOUS
    <2>3. S = T \cap (1 .. Len(made))
      BY <1>1, <2>1, <2>2, DaysOfMore
    <2>4. QED
      BY <1>1, <2>1, <2>2, <2>3, GainedGrows
  <1>5. /\ Len(made) + 1 \in DOMAIN more /\ Len(made) + 1 \notin Before(more, e)
        /\ Len(made) + 1 \in OfDay(more, e) <=> e = d
    <2>1. PICK x \in Int : x = t.news \div DayLength
      OBVIOUS
    <2>2. ~(x < e) /\ (x = e <=> e = d)
      BY <2>1
    <2>3. QED
      BY <1>1, <2>1, <2>2, DaysOfMore
  <1>6. QED
    BY <1>1, <1>2, <1>3, <1>4, <1>5

LEMMA KillIsALoss ==
    ASSUME NEW start \in Int, NEW gained \in Int, ~KillNow(start + gained, start)
    PROVE  1000 * gained >= -start * KillPermille
  <1>1. PICK x \in Int : x = -start * KillPermille
    BY BacktestNumbers
  <1>2. ~(1000 * ((start + gained) - start) < x)
    BY <1>1 DEF KillNow
  <1>3. QED
    BY <1>1, <1>2

\* With one trade more.
LEMMA MoneyOfTrade ==
    ASSUME NEW made \in Seq(MadeTrade), NEW t \in MadeTrade, NEW d, NEW start, NEW total, MoneyFits(made, d, start, total, FALSE),
           total > 0, t.news \div DayLength = d, t.pnl \in Pnls
    PROVE  /\ MoneyFits(Append(made, t), d, start, total + t.pnl, KillNow(total + t.pnl, start))
           /\ DayBound(Append(made, t), d)
  <1>1. PICK more : more = Append(made, t)
    OBVIOUS
  <1>2. d \in Int /\ start \in Int /\ total \in Int /\ \A i \in DOMAIN made : made[i].news \div DayLength <= d
    BY DEF MoneyFits
  <1>3. PICK earned \in Int : earned = Gained(made, Before(made, d))
    BY <1>2, DaysAreSplit
  <1>4. PICK gained \in Int : gained = Gained(made, OfDay(made, d))
    BY <1>2, DaysAreSplit
  <1>5. PICK p \in Int : p = t.pnl /\ p \in Pnls
    BY WorstTrade
  <1>6. /\ Gained(made, DOMAIN made) = earned + gained
        /\ start = StartEquity + earned /\ total = start + gained
    BY <1>2, <1>3, <1>4, DaysAreSplit, BacktestNumbers DEF MoneyFits
  <1>7. /\ Gained(more, DOMAIN more) = earned + gained + p /\ Gained(more, Before(more, d)) = earned
        /\ Gained(more, OfDay(more, d)) = gained + p
    <2>1. d <= d
      BY <1>2
    <2>2. /\ Gained(more, DOMAIN more) = Gained(made, DOMAIN made) + t.pnl
          /\ Gained(more, Before(more, d)) = Gained(made, Before(made, d))
          /\ Gained(more, OfDay(more, d)) = Gained(made, OfDay(made, d)) + t.pnl
      BY <1>1, <1>2, <2>1, GainsOfMore
    <2>3. QED
      BY <1>3, <1>4, <1>5, <1>6, <2>2
  <1>8. \A i \in DOMAIN more : more[i].news \div DayLength <= d
    <2> TAKE i \in DOMAIN more
    <2>1. CASE i \in DOMAIN made
      BY <1>1, <1>2, <2>1
    <2>2. CASE i \notin DOMAIN made
      <3>1. more[i] = t
        BY <1>1, <2>2
      <3>2. PICK x \in Int : x = t.news \div DayLength
        BY <1>2
      <3>3. x <= d
        BY <3>2
      <3>4. QED
        BY <3>1, <3>2, <3>3
    <2>3. QED
      BY <2>1, <2>2
  <1>9. PICK k \in Int : k = -start * KillPermille
    BY <1>2, BacktestNumbers
  <1>10. start > 0 /\ 1000 * gained >= k
    <2>1. CASE OfDay(made, d) = {}
      <3>1. gained = 0
        BY <1>4, <2>1, NothingGained
      <3>2. start > 0
        BY <1>2, <1>6, <3>1
      <3>3. k <= 0
        <4>1. start \in Nat /\ KillPermille \in Nat
          BY <1>2, <3>2, BacktestNumbers
        <4>2. PICK y \in Nat : y = start * KillPermille
          BY <4>1
        <4>3. k = -y
          BY <1>9, <4>1, <4>2
        <4>4. QED
          BY <4>2, <4>3
      <3>4. QED
        BY <3>1, <3>2, <3>3
    <2>2. CASE OfDay(made, d) # {}
      BY <1>4, <1>9, <2>2 DEF MoneyFits
    <2>3. QED
      BY <2>1, <2>2
  <1>11. ~KillNow(total + p, start) => 1000 * (gained + p) >= k
    <2>1. PICK grown \in Int : grown = gained + p
      OBVIOUS
    <2>2. total + p = start + grown
      BY <1>2, <1>6, <2>1
    <2>3. ~KillNow(start + grown, start) => 1000 * grown >= -start * KillPermille
      BY <1>2, KillIsALoss
    <2>4. QED
      BY <1>9, <2>1, <2>2, <2>3
  <1>12. MoneyFits(more, d, start, total + p, KillNow(total + p, start))
    <2>1. total + p \in Int /\ total + p = StartEquity + (earned + gained + p)
      <3>1. StartEquity \in Int
        BY BacktestNumbers
      <3>2. total = StartEquity + earned + gained
        BY <1>2, <1>3, <1>4, <1>6, <3>1
      <3>3. QED
        BY ONLY <3>1, <3>2, SMTT(30)
    <2>2. 1000 * Gained(more, OfDay(more, d)) >= -start * KillPermille \/ KillNow(total + p, start)
      BY <1>7, <1>9, <1>11
    <2>3. total + p = StartEquity + Gained(more, DOMAIN more) /\ start = StartEquity + Gained(more, Before(more, d))
      BY <1>6, <1>7, <2>1
    <2>4. QED
      BY <1>2, <1>8, <1>10, <2>1, <2>2, <2>3 DEF MoneyFits
  <1>13. DayBound(more, d)
    <2>1. PICK w \in Int : w = Min(Pnls \cup {0}) /\ w <= p
      BY <1>5, WorstTrade
    <2>2. 1000 * (gained + p) >= k + 1000 * w
      BY <1>10, <2>1
    <2>3. QED
      BY <1>6, <1>7, <1>9, <2>1, <2>2 DEF DayBound
  <1>14. QED
    BY <1>1, <1>5, <1>12, <1>13

FoldWindow == [from: Int, to: Int, start: Int, end: Int]

\* What was decided with which prediction.
Decided(t, runner, table) ==
    /\ runner = "run_arm" => t.by = t.row
    /\ table[t.by].at = t.news /\ t.news < t.opened

HeldAt(made, i) == {j \in 1 .. i - 1 : made[j].opened <= made[i].news /\ made[j].closed > made[i].news}

LoopFits ==
    /\ newsRows \in Frames /\ line \in Resorted(newsRows) /\ folds = <<>>
    /\ next \in 1 .. NewsCount + 1 /\ trades \in Seq(MadeTrade) /\ Len(trades) < next /\ killed \in BOOLEAN
    /\ \A i \in 1 .. Len(trades) : Decided(trades[i], job, newsRows) /\ Cardinality(HeldAt(trades, i)) < MaxPositions
    /\ \A q \in next .. NewsCount : day <= newsRows[line[q]].at \div DayLength
    /\ MoneyFits(trades, day, dayStart, equity, killed)
    /\ \A i \in 1 .. Len(trades) : DayBound(trades, trades[i].news \div DayLength)

WindowFits(f) == f.start < f.end /\ f.end <= LastRow /\ f.to = f.start - Purge

FoldsSoFar ==
    /\ newsRows \in [Positions -> [at : 0 .. LastNews, ticker : Traded]]
    /\ trades = <<>> /\ line = <<>> /\ next = 1 /\ killed = FALSE /\ equity = StartEquity
    /\ folds \in Seq(FoldWindow) /\ testStart \in Nat
    /\ \A i \in 1 .. Len(folds) : WindowFits(folds[i]) /\ folds[i].end <= testStart
    /\ \A i, j \in 1 .. Len(folds) : i < j => folds[i].end <= folds[j].start

BacktestInv ==
    /\ job \in Loops \cup Walks
    /\ job \in Loops => LoopFits
    /\ job \in Walks => FoldsSoFar

LEMMA BacktestStarts == BacktestInit => BacktestInv
  <1> SUFFICES ASSUME BacktestInit PROVE BacktestInv
    OBVIOUS
  <1> USE BacktestNumbers
  <1>1. /\ next = 1 /\ trades = <<>> /\ day = -1 /\ killed = FALSE
        /\ equity = StartEquity /\ dayStart = StartEquity /\ folds = <<>> /\ testStart = TrainLength
    BY DEF BacktestInit
  <1>2. CASE job \in Loops /\ newsRows \in Frames /\ line \in Resorted(newsRows)
    <2>1. trades \in Seq(MadeTrade) /\ Len(trades) = 0 /\ DOMAIN trades = {}
      BY <1>1
    <2>2. MoneyFits(trades, day, dayStart, equity, killed)
      <3>1. OfDay(trades, day) = {} /\ Gained(trades, DOMAIN trades) = 0 /\ Gained(trades, Before(trades, day)) = 0
        BY <1>1, <2>1, NothingGained DEF OfDay
      <3>2. QED
        BY <1>1, <2>1, <3>1 DEF MoneyFits
    <2>3. \A q \in next .. NewsCount : day <= newsRows[line[q]].at \div DayLength
      <3> TAKE q \in next .. NewsCount
      <3>1. q \in Positions
        BY <1>1 DEF Positions
      <3>2. line[q] \in Positions
        BY <1>2, <3>1 DEF Resorted
      <3>3. newsRows[line[q]].at \in Nat
        BY <1>2, <3>2 DEF Frames
      <3>4. PICK x \in Nat : x = newsRows[line[q]].at \div DayLength
        BY <3>3, QuotientIsLargest
      <3>5. QED
        BY <1>1, <3>4
    <2>4. LoopFits
      <3>1. next \in 1 .. NewsCount + 1 /\ Len(trades) < next /\ 1 .. Len(trades) = {}
        BY <1>1, <2>1
      <3>2. QED
        BY <1>1, <1>2, <2>1, <2>2, <2>3, <3>1 DEF LoopFits
    <2>5. QED
      BY <1>2, <2>4 DEF BacktestInv, Loops, Walks
  <1>3. CASE /\ job \in Walks /\ line = <<>>
             /\ newsRows = [i \in Positions |-> [at |-> 0, ticker |-> CHOOSE t \in Traded : TRUE]]
    <2>1. [at |-> 0, ticker |-> CHOOSE t \in Traded : TRUE] \in [at : 0 .. LastNews, ticker : Traded]
      <3>1. (CHOOSE t \in Traded : TRUE) \in Traded
        BY BacktestAssumption
      <3>2. 0 \in 0 .. LastNews
        OBVIOUS
      <3>3. QED
        BY <3>1, <3>2
    <2>2. newsRows \in [Positions -> [at : 0 .. LastNews, ticker : Traded]]
      BY <1>3, <2>1
    <2>3. FoldsSoFar
      BY <1>1, <1>3, <2>2 DEF FoldsSoFar
    <2>4. QED
      BY <1>3, <2>3 DEF BacktestInv, Loops, Walks
  <1>4. QED
    BY <1>2, <1>3 DEF BacktestInit

\* A window more.
LEMMA FoldKeeps ==
    ASSUME FoldsSoFar, job \in Walks, Fold PROVE FoldsSoFar'
  <1> USE BacktestNumbers
  <1>1. PICK full \in Nat : full = testStart + TestLength
    BY DEF FoldsSoFar
  <1>2. PICK end \in Nat : /\ end = IF job = "rolling" /\ full > LastRow THEN LastRow ELSE full
                           /\ IF job = "fixed" THEN end <= LastRow ELSE testStart < LastRow
    BY <1>1 DEF Fold
  <1>3. PICK f \in FoldWindow : /\ folds' \in {folds, Append(folds, f)}
                            /\ f.start = testStart /\ f.end = end /\ f.to = testStart - Purge
    <2> DEFINE f0 == [from |-> IF job = "fixed" THEN 0 ELSE testStart - TrainLength,
                      to |-> TrainEnd(testStart), start |-> testStart, end |-> end]
    <2>1. folds' \in {folds, Append(folds, f0)}
      BY <1>1, <1>2 DEF Fold
    <2>2. f0 \in FoldWindow
      BY DEF FoldsSoFar, FoldWindow, TrainEnd
    <2>3. f0.start = testStart /\ f0.end = end /\ f0.to = testStart - Purge
      BY DEF TrainEnd
    <2> HIDE DEF f0
    <2>4. QED
      BY <2>1, <2>2, <2>3
  <1>4. testStart < end /\ end <= LastRow /\ end <= full
    BY <1>1, <1>2 DEF FoldsSoFar, Walks
  <1>5. WindowFits(f)
    BY <1>3, <1>4 DEF WindowFits
  <1>6. testStart' = full /\ testStart \in Nat
    BY <1>1 DEF Fold, FoldsSoFar
  <1>7. UNCHANGED <<job, newsRows, line, next, trades, killed, equity>>
    BY DEF Fold
  <1>8. /\ folds \in Seq(FoldWindow)
        /\ \A i \in 1 .. Len(folds) : WindowFits(folds[i]) /\ folds[i].end <= testStart
        /\ \A i, j \in 1 .. Len(folds) : i < j => folds[i].end <= folds[j].start
    BY DEF FoldsSoFar
  <1>9. \A i \in 1 .. Len(folds) : folds[i].end \in Int
    <2> TAKE i \in 1 .. Len(folds)
    <2>1. folds[i] \in FoldWindow
      BY <1>8, ElementOfSeq
    <2>2. QED
      BY <2>1 DEF FoldWindow
  <1>10. /\ folds' \in Seq(FoldWindow)
         /\ \A i \in 1 .. Len(folds') : WindowFits(folds'[i]) /\ folds'[i].end <= full
         /\ \A i, j \in 1 .. Len(folds') : i < j => folds'[i].end <= folds'[j].start
    <2>1. CASE folds' = folds
      <3>1. \A i \in 1 .. Len(folds) : folds[i].end <= full
        BY <1>1, <1>6, <1>8, <1>9
      <3>2. QED
        BY <1>8, <2>1, <3>1
    <2>2. CASE folds' = Append(folds, f)
      <3>1. PICK n \in Nat : n = Len(folds)
        BY <1>8
      <3>2. folds' \in Seq(FoldWindow) /\ Len(folds') = n + 1 /\ folds'[n + 1] = f /\ \A i \in 1 .. n : folds'[i] = folds[i]
        BY <1>8, <2>2, <3>1, AppendProperties
      <3>3. \A i \in 1 .. n + 1 : i \in 1 .. n \/ i = n + 1
        BY <3>1
      <3>4. \A i \in 1 .. n + 1 : WindowFits(folds'[i]) /\ folds'[i].end <= full
        <4> TAKE i \in 1 .. n + 1
        <4>1. CASE i \in 1 .. n
          BY <1>1, <1>6, <1>8, <1>9, <3>1, <3>2, <4>1
        <4>2. CASE i = n + 1
          BY <1>3, <1>4, <1>5, <3>2, <4>2
        <4>3. QED
          BY <3>3, <4>1, <4>2
      <3>5. \A i, j \in 1 .. n + 1 : i < j => folds'[i].end <= folds'[j].start
        <4> SUFFICES ASSUME NEW i \in 1 .. n + 1, NEW j \in 1 .. n + 1, i < j PROVE folds'[i].end <= folds'[j].start
          OBVIOUS
        <4>1. i \in 1 .. n
          BY <3>1
        <4>2. CASE j \in 1 .. n
          BY <1>8, <3>1, <3>2, <4>1, <4>2
        <4>3. CASE j = n + 1
          BY <1>3, <1>8, <3>1, <3>2, <4>1, <4>3
        <4>4. QED
          BY <3>3, <4>2, <4>3
      <3>6. QED
        BY <3>2, <3>4, <3>5
    <2>3. QED
      BY <1>3, <2>1, <2>2
  <1>11. QED
    BY <1>1, <1>6, <1>7, <1>10 DEF FoldsSoFar

\* The row of the loop: its time, its day and the money of its morning.
LEMMA RowAt ==
    ASSUME LoopFits, next <= NewsCount
    PROVE  /\ line[next] \in Positions /\ next \in Positions /\ next \in Nat
           /\ Current.at \in Nat /\ Current.ticker \in Traded /\ newsRows[next].at = Current.at
           /\ day \in Int /\ day <= Current.at \div DayLength /\ Current.at \div DayLength \in Nat
  <1> USE BacktestNumbers
  <1>1. newsRows \in Frames /\ line \in Resorted(newsRows) /\ next \in 1 .. NewsCount + 1
    BY DEF LoopFits
  <1>2. next \in Positions /\ next \in Nat
    BY <1>1 DEF Positions
  <1>3. /\ newsRows \in [Positions -> [at : 0 .. LastNews, ticker : Traded]]
        /\ \A i, j \in Positions : i < j => newsRows[i].at <= newsRows[j].at
    BY <1>1 DEF Frames, InOrderOf
  <1>4. /\ line \in [Positions -> Positions] /\ \A i, j \in Positions : line[i] = line[j] => i = j
        /\ \A i, j \in Positions : i < j => newsRows[line[i]].at <= newsRows[line[j]].at
    BY <1>1 DEF Resorted, InOrderOf, IsInjective
  <1>5. line[next] \in Positions
    BY <1>2, <1>4
  <1>6. Current.at \in Nat /\ Current.ticker \in Traded
    BY <1>3, <1>5 DEF Current
  <1>7. newsRows[next].at = Current.at
    <2>1. PICK at : at = [i \in Positions |-> newsRows[i].at]
      OBVIOUS
    <2>2. \A i \in Positions : newsRows[i].at \in Nat
      BY <1>3
    <2>3. at \in [1 .. NewsCount -> Nat]
      BY <2>1, <2>2 DEF Positions
    <2>4. \A i \in 1 .. NewsCount : at[i] = newsRows[i].at
      BY <2>1 DEF Positions
    <2>5. /\ line \in [1 .. NewsCount -> 1 .. NewsCount] /\ \A i, j \in 1 .. NewsCount : line[i] = line[j] => i = j
          /\ next \in 1 .. NewsCount
      BY <1>2, <1>4 DEF Positions
    <2>6. \A i, j \in 1 .. NewsCount : i < j => at[i] <= at[j]
      BY <1>3, <2>4 DEF Positions
    <2>7. \A i, j \in 1 .. NewsCount : i < j => at[line[i]] <= at[line[j]]
      <3> SUFFICES ASSUME NEW i \in 1 .. NewsCount, NEW j \in 1 .. NewsCount, i < j PROVE at[line[i]] <= at[line[j]]
        OBVIOUS
      <3>1. newsRows[line[i]].at <= newsRows[line[j]].at
        BY <1>4 DEF Positions
      <3>2. line[i] \in 1 .. NewsCount /\ line[j] \in 1 .. NewsCount
        BY <2>5
      <3>3. QED
        BY <2>4, <3>1, <3>2
    <2>8. at[line[next]] = at[next]
      <3>1. at \in SortedTimes(NewsCount)
        BY <2>3, <2>6 DEF SortedTimes
      <3>2. line \in Resorts(NewsCount, at)
        BY <2>5, <2>7 DEF Resorts
      <3>3. QED
        <4>1. PICK k, p, n : k = next /\ p = line /\ n = NewsCount
          OBVIOUS
        <4>2. n \in Nat /\ at \in SortedTimes(n) /\ p \in Resorts(n, at) /\ k \in 1 .. n
          BY <2>5, <3>1, <3>2, <4>1, BacktestNumbers
        <4>3. at[p[k]] = at[k]
          BY ONLY <4>2, SortedTwice
        <4>4. QED
          BY <4>1, <4>3
    <2>9. QED
      BY <2>4, <2>5, <2>8 DEF Current
  <1>8. day \in Int
    BY DEF LoopFits, MoneyFits
  <1>9. Current.at \div DayLength \in Nat
    BY <1>6, QuotientIsLargest
  <1>10. day <= Current.at \div DayLength
    <2>1. next \in next .. NewsCount
      BY <1>2
    <2>2. QED
      BY <2>1 DEF LoopFits, Current
  <1>11. QED
    BY <1>2, <1>5, <1>6, <1>7, <1>8, <1>9, <1>10

\* The rows to come are of this day or later.
LEMMA RowsToCome ==
    ASSUME LoopFits, next <= NewsCount, NEW q \in next + 1 .. NewsCount
    PROVE  Current.at \div DayLength <= newsRows[line[q]].at \div DayLength
  <1> USE BacktestNumbers
  <1>1. next \in Positions /\ q \in Positions /\ next < q
    BY RowAt DEF Positions
  <1>2. newsRows \in Frames /\ line \in Resorted(newsRows)
    BY DEF LoopFits
  <1>3. newsRows[line[next]].at <= newsRows[line[q]].at /\ line[q] \in Positions
    BY <1>1, <1>2 DEF Resorted, InOrderOf
  <1>4. newsRows[line[q]].at \in Nat
    BY <1>2, <1>3 DEF Frames
  <1>5. PICK a \in Nat : a = Current.at
    BY RowAt
  <1>6. PICK b \in Nat : b = newsRows[line[q]].at /\ a <= b
    BY <1>3, <1>4, <1>5 DEF Current
  <1>7. a \div DayLength <= b \div DayLength
    <2>1. PICK k \in Nat : k = a \div DayLength /\ k * DayLength <= a
      BY QuotientIsLargest
    <2>2. k * DayLength \in Nat
      OBVIOUS
    <2>3. k * DayLength <= b
      BY <1>5, <1>6, <2>1, <2>2
    <2>4. k <= b \div DayLength
      BY <2>3, QuotientIsLargest
    <2>5. QED
      BY <2>1, <2>4
  <1>8. QED
    BY <1>5, <1>6, <1>7

\* What was held at the news of the trades does not change with one more.
LEMMA HeldOfMore ==
    ASSUME NEW made \in Seq(MadeTrade), NEW t \in MadeTrade
    PROVE  /\ \A i \in 1 .. Len(made) : HeldAt(Append(made, t), i) = HeldAt(made, i)
           /\ HeldAt(Append(made, t), Len(made) + 1) =
                  {j \in DOMAIN made : made[j].opened <= t.news /\ made[j].closed > t.news}
  <1>1. PICK n \in Nat : n = Len(made)
    OBVIOUS
  <1>2. PICK more \in Seq(MadeTrade) : more = Append(made, t)
    BY AppendProperties
  <1>3. Len(more) = n + 1 /\ more[n + 1] = t /\ \A i \in 1 .. n : more[i] = made[i]
    BY <1>1, <1>2, AppendProperties
  <1>4. DOMAIN made = 1 .. n /\ (n + 1) - 1 = n
    BY <1>1
  <1>5. \A i \in 1 .. n : HeldAt(more, i) = HeldAt(made, i)
    <2> TAKE i \in 1 .. n
    <2>1. \A j \in 1 .. i - 1 : more[j] = made[j]
      BY <1>1, <1>3
    <2>2. more[i] = made[i]
      BY <1>3
    <2>3. QED
      BY <2>1, <2>2 DEF HeldAt
  <1>6. HeldAt(more, n + 1) = {j \in 1 .. n : made[j].opened <= t.news /\ made[j].closed > t.news}
    BY <1>3, <1>4 DEF HeldAt
  <1>7. QED
    BY <1>1, <1>2, <1>4, <1>5, <1>6

LEMMA RowKeeps ==
    ASSUME LoopFits, Row PROVE LoopFits'
  <1> USE BacktestNumbers
  <1>1. PICK ts \in Nat : ts = Current.at
    BY RowAt DEF Row
  <1>2. PICK d \in Nat : d = ts \div DayLength /\ day <= d /\ day \in Int
    BY <1>1, RowAt DEF Row
  <1>3. PICK start : start = IF d # day THEN equity ELSE dayStart
    OBVIOUS
  <1>4. PICK stopped \in BOOLEAN : stopped = (~(d # day) /\ killed)
    BY DEF LoopFits
  <1>5. MoneyFits(trades, d, start, equity, stopped)
    <2>1. MoneyFits(trades, day, dayStart, equity, killed)
      BY DEF LoopFits
    <2>2. CASE d # day
      <3>1. day < d
        BY <1>2, <2>2
      <3>2. MoneyFits(trades, d, equity, equity, FALSE)
        <4>1. trades \in Seq(MadeTrade) /\ d \in Int
          BY DEF LoopFits
        <4>2. QED
          BY ONLY <2>1, <3>1, <4>1, MoneyOfNewDay
      <3>3. QED
        BY <1>3, <1>4, <2>2, <3>2
    <2>3. CASE d = day
      BY <1>3, <1>4, <2>1, <2>3 DEF LoopFits
    <2>4. QED
      BY <2>2, <2>3
  <1>6. /\ job \in Loops /\ next <= NewsCount
        /\ next' = next + 1 /\ day' = d /\ dayStart' = start
        /\ UNCHANGED <<job, newsRows, line, testStart, folds>>
    BY <1>1, <1>2, <1>3 DEF Row
  <1>7. /\ newsRows \in Frames /\ line \in Resorted(newsRows) /\ folds = <<>>
        /\ next \in 1 .. NewsCount + 1 /\ trades \in Seq(MadeTrade) /\ Len(trades) < next
        /\ \A i \in 1 .. Len(trades) : Decided(trades[i], job, newsRows) /\ Cardinality(HeldAt(trades, i)) < MaxPositions
        /\ \A i \in 1 .. Len(trades) : DayBound(trades, trades[i].news \div DayLength)
    BY DEF LoopFits
  <1>8. /\ newsRows' \in Frames /\ line' \in Resorted(newsRows') /\ folds' = <<>>
        /\ next' \in 1 .. NewsCount + 1
        /\ \A q \in next' .. NewsCount : day' <= newsRows'[line'[q]].at \div DayLength
    <2>1. newsRows' \in Frames /\ line' \in Resorted(newsRows') /\ folds' = <<>>
      BY <1>6, <1>7
    <2>2. next' \in 1 .. NewsCount + 1
      BY <1>6, <1>7
    <2>3. \A q \in next + 1 .. NewsCount : d <= newsRows[line[q]].at \div DayLength
      BY <1>1, <1>2, <1>6, RowsToCome
    <2>4. QED
      BY <1>6, <2>1, <2>2, <2>3
  <1>9. CASE killed' = stopped /\ UNCHANGED <<trades, equity>>
    <2>1. MoneyFits(trades', day', dayStart', equity', killed')
      BY <1>5, <1>6, <1>9
    <2>2. Len(trades') < next' /\ killed' \in BOOLEAN /\ trades' \in Seq(MadeTrade)
      BY <1>6, <1>7, <1>9
    <2>3. \A i \in 1 .. Len(trades') : Decided(trades'[i], job', newsRows') /\ Cardinality(HeldAt(trades', i)) < MaxPositions
      <3>1. job' = job /\ newsRows' = newsRows /\ trades' = trades
        BY <1>6, <1>9
      <3>2. QED
        BY <1>7, <3>1
    <2>4. \A i \in 1 .. Len(trades') : DayBound(trades', trades'[i].news \div DayLength)
      BY <1>7, <1>9
    <2>5. next' \in 1 .. NewsCount + 1
      BY <1>8
    <2>6. QED
      BY ONLY <1>8, <2>1, <2>2, <2>3, <2>4, <2>5 DEF LoopFits
  <1>10. CASE /\ ~stopped /\ equity > 0 /\ Cardinality(OpenTrades(ts)) < MaxPositions
              /\ \E delay \in FillDelays, duration \in Durations, pnl \in Pnls :
                    /\ trades' = Append(trades,
                          [ticker |-> Current.ticker, news |-> ts, opened |-> EntryTime(ts, delay),
                           closed |-> EntryTime(ts, delay) + 2 * duration, pnl |-> pnl,
                           row |-> line[next], by |-> PredictionUsed])
                    /\ equity' = Booked(equity, pnl) /\ killed' = KillNow(equity', start)
    <2>1. PICK t \in MadeTrade :
              /\ trades' = Append(trades, t) /\ equity' = equity + t.pnl /\ killed' = KillNow(equity + t.pnl, start)
              /\ t.pnl \in Pnls /\ t.news = ts /\ Decided(t, job, newsRows)
      <3>1. PICK delay \in FillDelays, duration \in Durations, pnl \in Pnls :
                    /\ trades' = Append(trades,
                          [ticker |-> Current.ticker, news |-> ts, opened |-> EntryTime(ts, delay),
                           closed |-> EntryTime(ts, delay) + 2 * duration, pnl |-> pnl,
                           row |-> line[next], by |-> PredictionUsed])
                    /\ equity' = Booked(equity, pnl) /\ killed' = KillNow(equity', start)
        BY <1>10
      <3>2. PICK opened \in Nat : opened = EntryTime(ts, delay) /\ opened > ts
        <4>1. delay \in Nat
          BY BacktestAssumption
        <4>2. PICK h \in Nat : h = (ts + 2) \div 2 /\ h * 2 > ts
          OBVIOUS
        <4>3. h * 2 + 2 * delay \in Nat /\ h * 2 + 2 * delay > ts
          BY <4>1, <4>2
        <4>4. QED
          BY <4>2, <4>3 DEF EntryTime
      <3>3. PICK closed \in Nat : closed = EntryTime(ts, delay) + 2 * duration
        <4>1. duration \in Nat
          BY BacktestAssumption
        <4>2. QED
          BY <3>2, <4>1
      <3>4. PICK t : t = [ticker |-> Current.ticker, news |-> ts, opened |-> opened, closed |-> closed, pnl |-> pnl,
                          row |-> line[next], by |-> PredictionUsed]
        OBVIOUS
      <3>5. trades' = Append(trades, t)
        BY <3>1, <3>2, <3>3, <3>4
      <3>6. line[next] \in Positions /\ next \in Positions /\ Current.ticker \in Traded /\ newsRows[next].at = ts
            /\ newsRows[line[next]].at = ts
        BY <1>1, <1>6, RowAt DEF Current
      <3>7. PredictionUsed \in Positions /\ (job = "run_arm" => PredictionUsed = line[next]) /\ newsRows[PredictionUsed].at = ts
        BY <3>6 DEF PredictionUsed
      <3>8. pnl \in Int
        BY WorstTrade
      <3>9. t \in MadeTrade
        BY <3>2, <3>3, <3>4, <3>6, <3>7, <3>8 DEF MadeTrade
      <3>10. Decided(t, job, newsRows)
        BY <3>2, <3>4, <3>7 DEF Decided
      <3>11. t.pnl = pnl /\ t.news = ts
        BY <3>4
      <3>12. QED
        BY <3>1, <3>5, <3>9, <3>10, <3>11 DEF Booked
    <2>2. trades \in Seq(MadeTrade)
      BY <1>7
    <2>3. MoneyFits(trades', d, start, equity', killed') /\ DayBound(trades', d)
      <3>1. MoneyFits(trades, d, start, equity, FALSE)
        <4>1. stopped = FALSE
          BY <1>10
        <4>2. QED
          BY <1>5, <4>1
      <3>2. t.news \div DayLength = d
        BY <1>2, <2>1
      <3>3. QED
        BY <1>10, <2>1, <2>2, <3>1, <3>2, MoneyOfTrade
    <2>4. PICK n \in Nat : n = Len(trades)
      BY <2>2
    <2>5. trades' \in Seq(MadeTrade) /\ Len(trades') = n + 1 /\ trades'[n + 1] = t /\ \A i \in 1 .. n : trades'[i] = trades[i]
      BY <2>1, <2>2, <2>4, AppendProperties
    <2>6. Len(trades') < next'
      BY <1>6, <1>7, <2>4, <2>5
    <2>7. killed' \in BOOLEAN
      BY <2>1 DEF KillNow
    <2>8. \A i \in 1 .. n + 1 : i \in 1 .. n \/ i = n + 1
      OBVIOUS
    <2>9. \A i \in 1 .. n + 1 : Decided(trades'[i], job', newsRows') /\ Cardinality(HeldAt(trades', i)) < MaxPositions
      <3>1. job' = job /\ newsRows' = newsRows
        BY <1>6
      <3>2. \A i \in 1 .. n : HeldAt(trades', i) = HeldAt(trades, i)
        BY <2>1, <2>2, <2>4, HeldOfMore
      <3>3. HeldAt(trades', n + 1) = OpenTrades(ts)
        BY <2>1, <2>2, <2>4, HeldOfMore DEF OpenTrades
      <3> TAKE i \in 1 .. n + 1
      <3>4. CASE i \in 1 .. n
        <4>1. trades'[i] = trades[i] /\ HeldAt(trades', i) = HeldAt(trades, i)
          BY <2>5, <3>2, <3>4
        <4>2. Decided(trades[i], job, newsRows) /\ Cardinality(HeldAt(trades, i)) < MaxPositions
          BY <1>7, <2>4, <3>4
        <4>3. QED
          BY <3>1, <4>1, <4>2
      <3>5. CASE i = n + 1
        <4>1. trades'[i] = t /\ HeldAt(trades', i) = OpenTrades(ts)
          BY <2>5, <3>3, <3>5
        <4>2. QED
          BY <1>10, <2>1, <3>1, <4>1
      <3>6. QED
        BY <2>8, <3>4, <3>5
    <2>10. \A i \in 1 .. n + 1 : DayBound(trades', trades'[i].news \div DayLength)
      <3> TAKE i \in 1 .. n + 1
      <3>1. CASE i = n + 1
        BY <1>2, <2>1, <2>3, <2>5, <3>1
      <3>2. CASE i \in 1 .. n
        <4>1. \A k \in DOMAIN trades : trades[k].news \div DayLength <= d
          BY <1>5 DEF MoneyFits
        <4>2. trades[i] \in MadeTrade /\ i \in DOMAIN trades
          BY <2>2, <2>4, <3>2, ElementOfSeq
        <4>3. trades[i].news \in Nat
          BY <4>2 DEF MadeTrade
        <4>4. PICK e \in Nat : e = trades[i].news \div DayLength
          BY <4>3, QuotientIsLargest
        <4>5. e <= d /\ e \in Int /\ d \in Int
          BY <4>1, <4>2, <4>4
        <4>6. CASE e = d
          BY <2>3, <2>5, <3>2, <4>4, <4>6
        <4>7. CASE e # d
          <5>1. t.news \div DayLength = d
            BY <1>2, <2>1
          <5>2. /\ Gained(trades', Before(trades', e)) = Gained(trades, Before(trades, e))
                /\ Gained(trades', OfDay(trades', e)) = Gained(trades, OfDay(trades, e)) + 0
                /\ Gained(trades, OfDay(trades, e)) \in Int
            BY <2>1, <2>2, <4>1, <4>5, <4>7, <5>1, GainsOfMore
          <5>3. DayBound(trades, e)
            BY <1>7, <2>4, <3>2, <4>4
          <5>4. Gained(trades, OfDay(trades, e)) + 0 = Gained(trades, OfDay(trades, e))
            BY <5>2
          <5>5. DayBound(trades', e)
            BY <5>2, <5>3, <5>4 DEF DayBound
          <5>6. QED
            BY <2>5, <3>2, <4>4, <5>5
        <4>8. QED
          BY <4>6, <4>7
      <3>3. QED
        BY <2>8, <3>1, <3>2
    <2>11. MoneyFits(trades', day', dayStart', equity', killed')
      BY <1>6, <2>3
    <2>12. QED
      BY ONLY <1>8, <2>5, <2>6, <2>7, <2>9, <2>10, <2>11 DEF LoopFits
  <1>11. QED
    BY <1>1, <1>2, <1>3, <1>4, <1>9, <1>10 DEF Row

LEMMA BacktestSteps == BacktestInv /\ [BacktestNext]_backtestVars => BacktestInv'
  <1> SUFFICES ASSUME BacktestInv, [BacktestNext]_backtestVars PROVE BacktestInv'
    OBVIOUS
  <1>1. CASE Row
    <2>1. job \in Loops /\ job' = job
      BY <1>1 DEF Row
    <2>2. job \notin Walks
      BY <2>1 DEF Loops, Walks
    <2>3. LoopFits'
      BY <1>1, <2>1, RowKeeps DEF BacktestInv
    <2>4. QED
      BY <2>1, <2>2, <2>3 DEF BacktestInv
  <1>2. CASE Fold
    <2>1. job \in Walks /\ job' = job
      BY <1>2 DEF Fold
    <2>2. job \notin Loops
      BY <2>1 DEF Loops, Walks
    <2>3. FoldsSoFar'
      BY <1>2, <2>1, FoldKeeps DEF BacktestInv
    <2>4. QED
      BY <2>1, <2>2, <2>3 DEF BacktestInv
  <1>3. CASE UNCHANGED backtestVars
    <2>1. /\ job' = job /\ newsRows' = newsRows /\ line' = line /\ next' = next /\ trades' = trades /\ day' = day
          /\ dayStart' = dayStart /\ equity' = equity /\ killed' = killed /\ testStart' = testStart /\ folds' = folds
      BY <1>3 DEF backtestVars
    <2>2. LoopFits => LoopFits'
      BY <2>1 DEF LoopFits
    <2>3. FoldsSoFar => FoldsSoFar'
      BY <2>1 DEF FoldsSoFar
    <2>4. QED
      BY <2>1, <2>2, <2>3 DEF BacktestInv
  <1>4. QED
    BY <1>1, <1>2, <1>3 DEF BacktestNext

\* The latest of those held together was opened below the limit, unless one was filled after it.
LEMMA LatestWasBelow ==
    ASSUME LoopFits PROVE OverrunNeedsLateFill
  <1> USE BacktestNumbers
  <1>1. PICK n \in Nat : n = Len(trades) /\ trades \in Seq(MadeTrade) /\ DOMAIN trades = 1 .. n
    BY DEF LoopFits
  <1>2. SUFFICES ASSUME NEW i \in 1 .. n, NEW held,
                        held = {j \in 1 .. n : trades[j].opened <= trades[i].opened /\ trades[j].closed > trades[i].opened},
                        Cardinality(held) > MaxPositions,
                        \A j, k \in held : ~(j < k /\ trades[j].opened > trades[k].news)
                 PROVE  FALSE
    BY <1>1 DEF OverrunNeedsLateFill
  <1>3. \A j \in 1 .. n : /\ trades[j].opened \in Nat /\ trades[j].closed \in Nat /\ trades[j].news \in Nat
                          /\ trades[j].news < trades[j].opened
    <2> TAKE j \in 1 .. n
    <2>1. trades[j] \in MadeTrade
      BY <1>1, ElementOfSeq
    <2>2. Decided(trades[j], job, newsRows)
      BY <1>1 DEF LoopFits
    <2>3. QED
      BY <2>1, <2>2 DEF MadeTrade, Decided
  <1>4. held \subseteq 1 .. n /\ IsFiniteSet(1 .. n)
    <2>1. IsFiniteSet(1 .. n)
      BY FS_Interval
    <2>2. QED
      BY <1>2, <2>1
  <1>5. IsFiniteSet(held)
    BY <1>4, FS_Subset
  <1>6. held # {}
    <2>1. held = {} => Cardinality(held) = 0
      BY FS_EmptySet
    <2>2. QED
      BY <1>2, <2>1
  <1>7. PICK k \in held : \A y \in held : y <= k
    BY <1>4, <1>6, GreatestNumber
  <1>8. k \in 1 .. n
    BY <1>4
  <1>9. held \ {k} \subseteq HeldAt(trades, k)
    <2> SUFFICES ASSUME NEW j \in held, j # k PROVE j \in HeldAt(trades, k)
      OBVIOUS
    <2>1. j \in 1 .. n /\ j < k
      BY <1>4, <1>7, <1>8
    <2>2. trades[j].closed > trades[i].opened /\ trades[k].opened <= trades[i].opened
      BY <1>2
    <2>3. PICK a \in Nat : a = trades[j].opened
      BY <1>3, <2>1
    <2>4. PICK b \in Nat : b = trades[j].closed
      BY <1>3, <2>1
    <2>5. PICK c \in Nat : c = trades[k].news
      BY <1>3, <1>8
    <2>6. PICK e \in Nat : e = trades[k].opened
      BY <1>3, <1>8
    <2>7. PICK g \in Nat : g = trades[i].opened
      BY <1>3
    <2>8. c < e
      BY <1>3, <1>8, <2>5, <2>6
    <2>9. ~(a > c)
      BY <1>2, <2>1, <2>3, <2>5
    <2>10. a <= c /\ b > c
      BY <2>2, <2>4, <2>6, <2>7, <2>8, <2>9
    <2>11. j \in 1 .. k - 1
      BY <1>8, <2>1
    <2>12. QED
      BY <2>3, <2>4, <2>5, <2>10, <2>11 DEF HeldAt
  <1>10. IsFiniteSet(HeldAt(trades, k)) /\ Cardinality(HeldAt(trades, k)) < MaxPositions
    <2>1. IsFiniteSet(1 .. k - 1)
      <3>1. k - 1 \in Int /\ 1 \in Int
        BY <1>8
      <3>2. QED
        BY <3>1, FS_Interval
    <2>2. HeldAt(trades, k) \subseteq 1 .. k - 1
      BY DEF HeldAt
    <2>3. IsFiniteSet(HeldAt(trades, k))
      BY <2>1, <2>2, FS_Subset
    <2>4. QED
      BY <1>1, <1>8, <2>3 DEF LoopFits
  <1>11. Cardinality(held \ {k}) <= Cardinality(HeldAt(trades, k))
    BY <1>9, <1>10, FS_Subset
  <1>12. Cardinality(held \ {k}) = Cardinality(held) - 1
    BY <1>5, FS_RemoveElement
  <1>13. Cardinality(held) \in Nat /\ Cardinality(HeldAt(trades, k)) \in Nat
    BY <1>5, <1>10, FS_CardinalityType
  <1>14. QED
    BY <1>2, <1>10, <1>11, <1>12, <1>13

LEMMA LoopsFit ==
    ASSUME LoopFits, job \in Loops PROVE LoopIsHonest /\ BacktestTypeOK
  <1> USE BacktestNumbers
  <1>1. PICK n \in Nat : n = Len(trades) /\ trades \in Seq(MadeTrade) /\ DOMAIN trades = 1 .. n
    BY DEF LoopFits
  <1>2. DayLossBounded
    <2>1. \A i \in DOMAIN trades : DayBound(trades, trades[i].news \div DayLength)
      BY <1>1 DEF LoopFits
    <2>2. \A d \in {trades[i].news \div DayLength : i \in DOMAIN trades} : DayBound(trades, d)
      BY <2>1
    <2>3. SUFFICES ASSUME NEW d \in {trades[i].news \div DayLength : i \in DOMAIN trades}
          PROVE  1000 * Gained(trades, {i \in DOMAIN trades : trades[i].news \div DayLength = d})
                    >= -(StartEquity + Gained(trades, {i \in DOMAIN trades : trades[i].news \div DayLength < d})) * KillPermille
                       + 1000 * Min(Pnls \cup {0})
      BY DEF DayLossBounded
    <2>4. DayBound(trades, d)
      BY ONLY <2>2, <2>3
    <2>5. QED
      BY <2>4 DEF DayBound, OfDay, Before
  <1>3. DecidedByItsOwnTime
    BY <1>1 DEF DecidedByItsOwnTime, LoopFits, Decided
  <1>4. WindowsAreHonest
    <2>1. DOMAIN folds = {}
      BY DEF LoopFits
    <2>2. QED
      BY <2>1 DEF WindowsAreHonest
  <1>5. BacktestTypeOK
    <2>1. newsRows \in Frames /\ line \in Resorted(newsRows)
      BY DEF LoopFits
    <2>2. /\ newsRows \in [Positions -> [at : 0 .. LastNews, ticker : Traded]]
          /\ line \in [Positions -> Positions] /\ IsInjective(line)
      BY <2>1 DEF Frames, Resorted
    <2>3. \A i \in Positions : newsRows[i].ticker \in Traded /\ newsRows[i].at \in 0 .. LastNews
      BY <2>2
    <2>4. Range(line) \subseteq Positions
      BY <2>2 DEF Range
    <2>5. /\ next \in 1 .. NewsCount + 1 /\ killed \in BOOLEAN /\ Len(trades) < next /\ folds = <<>>
          /\ equity = StartEquity + Gained(trades, DOMAIN trades)
      BY DEF LoopFits, MoneyFits
    <2>6. QED
      BY <2>2, <2>3, <2>4, <2>5 DEF BacktestTypeOK
  <1>6. QED
    BY <1>2, <1>3, <1>4, <1>5, LatestWasBelow DEF LoopIsHonest

LEMMA WalksFit ==
    ASSUME FoldsSoFar, job \in Walks PROVE LoopIsHonest /\ BacktestTypeOK
  <1> USE BacktestNumbers
  <1>1. trades = <<>> /\ trades \in Seq(MadeTrade) /\ DOMAIN trades = {}
    BY DEF FoldsSoFar
  <1>2. OverrunNeedsLateFill /\ DayLossBounded /\ DecidedByItsOwnTime
    BY <1>1 DEF OverrunNeedsLateFill, DayLossBounded, DecidedByItsOwnTime
  <1>3. PICK m \in Nat : m = Len(folds) /\ folds \in Seq(FoldWindow) /\ DOMAIN folds = 1 .. m
    BY DEF FoldsSoFar
  <1>4. WindowsAreHonest
    <2> SUFFICES ASSUME NEW i \in 1 .. m, NEW j \in 1 .. m
                 PROVE  /\ i < j => folds[i].end <= folds[j].start
                        /\ folds[i].start < folds[i].end /\ folds[i].end <= LastRow
                        /\ folds[i].to <= folds[i].start
                        /\ folds[i].to + LabelLength - folds[i].start <= LabelLength - Purge
      BY <1>3 DEF WindowsAreHonest
    <2>1. (i < j => folds[i].end <= folds[j].start) /\ WindowFits(folds[i])
      BY <1>3 DEF FoldsSoFar
    <2>2. folds[i] \in FoldWindow
      BY <1>3, ElementOfSeq
    <2>3. folds[i].start \in Int /\ folds[i].end \in Int /\ folds[i].to \in Int
      BY <2>2 DEF FoldWindow
    <2>4. QED
      BY <2>1, <2>3 DEF WindowFits
  <1>5. BacktestTypeOK
    <2>1. /\ newsRows \in [Positions -> [at : 0 .. LastNews, ticker : Traded]]
          /\ line = <<>> /\ next = 1 /\ killed = FALSE /\ equity = StartEquity
      BY DEF FoldsSoFar
    <2>2. \A i \in Positions : newsRows[i].ticker \in Traded /\ newsRows[i].at \in 0 .. LastNews
      BY <2>1
    <2>3. Range(line) \subseteq Positions
      BY <2>1 DEF Range
    <2>4. job \notin Loops /\ Len(trades) = 0 /\ Gained(trades, DOMAIN trades) = 0
      BY <1>1, NothingGained DEF Loops, Walks
    <2>5. Len(trades) + Len(folds) > 0 => (job \in Loops) = (folds = <<>>)
      BY <1>3, <2>4
    <2>6. next \in 1 .. NewsCount + 1 /\ Len(trades) < next /\ job \in Loops \cup Walks
      BY <2>1, <2>4
    <2>7. equity = StartEquity + Gained(trades, DOMAIN trades)
      BY <2>1, <2>4
    <2>8. killed \in BOOLEAN
      BY <2>1
    <2>9. QED
      BY ONLY <2>2, <2>3, <2>4, <2>5, <2>6, <2>7, <2>8 DEF BacktestTypeOK
  <1>6. QED
    BY <1>2, <1>4, <1>5 DEF LoopIsHonest

LEMMA BacktestInvHolds == BacktestSpec => []BacktestInv
  BY BacktestStarts, BacktestSteps, PTL DEF BacktestSpec

\* The loop of a backtest keeps its limits, but for late fills, loses no more on a day than
\* the kill and one more trade, reads the predictions for news of that time, and its
\* windows follow each other.
THEOREM LoopIsHonestHolds == BacktestSpec => []LoopIsHonest
  <1>1. BacktestInv => LoopIsHonest
    BY LoopsFit, WalksFit DEF BacktestInv
  <1>2. QED
    BY <1>1, BacktestInvHolds, PTL

LEMMA BacktestTypeOKHolds == BacktestSpec => []BacktestTypeOK
  <1>1. BacktestInv => BacktestTypeOK
    BY LoopsFit, WalksFit DEF BacktestInv
  <1>2. QED
    BY <1>1, BacktestInvHolds, PTL
-------------------------------------------------------------------------------
(* Features of training and of the live service. *)

NewsShape   == [at: Nat, says: Answers]
StreamShape == [news: Nat, at: Nat]

LEMMA FeatureNumbers ==
    /\ Back \in Nat /\ Day \in Nat /\ Ahead \in Nat /\ MaxGap \in Nat /\ MaxNews \in Nat /\ LastHalf \in Nat /\ LastHalf > 1
    /\ \A h \in Histories : IsFiniteSet(h) /\ h \in SUBSET Nat
  BY FeaturesAssumption

\* A row is that of a news which the predictor has taken, on the bars and the news it had.
NoGaps(arrived) == \A c \in arrived, x \in bars : x < c => x \in arrived
RowFits(r) ==
    \E b \in 1 .. taken, t \in Named, arrived \in SUBSET cached :
        /\ r = FeatureRow(stream[b].news, t, arrived, Recent(stream[b].news, t, b))
        /\ NoGaps(arrived)

NewsFit ==
    /\ published \in Seq(NewsShape) /\ Len(published) <= MaxNews
    /\ \A i \in 1 .. Len(published) : published[i].at <= halves
    /\ \A i, j \in 1 .. Len(published) : i < j => published[i].at <= published[j].at

StreamFits ==
    /\ stream \in Seq(StreamShape)
    /\ \A k \in 1 .. Len(stream) :
          /\ stream[k].news \in 1 .. Len(published)
          /\ published[stream[k].news].at <= stream[k].at /\ stream[k].at <= halves
    /\ \A k, l \in 1 .. Len(stream) : k < l => stream[k].at <= stream[l].at
    /\ \A k, l \in 1 .. Len(stream) : stream[k].news = stream[l].news => k = l

FeaturesInv ==
    /\ bars \in Histories /\ halves \in 2 .. LastHalf /\ cached \subseteq bars /\ NoGaps(cached)
    /\ NewsFit /\ StreamFits
    /\ taken \in 0 .. Len(stream)
    /\ \A r \in built : RowFits(r)

LEMMA FeaturesStart == FeaturesInit => FeaturesInv
  <1> SUFFICES ASSUME FeaturesInit PROVE FeaturesInv
    OBVIOUS
  <1>1. /\ bars \in Histories /\ halves = 2 /\ cached = {}
        /\ published = <<>> /\ stream = <<>> /\ taken = 0 /\ built = {}
    BY DEF FeaturesInit
  <1>2. NewsFit
    <2>1. published \in Seq(NewsShape) /\ Len(published) = 0
      BY <1>1
    <2>2. QED
      BY <2>1, FeatureNumbers DEF NewsFit
  <1>3. StreamFits
    <2>1. stream \in Seq(StreamShape) /\ Len(stream) = 0
      BY <1>1
    <2>2. QED
      BY <2>1 DEF StreamFits
  <1>4. NoGaps(cached) /\ halves \in 2 .. LastHalf /\ taken \in 0 .. Len(stream)
    BY <1>1, FeatureNumbers DEF NoGaps
  <1>5. QED
    BY <1>1, <1>2, <1>3, <1>4 DEF FeaturesInv

\* More bars, news and events leave the rows that were built what they are.
LEMMA RowsStay ==
    ASSUME FeaturesInv, bars' = bars, cached \subseteq cached',
           \A i \in DOMAIN published : i \in DOMAIN published' /\ published'[i] = published[i],
           \A k \in DOMAIN stream : stream'[k] = stream[k],
           taken \in Nat, taken' \in Nat, taken <= taken', NEW r, RowFits(r)
    PROVE  RowFits(r)'
  <1>1. PICK b \in 1 .. taken, t \in Named, arrived \in SUBSET cached :
            /\ r = FeatureRow(stream[b].news, t, arrived, Recent(stream[b].news, t, b))
            /\ NoGaps(arrived)
    BY DEF RowFits
  <1>2. /\ DOMAIN published = 1 .. Len(published) /\ DOMAIN stream = 1 .. Len(stream) /\ Len(stream) \in Nat
        /\ Len(published) \in Nat
        /\ taken <= Len(stream) /\ \A k \in 1 .. Len(stream) : stream[k].news \in 1 .. Len(published)
    BY DEF FeaturesInv, NewsFit, StreamFits
  <1>3. \A k \in 1 .. b : k \in DOMAIN stream /\ stream'[k] = stream[k] /\ stream[k].news \in DOMAIN published
    BY <1>2
  <1>4. PICK i \in DOMAIN published : i = stream[b].news /\ i = stream'[b].news
    <2>1. b \in 1 .. b
      OBVIOUS
    <2>2. QED
      BY <1>3, <2>1
  <1>5. published'[i] = published[i]
    BY <1>4
  <1>6. Recent(i, t, b)' = Recent(i, t, b)
    <2>1. ASSUME NEW j, j \in Recent(i, t, b) PROVE j \in Recent(i, t, b)'
      <3>1. PICK k \in 1 .. b : stream[k].news = j /\ published[i].at - stream[k].at \in 1 .. Day
        BY <2>1 DEF Recent
      <3>2. j \in DOMAIN published /\ t \in TickersOf(published[j].says)
        BY <2>1 DEF Recent, About
      <3>3. j \in About(t)'
        BY <3>2 DEF About
      <3>4. stream'[k].news = j /\ published'[i].at - stream'[k].at \in 1 .. Day
        BY <1>3, <1>5, <3>1
      <3>5. QED
        BY <3>3, <3>4 DEF Recent
    <2>2. ASSUME NEW j, j \in Recent(i, t, b)' PROVE j \in Recent(i, t, b)
      <3>1. PICK k \in 1 .. b : stream'[k].news = j /\ published'[i].at - stream'[k].at \in 1 .. Day
        BY <2>2 DEF Recent
      <3>2. stream[k].news = j /\ published[i].at - stream[k].at \in 1 .. Day /\ j \in DOMAIN published
        BY <1>3, <1>5, <3>1
      <3>3. t \in TickersOf(published'[j].says)
        BY <2>2 DEF Recent, About
      <3>4. j \in About(t)
        BY <3>2, <3>3 DEF About
      <3>5. QED
        BY <3>2, <3>4 DEF Recent
    <2>3. QED
      BY <2>1, <2>2
  <1>7. r = FeatureRow(stream[b].news, t, arrived, Recent(stream[b].news, t, b))'
    <2>1. r = FeatureRow(i, t, arrived, Recent(i, t, b))
      BY <1>1, <1>4
    <2>2. FeatureRow(i, t, arrived, Recent(i, t, b))' = FeatureRow(i, t, arrived, Recent(i, t, b))
      BY <1>5, <1>6 DEF FeatureRow
    <2>3. FeatureRow(stream[b].news, t, arrived, Recent(stream[b].news, t, b))' = FeatureRow(i, t, arrived, Recent(i, t, b))'
      BY <1>4
    <2>4. QED
      BY <2>1, <2>2, <2>3
  <1>8. NoGaps(arrived)'
    BY <1>1 DEF NoGaps
  <1>9. b \in 1 .. taken' /\ arrived \in SUBSET cached'
    OBVIOUS
  <1>10. QED
    BY <1>7, <1>8, <1>9 DEF RowFits

LEMMA FeaturesStep == FeaturesInv /\ [FeaturesNext]_featuresVars => FeaturesInv'
  <1> SUFFICES ASSUME FeaturesInv, [FeaturesNext]_featuresVars PROVE FeaturesInv'
    OBVIOUS
  <1>1. /\ bars \in Histories /\ halves \in 2 .. LastHalf /\ cached \subseteq bars /\ NoGaps(cached)
        /\ NewsFit /\ StreamFits /\ taken \in 0 .. Len(stream) /\ taken \in Nat
        /\ \A r \in built : RowFits(r)
    <2>1. Len(stream) \in Nat
      BY DEF FeaturesInv, StreamFits
    <2>2. QED
      BY <2>1 DEF FeaturesInv
  <1>2. /\ published \in Seq(NewsShape) /\ stream \in Seq(StreamShape)
        /\ DOMAIN published = 1 .. Len(published) /\ DOMAIN stream = 1 .. Len(stream)
        /\ Len(published) \in Nat /\ Len(stream) \in Nat
    BY <1>1 DEF NewsFit, StreamFits
  <1>3. halves \in Nat /\ 2 <= halves /\ halves <= LastHalf /\ LastHalf \in Nat /\ MaxNews \in Nat
    BY <1>1, FeatureNumbers
  <1>4. /\ \A i \in 1 .. Len(published) : published[i].at \in Nat
        /\ \A k \in 1 .. Len(stream) : stream[k].at \in Nat
    <2>1. \A i \in 1 .. Len(published) : published[i] \in NewsShape
      BY <1>2, ElementOfSeq
    <2>2. \A k \in 1 .. Len(stream) : stream[k] \in StreamShape
      BY <1>2, ElementOfSeq
    <2>3. QED
      BY <2>1, <2>2 DEF NewsShape, StreamShape
  <1>5. CASE TimePasses
    <2>1. /\ halves' = halves + 1 /\ halves' \in 2 .. LastHalf
          /\ UNCHANGED <<bars, cached, published, stream, taken, built>>
      BY <1>3, <1>5 DEF TimePasses
    <2>2. NoGaps(cached)' /\ \A r \in built' : RowFits(r)'
      <3>1. \A r : RowFits(r) => RowFits(r)'
        BY <1>1, <2>1, RowsStay
      <3>2. QED
        BY <1>1, <2>1, <3>1 DEF NoGaps
    <2>3. NewsFit'
      BY <1>1, <1>2, <1>3, <1>4, <2>1 DEF NewsFit
    <2>4. StreamFits'
      <3>1. \A k \in 1 .. Len(stream) : stream[k].at <= halves + 1
        BY <1>1, <1>3, <1>4 DEF StreamFits
      <3>2. QED
        BY <1>1, <2>1, <3>1 DEF StreamFits
    <2>5. QED
      BY <1>1, <2>1, <2>2, <2>3, <2>4 DEF FeaturesInv
  <1>6. CASE NextBar
    <2>1. PICK b \in bars \ cached : /\ \A c \in bars \ cached : b <= c
                                    /\ cached' = cached \cup {b}
                                    /\ UNCHANGED <<bars, halves, published, stream, taken, built>>
      BY <1>6 DEF NextBar
    <2>2. bars \in SUBSET Nat
      BY <1>1, FeatureNumbers
    <2>3. NoGaps(cached)'
      <3>1. SUFFICES ASSUME NEW c \in cached', NEW x \in bars, x < c PROVE x \in cached'
        BY <2>1 DEF NoGaps
      <3>2. CASE c \in cached
        BY <1>1, <2>1, <3>1, <3>2 DEF NoGaps
      <3>3. CASE c = b
        <4>1. ~(b <= x)
          BY <2>2, <3>1, <3>3
        <4>2. x \in cached
          BY <2>1, <4>1
        <4>3. QED
          BY <2>1, <4>2
      <3>4. QED
        BY <2>1, <3>2, <3>3
    <2>4. \A r \in built' : RowFits(r)'
      <3>1. cached \subseteq cached'
        BY <2>1
      <3>2. \A r : RowFits(r) => RowFits(r)'
        BY <1>1, <2>1, <3>1, RowsStay
      <3>3. QED
        BY <1>1, <2>1, <3>2
    <2>5. NewsFit' /\ StreamFits'
      BY <1>1, <2>1 DEF NewsFit, StreamFits
    <2>6. cached' \subseteq bars'
      BY <1>1, <2>1
    <2>7. QED
      BY <1>1, <2>1, <2>3, <2>4, <2>5, <2>6 DEF FeaturesInv
  <1>7. CASE NewsPublished
    <2>1. PICK a \in Answers : published' = Append(published, [at |-> halves, says |-> a])
      BY <1>7 DEF NewsPublished
    <2>2. Len(published) < MaxNews /\ UNCHANGED <<bars, halves, cached, stream, taken, built>>
      BY <1>7 DEF NewsPublished
    <2>3. PICK x \in NewsShape : x = [at |-> halves, says |-> a]
      BY <1>3 DEF NewsShape
    <2>4. x.at = halves
      BY <2>3
    <2>5. PICK n \in Nat : n = Len(published)
      BY <1>2
    <2>6. /\ published' \in Seq(NewsShape) /\ Len(published') = n + 1 /\ published'[n + 1] = x
          /\ DOMAIN published' = 1 .. n + 1 /\ \A i \in 1 .. n : published'[i] = published[i]
      BY <1>2, <2>1, <2>3, <2>5, AppendProperties
    <2>7. \A i \in 1 .. n + 1 : i \in 1 .. n \/ i = n + 1
      OBVIOUS
    <2>8. NewsFit'
      <3>1. \A i \in 1 .. n + 1 : published'[i].at <= halves
        BY <1>1, <1>3, <2>4, <2>5, <2>6, <2>7 DEF NewsFit
      <3>2. ASSUME NEW i \in 1 .. n + 1, NEW j \in 1 .. n + 1, i < j PROVE published'[i].at <= published'[j].at
        <4>1. i \in 1 .. n
          BY <3>2
        <4>2. CASE j \in 1 .. n
          BY <1>1, <2>5, <2>6, <3>2, <4>1, <4>2 DEF NewsFit
        <4>3. CASE j = n + 1
          BY <1>1, <2>4, <2>5, <2>6, <4>1, <4>3 DEF NewsFit
        <4>4. QED
          BY <2>7, <4>2, <4>3
      <3>3. n + 1 <= MaxNews
        BY <1>3, <2>2, <2>5
      <3>4. QED
        BY <2>2, <2>6, <3>1, <3>2, <3>3 DEF NewsFit
    <2>9. StreamFits'
      <3>1. \A k \in 1 .. Len(stream) :
              /\ stream[k].news \in 1 .. n + 1 /\ published'[stream[k].news].at <= stream[k].at /\ stream[k].at <= halves
        <4> TAKE k \in 1 .. Len(stream)
        <4>1. stream[k].news \in 1 .. n /\ published[stream[k].news].at <= stream[k].at /\ stream[k].at <= halves
          BY <1>1, <2>5 DEF StreamFits
        <4>2. QED
          BY <2>6, <4>1
      <3>2. QED
        BY <1>1, <2>2, <2>6, <3>1 DEF StreamFits
    <2>10. \A r \in built' : RowFits(r)'
      <3>1. \A i \in DOMAIN published : i \in DOMAIN published' /\ published'[i] = published[i]
        BY <1>2, <2>5, <2>6
      <3>2. \A r : RowFits(r) => RowFits(r)'
        BY <1>1, <2>2, <3>1, RowsStay
      <3>3. QED
        BY <1>1, <2>2, <3>2
    <2>11. QED
      BY <1>1, <2>2, <2>8, <2>9, <2>10 DEF FeaturesInv, NoGaps
  <1>8. CASE Enriched
    <2>1. PICK i \in DOMAIN published :
              /\ \A k \in DOMAIN stream : stream[k].news # i
              /\ stream' = Append(stream, [news |-> i, at |-> halves])
              /\ UNCHANGED <<bars, halves, cached, published, taken, built>>
      BY <1>8 DEF Enriched
    <2>2. PICK x \in StreamShape : x = [news |-> i, at |-> halves]
      <3>1. i \in Nat
        BY <1>2
      <3>2. QED
        BY <1>3, <3>1 DEF StreamShape
    <2>3. x.at = halves /\ x.news = i
      BY <2>2
    <2>4. PICK n \in Nat : n = Len(stream)
      BY <1>2
    <2>5. /\ stream' \in Seq(StreamShape) /\ Len(stream') = n + 1 /\ stream'[n + 1] = x
          /\ \A k \in 1 .. n : stream'[k] = stream[k]
      BY <1>2, <2>1, <2>2, <2>4, AppendProperties
    <2>6. \A k \in 1 .. n + 1 : k \in 1 .. n \/ k = n + 1
      OBVIOUS
    <2>7. StreamFits'
      <3>1. \A k \in 1 .. n + 1 :
              /\ stream'[k].news \in 1 .. Len(published)
              /\ published[stream'[k].news].at <= stream'[k].at /\ stream'[k].at <= halves
        <4> TAKE k \in 1 .. n + 1
        <4>1. CASE k \in 1 .. n
          BY <1>1, <2>4, <2>5, <4>1 DEF StreamFits
        <4>2. CASE k = n + 1
          <5>1. published[i].at <= halves
            BY <1>1, <1>2 DEF NewsFit
          <5>2. QED
            BY <1>2, <1>3, <2>3, <2>5, <4>2, <5>1
        <4>3. QED
          BY <2>6, <4>1, <4>2
      <3>2. ASSUME NEW k \in 1 .. n + 1, NEW l \in 1 .. n + 1, k < l PROVE stream'[k].at <= stream'[l].at
        <4>1. k \in 1 .. n
          BY <3>2
        <4>2. CASE l \in 1 .. n
          BY <1>1, <2>4, <2>5, <3>2, <4>1, <4>2 DEF StreamFits
        <4>3. CASE l = n + 1
          BY <1>1, <2>3, <2>4, <2>5, <4>1, <4>3 DEF StreamFits
        <4>4. QED
          BY <2>6, <4>2, <4>3
      <3>3. ASSUME NEW k \in 1 .. n + 1, NEW l \in 1 .. n + 1, stream'[k].news = stream'[l].news PROVE k = l
        <4>1. CASE k \in 1 .. n /\ l \in 1 .. n
          BY <1>1, <2>4, <2>5, <3>3, <4>1 DEF StreamFits
        <4>2. CASE k = n + 1 /\ l \in 1 .. n
          BY <1>2, <2>1, <2>3, <2>4, <2>5, <3>3, <4>2
        <4>3. CASE l = n + 1 /\ k \in 1 .. n
          BY <1>2, <2>1, <2>3, <2>4, <2>5, <3>3, <4>3
        <4>4. CASE k = n + 1 /\ l = n + 1
          BY <4>4
        <4>5. QED
          BY <2>6, <4>1, <4>2, <4>3, <4>4
      <3>4. QED
        BY <2>1, <2>5, <3>1, <3>2, <3>3 DEF StreamFits
    <2>8. \A r \in built' : RowFits(r)'
      <3>1. \A k \in DOMAIN stream : stream'[k] = stream[k]
        BY <1>2, <2>4, <2>5
      <3>2. \A r : RowFits(r) => RowFits(r)'
        BY <1>1, <2>1, <3>1, RowsStay
      <3>3. QED
        BY <1>1, <2>1, <3>2
    <2>9. taken' \in 0 .. Len(stream')
      BY <1>1, <2>1, <2>4, <2>5
    <2>10. NewsFit'
      BY <1>1, <2>1 DEF NewsFit
    <2>11. QED
      BY <1>1, <2>1, <2>7, <2>8, <2>9, <2>10 DEF FeaturesInv, NoGaps
  <1>9. CASE Predict
    <2>1. PICK k \in Nat : k = taken + 1
      BY <1>1
    <2>2. PICK i : i = stream[k].news
      OBVIOUS
    <2>3. /\ k <= Len(stream) /\ taken' = k
          /\ built' = {FeatureRow(i, t, cached, Recent(i, t, k)) : t \in TickersOf(published[i].says)}
          /\ UNCHANGED <<bars, halves, cached, published, stream>>
      BY <1>9, <2>1, <2>2 DEF Predict
    <2>4. i \in 1 .. Len(published)
      BY <1>1, <1>2, <2>1, <2>2, <2>3 DEF StreamFits
    <2>5. TickersOf(published[i].says) \subseteq Named
      <3>1. published[i] \in NewsShape
        BY <1>2, <2>4, ElementOfSeq
      <3>2. PICK a \in Answers : a = published[i].says
        BY <3>1 DEF NewsShape
      <3>3. a.impacts \in Seq(ImpactShape)
        BY FeaturesAssumption
      <3>4. \A l \in DOMAIN a.impacts : a.impacts[l].ticker \in Named
        <4> TAKE l \in DOMAIN a.impacts
        <4>1. a.impacts[l] \in ImpactShape
          BY <3>3, ElementOfSeq
        <4>2. QED
          BY <4>1 DEF ImpactShape
      <3>5. QED
        BY <3>2, <3>4 DEF TickersOf
    <2>6. \A r \in built' : RowFits(r)'
      <3> SUFFICES ASSUME NEW t \in TickersOf(published[i].says), NEW r, r = FeatureRow(i, t, cached, Recent(i, t, k))
                   PROVE  RowFits(r)'
        BY <2>3
      <3>1. t \in Named /\ k \in 1 .. taken' /\ cached \in SUBSET cached'
        <4>1. k \in 1 .. k
          BY <1>1, <2>1
        <4>2. taken' = k /\ cached' = cached
          BY <2>3
        <4>3. QED
          BY <2>5, <4>1, <4>2
      <3>2. NoGaps(cached)'
        BY <1>1, <2>3 DEF NoGaps
      <3>3. FeatureRow(stream[k].news, t, cached, Recent(stream[k].news, t, k))' = r
        <4>1. Recent(i, t, k)' = Recent(i, t, k)
          BY <2>3 DEF Recent, About
        <4>2. FeatureRow(i, t, cached, Recent(i, t, k))' = r
          BY <2>3, <4>1 DEF FeatureRow, BarReturn, LiveWindow
        <4>3. stream'[k].news = i
          BY <2>2, <2>3
        <4>4. QED
          BY <4>2, <4>3
      <3>4. cached' = cached
        BY <2>3
      <3>5. QED
        BY <3>1, <3>2, <3>3, <3>4 DEF RowFits
    <2>7. taken' \in 0 .. Len(stream')
      BY <1>2, <2>1, <2>3
    <2>8. NewsFit' /\ StreamFits' /\ NoGaps(cached)'
      BY <1>1, <2>3 DEF NewsFit, StreamFits, NoGaps
    <2>9. QED
      BY <1>1, <2>3, <2>6, <2>7, <2>8 DEF FeaturesInv
  <1>10. CASE UNCHANGED featuresVars
    <2>1. UNCHANGED <<bars, halves, cached, published, stream, taken, built>>
      BY <1>10 DEF featuresVars
    <2>2. \A r : RowFits(r) => RowFits(r)'
      BY <1>1, <2>1, RowsStay
    <2>3. NewsFit' /\ StreamFits' /\ NoGaps(cached)'
      BY <1>1, <2>1 DEF NewsFit, StreamFits, NoGaps
    <2>4. QED
      BY <1>1, <2>1, <2>2, <2>3 DEF FeaturesInv
  <1>11. QED
    BY <1>5, <1>6, <1>7, <1>8, <1>9, <1>10 DEF FeaturesNext

\* The bars before a minute.
EarlierBars(S, m) == {b \in S : b < m}

LEMMA BarsUntil ==
    ASSUME FeaturesInv, NEW S \in SUBSET bars
    PROVE  /\ S \in SUBSET Nat
           /\ \A m \in Int : EarlierBars(S, m) # {} => /\ Max(EarlierBars(S, m)) \in S /\ Max(EarlierBars(S, m)) \in Nat
                                                 /\ Max(EarlierBars(S, m)) < m
  <1>1. IsFiniteSet(bars) /\ bars \in SUBSET Nat
    BY FeatureNumbers DEF FeaturesInv
  <1>2. S \in SUBSET Nat /\ IsFiniteSet(S)
    BY <1>1, FS_Subset
  <1>3. ASSUME NEW m \in Int, EarlierBars(S, m) # {}
        PROVE  Max(EarlierBars(S, m)) \in S /\ Max(EarlierBars(S, m)) \in Nat /\ Max(EarlierBars(S, m)) < m
    <2>1. EarlierBars(S, m) \in SUBSET S
      BY DEF EarlierBars
    <2>2. EarlierBars(S, m) \in SUBSET Nat /\ IsFiniteSet(EarlierBars(S, m))
      BY <1>2, <2>1, FS_Subset
    <2>3. Max(EarlierBars(S, m)) \in EarlierBars(S, m)
      BY <1>3, <2>2, MaxOfFinite
    <2>4. QED
      BY <1>2, <2>1, <2>3 DEF EarlierBars
  <1>4. QED
    BY <1>2, <1>3

LEMMA NewsAt ==
    ASSUME FeaturesInv, NEW i \in DOMAIN published
    PROVE  published[i].at \in Nat /\ MinuteOf(published[i].at) \in Nat /\ published[i].says \in Answers
           /\ published[i].at < 2 * (MinuteOf(published[i].at) + 1)
  <1>1. published \in Seq(NewsShape)
    BY DEF FeaturesInv, NewsFit
  <1>2. published[i] \in NewsShape
    BY <1>1, ElementOfSeq
  <1>3. published[i].at \in Nat /\ published[i].says \in Answers
    BY <1>2 DEF NewsShape
  <1>4. QED
    BY <1>3 DEF MinuteOf

LEMMA ReturnOf ==
    ASSUME NEW arrived, NEW t
    PROVE  BarReturn(arrived, t) =
               IF (\A b \in arrived : b < MinuteOf(t)) \/ EarlierBars(arrived, MinuteOf(t) - Back) = {} THEN {}
               ELSE {Max(EarlierBars(arrived, MinuteOf(t))), Max(EarlierBars(arrived, MinuteOf(t) - Back))}
  BY DEF BarReturn, EarlierBars

LEMMA FeaturesPrecede == FeaturesInv => FeaturesPrecedeTargets
  <1> SUFFICES ASSUME FeaturesInv, NEW i \in DOMAIN published, NEW t, t = published[i].at,
                      NEW b \in LiveWindow(bars, t) \cup BarReturn(bars, t), NEW l \in MaxMove(t)
               PROVE  b < l /\ 2 * l > t
    BY DEF FeaturesPrecedeTargets
  <1>1. PICK m \in Nat : m = MinuteOf(t) /\ t \in Nat /\ t < 2 * (m + 1)
    BY NewsAt
  <1>2. bars \in SUBSET Nat /\ Back \in Nat
    BY FeatureNumbers DEF FeaturesInv
  <1>3. b \in Nat /\ b <= m
    <2>1. CASE b \in LiveWindow(bars, t)
      BY <1>1, <1>2, <2>1 DEF LiveWindow
    <2>2. CASE b \in BarReturn(bars, t)
      <3>1. /\ EarlierBars(bars, m - Back) # {}
            /\ b \in {Max(EarlierBars(bars, m)), Max(EarlierBars(bars, m - Back))}
        BY <1>1, <2>2, ReturnOf
      <3>2. m \in Int /\ m - Back \in Int /\ m - Back <= m
        BY <1>1, <1>2
      <3>3. EarlierBars(bars, m) # {}
        <4>1. PICK x \in EarlierBars(bars, m - Back) : TRUE
          BY <3>1
        <4>2. x \in bars /\ x < m - Back /\ x \in Nat
          BY <1>2, <4>1 DEF EarlierBars
        <4>3. x < m
          BY <3>2, <4>2
        <4>4. QED
          BY <4>2, <4>3 DEF EarlierBars
      <3>4. PICK x \in Nat : x = Max(EarlierBars(bars, m)) /\ x < m
        BY <3>2, <3>3, BarsUntil
      <3>5. PICK y \in Nat : y = Max(EarlierBars(bars, m - Back)) /\ y < m - Back
        BY <3>1, <3>2, BarsUntil
      <3>6. y < m
        BY <3>2, <3>5
      <3>7. QED
        BY <3>1, <3>4, <3>5, <3>6
    <2>3. QED
      BY <2>1, <2>2
  <1>4. l \in Nat /\ m + 1 <= l
    <2> DEFINE later == {x \in bars : x >= m + 1}
    <2>1. later # {} /\ l \in bars /\ l \in Min(later) .. Min(later) + Ahead
      BY <1>1 DEF MaxMove
    <2>2. later \in SUBSET Nat
      BY <1>2
    <2>3. Min(later) \in later
      BY <2>1, <2>2, MinOf
    <2>4. PICK x \in Nat : x = Min(later) /\ x >= m + 1
      BY <2>2, <2>3
    <2> HIDE DEF later
    <2>5. l \in Nat /\ x <= l
      BY <1>2, <2>1, <2>4
    <2>6. QED
      BY <2>4, <2>5
  <1>5. QED
    BY <1>1, <1>3, <1>4

LEMMA RowNews ==
    ASSUME FeaturesInv, NEW b \in 1 .. taken
    PROVE  /\ b \in 1 .. Len(stream) /\ stream[b].news \in DOMAIN published
           /\ published[stream[b].news].at \in Nat /\ stream[b].at \in Nat
           /\ published[stream[b].news].at <= stream[b].at
  <1>1. /\ published \in Seq(NewsShape) /\ stream \in Seq(StreamShape) /\ taken \in 0 .. Len(stream)
        /\ DOMAIN published = 1 .. Len(published) /\ Len(stream) \in Nat
    BY DEF FeaturesInv, NewsFit, StreamFits
  <1>2. b \in 1 .. Len(stream)
    BY <1>1
  <1>3. stream[b].news \in 1 .. Len(published) /\ published[stream[b].news].at <= stream[b].at
    BY <1>2 DEF FeaturesInv, StreamFits
  <1>4. stream[b] \in StreamShape
    BY <1>1, <1>2, ElementOfSeq
  <1>5. QED
    BY <1>1, <1>2, <1>3, <1>4, NewsAt DEF StreamShape

\* The bars the predictor had are all bars up to the last it had.
LEMMA BarsAreFewer == FeaturesInv => LiveBarsAreFewer
  <1> SUFFICES ASSUME FeaturesInv, NEW r \in built, NEW c, c = CorpusRow(r.news, r.ticker)
               PROVE  /\ r.window = c.window \cap r.had
                      /\ r.return \in {{}, c.return}
                      /\ r.return # {} => \E b \in r.had : b >= MinuteOf(published[r.news].at)
    BY DEF LiveBarsAreFewer
  <1>1. PICK b \in 1 .. taken, t \in Named, arrived \in SUBSET cached :
            /\ r = FeatureRow(stream[b].news, t, arrived, Recent(stream[b].news, t, b))
            /\ NoGaps(arrived)
    BY DEF FeaturesInv, RowFits
  <1>2. PICK i \in DOMAIN published : i = stream[b].news
    BY RowNews
  <1>3. PICK at \in Nat : at = published[i].at
    BY NewsAt
  <1>4. PICK m \in Nat : m = MinuteOf(at)
    BY <1>3, NewsAt
  <1>5. /\ r.news = i /\ r.ticker = t /\ r.had = arrived /\ r.window = LiveWindow(arrived, at)
        /\ r.return = BarReturn(arrived, at)
    BY <1>1, <1>2, <1>3 DEF FeatureRow
  <1>6. c.window = LiveWindow(bars, at) /\ c.return = BarReturn(bars, at)
    BY <1>3, <1>5 DEF CorpusRow, FeatureRow
  <1>7. arrived \subseteq bars /\ bars \in SUBSET Nat /\ Back \in Nat
    BY FeatureNumbers DEF FeaturesInv
  <1>8. r.window = c.window \cap r.had
    BY <1>5, <1>6, <1>7 DEF LiveWindow
  <1>9. ASSUME r.return # {} PROVE r.return = c.return /\ \E x \in arrived : x >= m
    <2>1. PICK x \in arrived : ~(x < m)
      BY <1>4, <1>5, <1>9, ReturnOf
    <2>2. x \in Nat /\ x >= m
      BY <1>7, <2>1
    <2>3. \A y \in bars : y < m => y \in arrived
      <3> SUFFICES ASSUME NEW y \in bars, y < m PROVE y \in arrived
        OBVIOUS
      <3>1. y \in Nat
        BY <1>7
      <3>2. y < x
        BY <2>2, <3>1
      <3>3. QED
        BY <1>1, <3>2 DEF NoGaps
    <2>4. \A y \in bars : y < m - Back => y \in arrived
      <3> SUFFICES ASSUME NEW y \in bars, y < m - Back PROVE y \in arrived
        OBVIOUS
      <3>1. y \in Nat
        BY <1>7
      <3>2. y < m
        BY <1>7, <3>1
      <3>3. QED
        BY <2>3, <3>2
    <2>5. EarlierBars(arrived, m) = EarlierBars(bars, m) /\ EarlierBars(arrived, m - Back) = EarlierBars(bars, m - Back)
      BY <1>7, <2>3, <2>4 DEF EarlierBars
    <2>6. ~(\A y \in bars : y < m)
      BY <1>7, <2>1
    <2>7. BarReturn(arrived, at) = BarReturn(bars, at)
      BY <1>4, <2>1, <2>5, <2>6, ReturnOf
    <2>8. QED
      BY <1>5, <1>6, <2>2, <2>7
  <1>10. QED
    BY <1>3, <1>4, <1>5, <1>8, <1>9

LEMMA NewsAreFewer == FeaturesInv => LiveNewsAreFewer
  <1> SUFFICES ASSUME FeaturesInv, NEW r \in built, NEW c, c = CorpusRow(r.news, r.ticker)
               PROVE  /\ \A j \in r.recent \ c.recent : published[r.news].at - published[j].at > Day
                      /\ \A j \in c.recent \ r.recent :
                            ~\E k \in DOMAIN stream : stream[k].news = j /\ stream[k].at < published[r.news].at
    BY DEF LiveNewsAreFewer
  <1>1. PICK b \in 1 .. taken, t \in Named, arrived \in SUBSET cached :
            r = FeatureRow(stream[b].news, t, arrived, Recent(stream[b].news, t, b))
    BY DEF FeaturesInv, RowFits
  <1>2. PICK i \in DOMAIN published : i = stream[b].news
    BY RowNews
  <1>3. PICK at \in Nat : at = published[i].at
    BY NewsAt
  <1>4. r.news = i /\ r.ticker = t /\ r.recent = Recent(i, t, b)
    BY <1>1, <1>2 DEF FeatureRow
  <1>5. c.recent = RecentInCorpus(i, t)
    BY <1>4 DEF CorpusRow, FeatureRow
  <1>6. Day \in Nat /\ DOMAIN stream = 1 .. Len(stream) /\ Len(stream) \in Nat
    BY FeatureNumbers DEF FeaturesInv, StreamFits
  <1>7. ASSUME NEW j \in r.recent \ c.recent PROVE at - published[j].at > Day
    <2>1. PICK k \in 1 .. b : stream[k].news = j /\ at - stream[k].at \in 1 .. Day
      BY <1>3, <1>4 DEF Recent
    <2>2. j \in About(t) /\ j \in DOMAIN published
      BY <1>4 DEF Recent, About
    <2>3. k \in 1 .. taken
      BY <2>1 DEF FeaturesInv
    <2>4. PICK x \in Nat : x = stream[k].at
      BY <2>3, RowNews
    <2>5. PICK y \in Nat : y = published[j].at /\ y <= x
      BY <2>1, <2>3, <2>4, RowNews
    <2>6. at - y >= 1
      BY <2>1, <2>4, <2>5
    <2>7. ~(at - y \in 1 .. Day)
      BY <1>3, <1>5, <2>2, <2>5 DEF RecentInCorpus
    <2>8. QED
      BY <1>6, <2>5, <2>6, <2>7
  <1>8. ASSUME NEW j \in c.recent \ r.recent, NEW k \in DOMAIN stream, stream[k].news = j, stream[k].at < at PROVE FALSE
    <2>1. j \in About(t) /\ at - published[j].at \in 1 .. Day
      BY <1>3, <1>5 DEF RecentInCorpus
    <2>2. stream \in Seq(StreamShape) /\ k \in 1 .. Len(stream)
      BY <1>6 DEF FeaturesInv, StreamFits
    <2>3. stream[k] \in StreamShape
      BY <2>2, ElementOfSeq
    <2>4. PICK x \in Nat : x = stream[k].at
      BY <2>3 DEF StreamShape
    <2>5. PICK y \in Nat : y = published[j].at /\ y <= x
      <3>1. published[stream[k].news].at <= stream[k].at
        BY <2>2 DEF FeaturesInv, StreamFits
      <3>2. j \in DOMAIN published
        BY <2>1 DEF About
      <3>3. QED
        BY <1>8, <2>4, <3>1, <3>2, NewsAt
    <2>6. PICK z \in Nat : z = stream[b].at /\ at <= z
      BY <1>2, <1>3, RowNews
    <2>7. k < b
      <3>1. b \in 1 .. Len(stream)
        BY RowNews
      <3>2. b < k => z <= x
        BY <2>2, <2>4, <2>6, <3>1 DEF FeaturesInv, StreamFits
      <3>3. b = k => z = x
        BY <2>4, <2>6
      <3>4. QED
        BY <1>8, <2>2, <2>4, <2>6, <3>1, <3>2, <3>3
    <2>8. k \in 1 .. b
      BY <2>2, <2>7
    <2>9. at - x \in 1 .. Day
      BY <1>6, <1>8, <2>1, <2>4, <2>5
    <2>10. j \in Recent(i, t, b)
      BY <1>3, <1>8, <2>1, <2>4, <2>8, <2>9 DEF Recent
    <2>11. QED
      BY <1>4, <2>10
  <1>9. QED
    BY <1>3, <1>4, <1>7, <1>8

\* The strongest impact of an answer is one of it.
LEMMA TopIsOne ==
    ASSUME NEW a, a.impacts \in Seq(ImpactShape), a.impacts # <<>> PROVE \E i \in DOMAIN a.impacts : Top(a) = a.impacts[i]
  <1>1. PICK n \in Nat : n = Len(a.impacts) /\ DOMAIN a.impacts = 1 .. n /\ n > 0
    BY EmptySeq
  <1>2. PICK f \in [1 .. n -> Nat] : \A i \in 1 .. n : f[i] = a.impacts[i].strength
    <2>1. \A i \in 1 .. n : a.impacts[i].strength \in Nat
      <3> TAKE i \in 1 .. n
      <3>1. a.impacts[i] \in ImpactShape
        BY <1>1, ElementOfSeq
      <3>2. QED
        BY <3>1 DEF ImpactShape
    <2>2. [i \in 1 .. n |-> a.impacts[i].strength] \in [1 .. n -> Nat]
      BY <2>1
    <2>3. QED
      BY <2>2
  <1>3. PICK S \in SUBSET Nat : S = {f[i] : i \in 1 .. n}
    OBVIOUS
  <1>4. IsFiniteSet(S)
    <2>1. f \in Surjection(1 .. n, S)
      <3>1. f \in [1 .. n -> S] /\ \A y \in S : \E i \in 1 .. n : f[i] = y
        BY <1>3
      <3>2. QED
        BY <3>1 DEF Surjection
    <2>2. IsFiniteSet(1 .. n)
      BY FS_Interval
    <2>3. QED
      BY <2>1, <2>2, FS_Surjection
  <1>5. 1 \in 1 .. n
    BY <1>1
  <1>6. S # {}
    BY <1>3, <1>5
  <1>7. Max(S) \in S
    BY <1>4, <1>6, MaxOfFinite
  <1>8. {a.impacts[i].strength : i \in DOMAIN a.impacts} = S
    BY <1>1, <1>2, <1>3
  <1>9. PICK T : T = {i \in DOMAIN a.impacts : a.impacts[i].strength = Max(S)}
    OBVIOUS
  <1>10. T \in SUBSET Nat /\ T # {}
    <2>1. PICK i \in 1 .. n : f[i] = Max(S)
      BY <1>3, <1>7
    <2>2. i \in T
      BY <1>1, <1>2, <1>9, <2>1
    <2>3. QED
      BY <1>1, <1>9, <2>2
  <1>11. Min(T) \in T
    BY <1>10, MinOf
  <1>12. Top(a) = a.impacts[Min(T)]
    BY <1>8, <1>9 DEF Top
  <1>13. QED
    BY <1>9, <1>11, <1>12

LEMMA ColumnsAreAlike ==
    ASSUME NEW a \in Answers, NEW t \in TickersOf(a), NEW new, new = Columns(Reconstructed(a), t),
           NEW old, old = RebuiltColumns(a, t)
    PROVE  /\ new.category # old.category => a.category \in {"market", "regulatory"}
           /\ new.timeframe # old.timeframe => a.timeframe \in {"short", "fast", "long"}
           /\ new.affected = old.affected + 1
           /\ NamedOnce(a, t) => /\ new.sentiment # old.sentiment => Top(a).ticker # t
                                 /\ new.direction = old.direction /\ new.sells = old.sells
  <1>1. /\ a \in [category: STRING, timeframe: STRING, impacts: Seq(ImpactShape)] /\ a.impacts # <<>>
        /\ a.impacts \in Seq(ImpactShape)
    BY FeaturesAssumption
  <1>2. PICK b : b = Reconstructed(a)
    OBVIOUS
  <1>3. /\ b.impacts = a.impacts
        /\ b.category = IF a.category \in NewsCategories THEN a.category ELSE "other"
        /\ b.timeframe = CASE a.timeframe = "fast" -> "short" [] a.timeframe = "long" -> "slow"
                           [] a.timeframe \in NewsTimeframes -> a.timeframe [] OTHER -> "medium"
    BY <1>1, <1>2 DEF Reconstructed
  <1>4. ImpactOf(b, t) = ImpactOf(a, t)
    BY <1>3 DEF ImpactOf
  <1>5. /\ new.category = IF b.category = "market" THEN "none" ELSE b.category
        /\ new.timeframe = IF b.timeframe = "short" THEN "none" ELSE b.timeframe
        /\ new.affected = Len(a.impacts) /\ new.sentiment = ImpactOf(a, t).sentiment
        /\ new.direction = ImpactOf(a, t).direction /\ new.sells = SellTheNews(ImpactOf(a, t))
    BY <1>2, <1>3, <1>4 DEF Columns
  <1>6. /\ old.category = IF a.category \in (NewsCategories \ {"market"}) \cup {"regulatory"} THEN a.category ELSE "other"
        /\ old.timeframe = IF a.timeframe \in {"instant", "fast", "medium", "slow"} THEN a.timeframe ELSE "medium"
        /\ old.affected = Len(a.impacts) - 1 /\ old.sentiment = Top(a).sentiment
        /\ old.direction = LastImpactOf(a, t).direction /\ old.sells = SellTheNews(LastImpactOf(a, t))
    BY DEF RebuiltColumns
  <1>7. new.category # old.category => a.category \in {"market", "regulatory"}
    BY <1>3, <1>5, <1>6 DEF NewsCategories
  <1>8. new.timeframe # old.timeframe => a.timeframe \in {"short", "fast", "long"}
    BY <1>3, <1>5, <1>6 DEF NewsTimeframes
  <1>9. new.affected = old.affected + 1
    BY <1>1, <1>5, <1>6
  <1>10. ASSUME NamedOnce(a, t) PROVE ImpactOf(a, t) = LastImpactOf(a, t) /\ (Top(a).ticker = t => Top(a) = ImpactOf(a, t))
    <2>1. PICK k \in DOMAIN a.impacts : a.impacts[k].ticker = t
      BY DEF TickersOf
    <2>2. k \in Nat
      BY <1>1, <2>1
    <2>3. {i \in DOMAIN a.impacts : a.impacts[i].ticker = t} = {k}
      BY <1>10, <2>1 DEF NamedOnce
    <2>4. {k} \in SUBSET Nat /\ {k} # {} /\ IsFiniteSet({k})
      BY <2>2, FS_Singleton
    <2>5. Min({k}) \in {k} /\ Max({k}) \in {k}
      BY <2>4, MinOf, MaxOfFinite
    <2>6. Min({k}) = k /\ Max({k}) = k
      BY <2>5
    <2>7. ImpactOf(a, t) = a.impacts[k] /\ LastImpactOf(a, t) = a.impacts[k]
      BY <2>3, <2>6 DEF ImpactOf, LastImpactOf
    <2>8. PICK i \in DOMAIN a.impacts : Top(a) = a.impacts[i]
      BY <1>1, TopIsOne
    <2>9. Top(a).ticker = t => i = k
      BY <1>10, <2>1, <2>8 DEF NamedOnce
    <2>10. QED
      BY <2>7, <2>8, <2>9
  <1>11. QED
    BY <1>5, <1>6, <1>7, <1>8, <1>9, <1>10

LEMMA FeaturesInvHolds == FeaturesSpec => []FeaturesInv
  BY FeaturesStart, FeaturesStep, PTL DEF FeaturesSpec

\* Features are made of what was known, never of what a model learns to foresee; the live
\* ones are those of the corpora but for the bars and the news that had not come yet.
THEOREM FeaturesAreHonestHolds == FeaturesSpec => []FeaturesAreHonest
  <1>1. FeaturesInv => ColumnsAgree
    <2> SUFFICES ASSUME FeaturesInv, NEW i \in DOMAIN published, NEW a, a = published[i].says, NEW t \in TickersOf(a),
                        NEW new, new = Columns(Reconstructed(a), t), NEW old, old = RebuiltColumns(a, t)
                 PROVE  /\ new.category # old.category => a.category \in {"market", "regulatory"}
                        /\ new.timeframe # old.timeframe => a.timeframe \in {"short", "fast", "long"}
                        /\ new.affected = old.affected + 1
                        /\ NamedOnce(a, t) => /\ new.sentiment # old.sentiment => Top(a).ticker # t
                                              /\ new.direction = old.direction /\ new.sells = old.sells
      BY DEF ColumnsAgree
    <2>1. a \in Answers
      BY NewsAt
    <2>2. QED
      BY <2>1, ColumnsAreAlike
  <1>2. FeaturesInv => FeaturesAreHonest
    BY <1>1, FeaturesPrecede, BarsAreFewer, NewsAreFewer DEF FeaturesAreHonest
  <1>3. QED
    BY <1>2, FeaturesInvHolds, PTL

LEMMA FeaturesTypeOKHolds == FeaturesSpec => []FeaturesTypeOK
  <1>1. FeaturesInv => FeaturesTypeOK
    <2> SUFFICES ASSUME FeaturesInv PROVE FeaturesTypeOK
      OBVIOUS
    <2>1. /\ bars \in Histories /\ cached \subseteq bars /\ halves \in 2 .. LastHalf
          /\ published \in Seq(NewsShape) /\ Len(published) <= MaxNews /\ DOMAIN published = 1 .. Len(published)
          /\ \A i, j \in 1 .. Len(published) : i < j => published[i].at <= published[j].at
          /\ taken \in 0 .. Len(stream)
      BY DEF FeaturesInv, NewsFit
    <2>2. \A i \in DOMAIN published : published[i].says \in Answers
      BY NewsAt
    <2>3. /\ DOMAIN stream = 1 .. Len(stream)
          /\ \A k \in 1 .. Len(stream) : stream[k].news \in 1 .. Len(published)
          /\ \A k, l \in 1 .. Len(stream) : stream[k].news = stream[l].news => k = l
      BY DEF FeaturesInv, StreamFits
    <2>4. {stream[k].news : k \in DOMAIN stream} \subseteq DOMAIN published
      BY <2>1, <2>3
    <2>5. IsInjective([k \in DOMAIN stream |-> stream[k].news])
      BY <2>3 DEF IsInjective
    <2>6. \A r \in built : r.window \cup r.return \subseteq bars /\ r.news \notin r.recent
      <3> TAKE r \in built
      <3>1. PICK b \in 1 .. taken, t \in Named, arrived \in SUBSET cached :
                r = FeatureRow(stream[b].news, t, arrived, Recent(stream[b].news, t, b))
        BY DEF FeaturesInv, RowFits
      <3>2. PICK i \in DOMAIN published : i = stream[b].news
        BY RowNews
      <3>3. PICK at \in Nat : at = published[i].at /\ MinuteOf(at) \in Nat
        BY NewsAt
      <3>4. /\ r.news = i /\ r.window = LiveWindow(arrived, at) /\ r.return = BarReturn(arrived, at)
            /\ r.recent = Recent(i, t, b)
        BY <3>1, <3>2, <3>3 DEF FeatureRow
      <3>5. arrived \in SUBSET bars /\ Back \in Nat /\ arrived \in SUBSET Nat
        BY <2>1, FeatureNumbers
      <3>6. r.window \subseteq bars
        BY <3>4, <3>5 DEF LiveWindow
      <3>7. BarReturn(arrived, at) \subseteq bars
        <4>1. SUFFICES ASSUME BarReturn(arrived, at) # {} PROVE BarReturn(arrived, at) \subseteq arrived
          BY <3>5
        <4>2. PICK m \in Int : m = MinuteOf(at)
          BY <3>3
        <4>3. PICK l \in Int : l = m - Back /\ l <= m
          BY <3>5
        <4>4. EarlierBars(arrived, l) # {} /\ BarReturn(arrived, at) = {Max(EarlierBars(arrived, m)), Max(EarlierBars(arrived, l))}
          BY <4>1, <4>2, <4>3, ReturnOf
        <4>5. EarlierBars(arrived, m) # {}
          <5>1. PICK x \in EarlierBars(arrived, l) : TRUE
            BY <4>4
          <5>2. x \in arrived /\ x < l /\ x \in Nat
            BY <3>5, <5>1 DEF EarlierBars
          <5>3. x < m
            BY <4>3, <5>2
          <5>4. QED
            BY <5>2, <5>3 DEF EarlierBars
        <4>6. Max(EarlierBars(arrived, m)) \in arrived /\ Max(EarlierBars(arrived, l)) \in arrived
          BY <3>5, <4>4, <4>5, BarsUntil
        <4>7. QED
          BY <4>4, <4>6
      <3>8. i \notin Recent(i, t, b)
        <4>1. SUFFICES ASSUME NEW k \in 1 .. b, stream[k].news = i, published[i].at - stream[k].at \in 1 .. Day PROVE FALSE
          BY DEF Recent
        <4>2. k \in 1 .. taken
          BY <2>1
        <4>3. PICK x \in Nat : x = stream[k].at /\ at <= x
          BY <3>3, <4>1, <4>2, RowNews
        <4>4. QED
          BY <3>3, <4>1, <4>3
      <3>9. QED
        BY <3>4, <3>6, <3>7, <3>8
    <2>7. QED
      BY <2>1, <2>2, <2>4, <2>5, <2>6 DEF FeaturesTypeOK
  <1>2. QED
    BY <1>1, FeaturesInvHolds, PTL

-------------------------------------------------------------------------------
(* All parts. *)

LEMMA PartsStart ==
    ASSUME ChecksInit PROVE /\ ArchiveInit /\ EnrichedSwapInit /\ BatchInit /\ PricesInit /\ FeedInit
                            /\ RulesInit /\ InstrumentsInit /\ PaperInit /\ ExitsInit /\ CostsInit
                            /\ BacktestInit /\ WalkInit /\ FeaturesInit /\ WindowReplayInit
  BY DEF ChecksInit

LEMMA PartsMove ==
    ASSUME [ChecksNext]_checksVars
    PROVE  /\ [ArchiveNext]_archiveVars /\ [EnrichedSwapNext]_swapVars /\ [BatchNext]_batchVars
           /\ [PricesNext]_pricesVars /\ [FeedNext]_feedVars
           /\ [RulesNext]_rulesVars /\ [InstrumentsNext]_instrumentsVars
           /\ [PaperNext]_paperVars /\ [ExitsNext]_exitsVars /\ [CostsNext]_costsVars
           /\ [BacktestNext]_backtestVars /\ [WalkNext]_walkVars
           /\ [FeaturesNext]_featuresVars /\ [WindowReplayNext]_windowReplayVars
  BY DEF ChecksNext, Only, checksVars

\* Of the checkpoint, the archive and what the replays start from each is whole.
THEOREM ArchivesAreWholeHolds == ChecksSpec => []ArchivesAreWhole
  <1>1. ChecksSpec => ArchiveSpec
    BY PartsStart, PartsMove, PTL DEF ChecksSpec, ArchiveSpec
  <1>2. ChecksSpec => EnrichedSwapSpec
    BY PartsStart, PartsMove, PTL DEF ChecksSpec, EnrichedSwapSpec
  <1>3. ChecksSpec => BatchSpec
    BY PartsStart, PartsMove, PTL DEF ChecksSpec, BatchSpec
  <1>4. CheckpointIsSound /\ ArchiveIsWhole /\ ReplayInputIsSound => ArchivesAreWhole
    BY DEF ArchivesAreWhole
  <1>5. QED
    BY <1>1, <1>2, <1>3, <1>4, ArchiveIsWholeHolds, ReplayInputIsSoundHolds, CheckpointIsSoundHolds, PTL

\* Candles reach the stream and its readers, and the files and theirs, without a hole and once.
THEOREM CandlesAreFaithfulHolds == ChecksSpec => []CandlesAreFaithful
  <1>1. ChecksSpec => FeedSpec
    BY PartsStart, PartsMove, PTL DEF ChecksSpec, FeedSpec
  <1>2. ChecksSpec => PricesSpec
    BY PartsStart, PartsMove, PTL DEF ChecksSpec, PricesSpec
  <1>3. FeedIsFaithful /\ PricesAreWhole => CandlesAreFaithful
    BY DEF CandlesAreFaithful
  <1>4. QED
    BY <1>1, <1>2, <1>3, FeedIsFaithfulHolds, PricesAreWholeHolds, PTL

\* The rules of a trade agree with their copies, and instruments keep their names.
THEOREM RulesAndTablesAgreeHolds == ChecksSpec => []RulesAndTablesAgree
  <1>1. ChecksSpec => RulesSpec
    BY PartsStart, PartsMove, PTL DEF ChecksSpec, RulesSpec
  <1>2. ChecksSpec => InstrumentsSpec
    BY PartsStart, PartsMove, PTL DEF ChecksSpec, InstrumentsSpec
  <1>3. RulesAgree /\ InstrumentsAreKept => RulesAndTablesAgree
    BY DEF RulesAndTablesAgree
  <1>4. QED
    BY <1>1, <1>2, <1>3, RulesAgreeHolds, InstrumentsAreKeptHolds, PTL

\* Trades end at the same bar and cost the same whichever code counts them.
THEOREM TradesAreCountedAlikeHolds == ChecksSpec => []TradesAreCountedAlike
  <1>1. ChecksSpec => PaperSpec
    BY PartsStart, PartsMove, PTL DEF ChecksSpec, PaperSpec
  <1>2. ChecksSpec => ExitsSpec
    BY PartsStart, PartsMove, PTL DEF ChecksSpec, ExitsSpec
  <1>3. ChecksSpec => CostsSpec
    BY PartsStart, PartsMove, PTL DEF ChecksSpec, CostsSpec
  <1>4. ExitIsFair /\ StrategiesAgree /\ CostsAgree => TradesAreCountedAlike
    BY DEF TradesAreCountedAlike
  <1>5. QED
    BY <1>1, <1>2, <1>3, <1>4, ExitIsFairHolds, StrategiesAgreeHolds, CostsAgreeHolds, PTL

\* No loop over the history knows more than the live one did: the backtests, the walk-forward
\* harnesses, the features and the replay of a window.
THEOREM LoopsAreHonestHolds == ChecksSpec => []LoopsAreHonest
  <1>1. ChecksSpec => BacktestSpec
    BY PartsStart, PartsMove, PTL DEF ChecksSpec, BacktestSpec
  <1>2. ChecksSpec => WalkSpec
    BY PartsStart, PartsMove, PTL DEF ChecksSpec, WalkSpec
  <1>3. ChecksSpec => FeaturesSpec
    BY PartsStart, PartsMove, PTL DEF ChecksSpec, FeaturesSpec
  <1>4. ChecksSpec => WindowReplaySpec
    BY PartsStart, PartsMove, PTL DEF ChecksSpec, WindowReplaySpec
  <1>5. LoopIsHonest /\ WalksAreHonest /\ FeaturesAreHonest /\ ReplayIsHonest => LoopsAreHonest
    BY DEF LoopsAreHonest
  <1>6. QED
    BY <1>1, <1>2, <1>3, <1>4, <1>5, LoopIsHonestHolds, WalksAreHonestHolds, FeaturesAreHonestHolds, ReplayIsHonestHolds, PTL
===============================================================================
