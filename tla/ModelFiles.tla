------------------------------- MODULE ModelFiles ------------------------------
(***************************************************************************)
(* The directory of the predictor's models.  train_predictor_fold13.py and *)
(* train_predictor_v7c_weighted.py write the order of the features first   *)
(* and then one model after the other, over what is there; load_bundle of  *)
(* the predictor reads the order and all the models at its start.  What a  *)
(* file holds is the training that wrote it.                               *)
(***************************************************************************)
EXTENDS Integers, FiniteSets, Sequences, SequencesExt

CONSTANTS
    Outputs,            \* target columns, in the order they are trained
    MaxTrainings        \* bound

ASSUME ModelFilesAssumption ==
    /\ Outputs \in Seq(STRING) /\ Outputs # <<>> /\ IsInjective(Outputs)
    /\ MaxTrainings \in Nat

\* The order of the files: of each target the general model, then that of the index future.
Models == [i \in 1 .. 2 * Len(Outputs) |->
              <<Outputs[(i + 1) \div 2], IF i % 2 = 1 THEN "general" ELSE "mx_specific">>]

VARIABLES
    featureOrder,       \* feature_order.json: which training wrote it
    modelFile,          \* of each model: which training wrote its file
    trainings,
    training,           \* the one under way: its next step, the models it leaves out
    partial,            \* history: trainings that died or left models out
    withMx,             \* history: trainings on a corpus with enough rows named "MX"
    verified,           \* what verify_models has reported last
    loading,            \* what a start of the predictor has read so far
    bundle              \* what the last one has loaded

modelFilesVars == <<featureOrder, modelFile, trainings, training, partial, withMx, verified, loading, bundle>>

Absent == 0
TornModel    == MaxTrainings + 1
Steps   == 0 .. Len(Models) + 1
NoTraining == [of |-> 0, next |-> 0, without |-> {}]

\* The files read so far, the order first; history: trainings that were under way meanwhile.
NoLoading  == [is |-> "none", order |-> 0, models |-> <<>>, during |-> {}]

ModelFilesTypeOK ==
    /\ featureOrder \in 0 .. trainings \cup {TornModel} /\ modelFile \in [DOMAIN Models -> 0 .. trainings \cup {TornModel}]
    /\ trainings \in 0 .. MaxTrainings /\ partial \cup withMx \subseteq 1 .. trainings
    /\ training.of \in {0, trainings} /\ training.next \in Steps /\ training.without \subseteq DOMAIN Models
    /\ verified \in {"nothing", "clean", "issues", "crash"}
    /\ \A b \in {loading, bundle} :
         /\ b.is \in {"none", "reads", "failed", "loaded"} /\ DOMAIN b.models \subseteq DOMAIN Models
         /\ b.during \subseteq 1 .. trainings

ModelFilesInit ==
    /\ featureOrder = Absent /\ modelFile = [i \in DOMAIN Models |-> Absent] /\ trainings = 0
    /\ training = NoTraining /\ partial = {} /\ withMx = {} /\ verified = "nothing"
    /\ loading = NoLoading /\ bundle = NoLoading

-------------------------------------------------------------------------------
(* Training. *)

\* main writes the order before the first model.
OrderComesAt(i) == i = 0

\* A target with too few clean samples has no model; mx_mask compares the names of the
\* corpus with "MX", and needs MIN_MX_SAMPLES of them.
StartTraining ==
    /\ training = NoTraining /\ trainings < MaxTrainings /\ trainings' = trainings + 1
    /\ \E mx \in BOOLEAN, unclean \in {{}} \cup {{Outputs[k]} : k \in DOMAIN Outputs} :
        LET without == {i \in DOMAIN Models : \/ Models[i][1] \in unclean
                                              \/ Models[i][2] = "mx_specific" /\ ~mx} IN
        /\ training' = [of |-> trainings', next |-> 0, without |-> without]
        /\ partial' = IF without = {} THEN partial ELSE partial \cup {trainings'}
        /\ withMx' = IF mx THEN withMx \cup {trainings'} ELSE withMx
    /\ loading' = IF loading = NoLoading THEN loading ELSE [loading EXCEPT !.during = @ \cup {trainings'}]
    /\ UNCHANGED <<featureOrder, modelFile, verified, bundle>>

\* verify_models: a file that is there counts, whoever wrote it; one that cannot be read
\* raises.
Verdict(files) ==
    IF \E i \in DOMAIN files : files[i] = TornModel THEN "crash"
    ELSE IF \E i \in DOMAIN files : files[i] = Absent THEN "issues" ELSE "clean"

\* One file, or the check of them all; a model that is left out leaves its file alone.
Write ==
    LET i == training.next IN
    /\ training # NoTraining
    /\ featureOrder' = IF OrderComesAt(i) THEN training.of ELSE featureOrder
    /\ modelFile' = IF i \in DOMAIN modelFile \ training.without THEN [modelFile EXCEPT ![i] = training.of] ELSE modelFile
    /\ IF i = Len(Models) + 1 THEN verified' = Verdict(modelFile) /\ training' = NoTraining
       ELSE training' = [training EXCEPT !.next = i + 1] /\ UNCHANGED verified
    /\ UNCHANGED <<trainings, partial, withMx, loading, bundle>>

\* Files are written in place.
DieTraining ==
    LET i == training.next IN
    /\ training # NoTraining /\ training' = NoTraining /\ partial' = partial \cup {training.of}
    /\ \/ UNCHANGED <<featureOrder, modelFile>>
       \/ OrderComesAt(i) /\ featureOrder' = TornModel /\ UNCHANGED modelFile
       \/ i \in DOMAIN modelFile \ training.without /\ modelFile' = [modelFile EXCEPT ![i] = TornModel] /\ UNCHANGED featureOrder
    /\ UNCHANGED <<trainings, withMx, verified, loading, bundle>>

\* train --verify.
VerifyOnly ==
    /\ training = NoTraining /\ verified # Verdict(modelFile) /\ verified' = Verdict(modelFile)
    /\ UNCHANGED <<featureOrder, modelFile, trainings, training, partial, withMx, loading, bundle>>

-------------------------------------------------------------------------------
(* The predictor. *)

StartLoading ==
    /\ loading = NoLoading
    /\ IF featureOrder \in {Absent, TornModel} THEN bundle' = [NoLoading EXCEPT !.is = "failed"] /\ UNCHANGED loading
       ELSE /\ loading' = [is |-> "reads", order |-> featureOrder, models |-> <<>>,
                           during |-> {training.of} \ {0}]
            /\ UNCHANGED bundle
    /\ UNCHANGED <<featureOrder, modelFile, trainings, training, partial, withMx, verified>>

\* load_bundle reads one model after the other, and fails at one that is missing or cannot
\* be read.
LoadModel ==
    LET i == Len(loading.models) + 1  read == [loading EXCEPT !.models = Append(@, modelFile[i])] IN
    /\ loading # NoLoading
    /\ IF modelFile[i] \in {Absent, TornModel} THEN bundle' = [NoLoading EXCEPT !.is = "failed"] /\ loading' = NoLoading
       ELSE IF i = Len(Models) THEN bundle' = [read EXCEPT !.is = "loaded"] /\ loading' = NoLoading
       ELSE loading' = read /\ UNCHANGED bundle
    /\ UNCHANGED <<featureOrder, modelFile, trainings, training, partial, withMx, verified>>

ModelFilesNext == StartTraining \/ Write \/ DieTraining \/ VerifyOnly \/ StartLoading \/ LoadModel

ModelFilesSpec == ModelFilesInit /\ [][ModelFilesNext]_modelFilesVars

-------------------------------------------------------------------------------
(* Properties. *)

\* No model the predictor uses learned from columns newer than the order it takes them in,
\* unless it was started while a training ran; from older ones only if the training of the
\* order died, left models out, or ran then.
OrderIsNotOlder ==
    bundle.is = "loaded" => \A i \in DOMAIN bundle.models :
        /\ bundle.models[i] > bundle.order => bundle.during # {}
        /\ bundle.models[i] < bundle.order => bundle.order \in partial \cup bundle.during

\* Models of the index future are there only if some corpus wrote it "MX"; models are of
\* one training unless one was partial or ran at the start.
ModelsAreOfOneTraining ==
    bundle.is = "loaded" =>
        /\ \A i \in DOMAIN bundle.models : Models[i][2] = "mx_specific" => bundle.models[i] \in withMx
        /\ \A i, j \in DOMAIN bundle.models : bundle.models[i] < bundle.models[j] =>
               \E t \in partial \cup bundle.during : t > bundle.models[i]

\* A directory that was found clean can be loaded, and is of one training unless that one
\* was partial; the check does not tell.
CleanCanBeLoaded ==
    (verified = "clean" /\ training = NoTraining /\ trainings \notin partial) =>
        {featureOrder} \cup {modelFile[i] : i \in DOMAIN modelFile} = {trainings}

\* What the predictor has loaded fits together, or a training is to blame.
ModelsFitTogether == OrderIsNotOlder /\ ModelsAreOfOneTraining /\ CleanCanBeLoaded
===============================================================================
