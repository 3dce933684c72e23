------------------------------ MODULE WalkForward ------------------------------
(***************************************************************************)
(* Walk-forward tests: models are trained on a window of the corpus and    *)
(* tried on the window after it, fold by fold.  walk_forward_y6_honest.py  *)
(* leaves a file for each fold, can go on where a run died, and collects   *)
(* all files it finds; walk_forward_v7_all_folds.py collects what it has   *)
(* in memory.  combine_v2_train_corpus.py puts the corpus together; it     *)
(* grows between runs.                                                     *)
(***************************************************************************)
EXTENDS Integers, Sequences, FiniteSets, FiniteSetsExt, SequencesExt

CONSTANTS
    Corpora,            \* what the parquets of features and targets hold, then hold later
    Canonical,          \* the name of the contract for each name in use, or "none"
    Unpriced,           \* names of the contract without a price file
    TestFrom, TestDays, StepDays, TrainSpan, PurgeSpan,
    MinTrain, MinTest,  \* rows a fold needs
    MinClean,           \* rows with a target a model needs
    MaxRuns             \* bound

ASSUME WalkForwardAssumption ==
    /\ {TestFrom, PurgeSpan, MinTrain, MinClean, MaxRuns} \subseteq Nat
    /\ {TestDays, TrainSpan, MinTest} \subseteq Nat \ {0} /\ StepDays \in Nat /\ StepDays >= TestDays
    /\ Len(Corpora) \in Nat \ {0} /\ DOMAIN Corpora = 1 .. Len(Corpora)
    /\ \A v \in DOMAIN Corpora : \A p \in {"phase2", "y6"} :
         /\ Corpora[v][p].features \subseteq [id: Nat, at: Nat, name: DOMAIN Canonical]
         /\ Corpora[v][p].targets \subseteq [id: Nat, name: DOMAIN Canonical, known: BOOLEAN]
         /\ IsFiniteSet(Corpora[v][p].features) /\ IsFiniteSet(Corpora[v][p].targets)
    \* A news has one time, in all extracts.
    /\ \A v, w \in DOMAIN Corpora : \A p, q \in {"phase2", "y6"} :
         \A f \in Corpora[v][p].features, g \in Corpora[w][q].features : f.id = g.id => f.at = g.at

VARIABLES
    harness,            \* "y6" or "v7"
    version,            \* of the corpus
    files,              \* for each fold number that has a file, what it holds
    runs,
    run,                \* the run under way, with the corpus and the folds it works on, or none
    collected           \* outcomes.parquet, or trades.csv with summary.json

walkVars == <<harness, version, files, runs, run, collected>>

-------------------------------------------------------------------------------
(* The corpus. *)

\* unique(keep="first") of the concatenation: of two rows of one news and one name, the
\* one of Phase 2.
Combine(first, second) ==
    first \cup {r \in second : ~\E s \in first : s.id = r.id /\ s.name = r.name}

Features(v) == Combine(Corpora[v].phase2.features, Corpora[v].y6.features)
Targets(v)  == Combine(Corpora[v].phase2.targets, Corpora[v].y6.targets)

\* The columns of a merged row; its label may be that of another name.
Merged(f, t) == [id |-> f.id, at |-> f.at, name |-> f.name, label |-> t.name, known |-> t.known]

\* merge_features_and_targets: on the id of the news.
MergedOnId(v) ==
    UNION {{Merged(f, t) : t \in {u \in Targets(v) : u.id = f.id}} : f \in Features(v)}

\* The rows under the names of the contracts.
Canonised(rows) == {[r EXCEPT !.name = Canonical[@]] : r \in {s \in rows : Canonical[s.name] # "none"}}

\* merge_features_targets_clean: on the id and the name of the contract; one row is kept
\* where two spellings of a name give two.
CleanPairs(v) ==
    UNION {{Merged(f, t) : t \in {u \in Canonised(Targets(v)) : u.id = f.id /\ u.name = f.name}} :
              f \in Canonised(Features(v))}

MergedClean(v) == {CHOOSE r \in CleanPairs(v) : r.id = s.id /\ r.name = s.name : s \in CleanPairs(v)}

\* The rows each harness works on.
HarnessRows(v) == IF harness = "y6" THEN MergedClean(v) ELSE MergedOnId(v)

-------------------------------------------------------------------------------
(* The folds. *)

\* build_rolling_folds: windows from TestFrom on, the last one cut at the end of the data;
\* build_folds: from a train window after the first row on, while they fit.
TestStarts(first, last) ==
    IF harness = "y6"
    THEN {s \in TestFrom .. last - 1 : (s - TestFrom) % StepDays = 0}
    ELSE {s \in first + TrainSpan .. last - TestDays : (s - first - TrainSpan) % StepDays = 0}

\* A rolling window of training for y6, all that came before for v7.
Training(rows, s) == {r \in rows : r.at < s - PurgeSpan /\ (harness = "y6" => r.at >= s - TrainSpan)}

Testing(rows, s, end) == {r \in rows : r.at >= s /\ r.at < end}

OneByOne(folds) ==
    CHOOSE f \in [1 .. Cardinality(folds) -> folds] : \A i, j \in DOMAIN f : i < j => f[i].from < f[j].from

\* Windows with enough rows, in their order.
BuildFolds(rows) ==
    LET first   == Min({r.at : r \in rows})
        last    == Max({r.at : r \in rows})
        end(s)  == IF harness = "y6" THEN Min({s + TestDays, last}) ELSE s + TestDays
        folds   == {[from |-> s, training |-> Training(rows, s), testing |-> Testing(rows, s, end(s))] :
                       s \in TestStarts(first, last)}
    IN OneByOne({f \in folds : Cardinality(f.training) >= MinTrain /\ Cardinality(f.testing) >= MinTest})

\* train_single_model leaves out rows without a target, and needs some that are left.
CanTrain(fold) == Cardinality({r \in fold.training : r.known}) >= MinClean

\* The trades of a fold: test rows with prices.
FoldOutcomes(fold) ==
    IF CanTrain(fold) THEN {r \in fold.testing : Canonical[r.name] \notin Unpriced} ELSE {}

-------------------------------------------------------------------------------

NoRun  == [is |-> "idle", resume |-> FALSE, corpus |-> {}, folds |-> <<>>, chosen |-> {}, next |-> 0, rows |-> {}]

WalkTypeOK ==
    /\ harness \in {"y6", "v7"} /\ version \in DOMAIN Corpora /\ runs \in 0 .. MaxRuns
    /\ \A n \in DOMAIN files : /\ n \in Nat \ {0} /\ files[n].is \in {"torn", "rows"}
                              /\ (files[n].is = "rows") = (files[n].rows # {})
    /\ run.is \in {"idle", "runs"} /\ run.chosen \subseteq DOMAIN run.folds
    /\ run.next \in 0 .. Len(run.folds) + 1
    /\ collected.is \in {"none", "done", "failed"}

WalkInit ==
    /\ harness \in {"y6", "v7"} /\ version = 1 /\ files = <<>> /\ runs = 0 /\ run = NoRun
    /\ collected = [is |-> "none", rows |-> {}, folds |-> <<>>, chosen |-> {}, resumed |-> FALSE,
                    torn |-> {}, moved |-> {}]

\* A backfill or a new extract; a run has read the corpus when it starts.
CorpusGrows ==
    /\ run = NoRun /\ version < Len(Corpora) /\ version' = version + 1
    /\ UNCHANGED <<harness, files, runs, run, collected>>

\* --only-folds, --skip-folds and --resume; v7 has no --resume.
Start ==
    /\ run = NoRun /\ runs < MaxRuns /\ runs' = runs + 1
    /\ \E corpus \in {HarnessRows(version)} : \E folds \in {BuildFolds(corpus)} :
         /\ folds # <<>>
         /\ \E resume \in BOOLEAN, chosen \in {DOMAIN folds, {1}, DOMAIN folds \ {1}} :
              /\ resume => harness = "y6"
              /\ run' = [is |-> "runs", resume |-> resume, corpus |-> corpus, folds |-> folds,
                         chosen |-> chosen, next |-> 1, rows |-> {}]
    /\ UNCHANGED <<harness, version, files, collected>>

\* The directory with the file of a fold in the place of the one before.
WithFile(n, file) == [m \in DOMAIN files \cup {n} |-> IF m = n THEN file ELSE files[m]]

Skipped(n) == n \notin run.chosen \/ (run.resume /\ n \in DOMAIN files)

\* One fold: skipped, or trained, tried and written; no rows leave the file as it was.
RunFold ==
    LET n == run.next  rows == FoldOutcomes(run.folds[n]) IN
    /\ run # NoRun /\ n <= Len(run.folds)
    /\ IF Skipped(n) \/ rows = {} THEN run' = [run EXCEPT !.next = n + 1] /\ UNCHANGED files
       ELSE /\ run' = [run EXCEPT !.next = n + 1, !.rows = @ \cup {<<n, r>> : r \in rows}]
            /\ files' = WithFile(n, [is |-> "rows", rows |-> rows, from |-> run.folds[n].from])
    /\ UNCHANGED <<harness, version, runs, collected>>

\* The process dies, maybe while it writes.
Die ==
    /\ run # NoRun /\ run' = NoRun
    /\ \/ UNCHANGED files
       \/ LET n == run.next IN
          /\ n <= Len(run.folds) /\ ~Skipped(n) /\ FoldOutcomes(run.folds[n]) # {}
          /\ files' = WithFile(n, [is |-> "torn", rows |-> {}, from |-> run.folds[n].from])
    /\ UNCHANGED <<harness, version, runs, collected>>

TornFile == {n \in DOMAIN files : files[n].is = "torn"}

\* History: files that were written while the number of their fold stood for another
\* window than it does now, if it does for one.
Moved == {n \in DOMAIN files : /\ files[n].is = "rows"
                              /\ n \in DOMAIN run.folds => files[n].from # run.folds[n].from}

\* What a run ends with, and with what in the directory.
Outcome(is, rows) ==
    [is |-> is, rows |-> rows, folds |-> run.folds, chosen |-> run.chosen, resumed |-> run.resume,
     torn |-> TornFile, moved |-> Moved]

\* y6: all files of the directory, which must be readable.
Collected == UNION {{<<n, r>> : r \in files[n].rows} : n \in DOMAIN files}

Collect ==
    /\ harness = "y6" /\ run # NoRun /\ run.next > Len(run.folds) /\ run' = NoRun
    /\ collected' = IF TornFile # {} \/ Collected = {} THEN Outcome("failed", collected.rows)
                 ELSE Outcome("done", Collected)
    /\ UNCHANGED <<harness, version, files, runs>>

\* v7: the folds of this run; without a trade trades.csv stays as it was.
Summarise ==
    /\ harness = "v7" /\ run # NoRun /\ run.next > Len(run.folds) /\ run' = NoRun
    /\ collected' = Outcome("done", IF run.rows = {} THEN collected.rows ELSE run.rows)
    /\ UNCHANGED <<harness, version, files, runs>>

WalkNext == CorpusGrows \/ Start \/ RunFold \/ Die \/ Collect \/ Summarise

WalkSpec == WalkInit /\ [][WalkNext]_walkVars

-------------------------------------------------------------------------------
(* Properties. *)

\* What y6 trains on has one row for a news and a ticker, with the targets of that ticker;
\* v7 has rows with those of another for a news about several tickers only.
LabelsAreOwn ==
    IF harness = "y6"
    THEN \A r, s \in run.corpus : r.label = r.name /\ (r.id = s.id /\ r.name = s.name => r = s)
    ELSE \A r \in run.corpus : r.label # r.name =>
             Cardinality({f.name : f \in {g \in Features(version) : g.id = r.id}} \cup
                         {u.name : u \in {u \in Targets(version) : u.id = r.id}}) > 1

\* No row is trained on and tried in one fold, and every row is tried in one fold at most.
FoldsAreApart ==
    \A n \in DOMAIN run.folds : LET fold == run.folds[n] IN
        /\ \A r \in fold.training, q \in fold.testing : r.at < q.at /\ r.id # q.id
        /\ \A m \in DOMAIN run.folds \ {n} : fold.testing \cap run.folds[m].testing = {}

\* A news and a ticker are counted twice in the outcomes only if the corpus grew a window
\* before others between the runs.
CountedOnce ==
    (harness = "y6" /\ collected.is = "done" /\ collected.moved = {}) =>
        \A p, q \in collected.rows : (p[2].id = q[2].id /\ p[2].name = q[2].name) => p = q

\* A run of all folds without --resume.
FullRun(is) == collected.is = is /\ ~collected.resumed /\ collected.chosen = DOMAIN collected.folds

\* Its outcomes are those of the corpus, but for what folds without a model or without a
\* trade left there from before.
RunIsWhole ==
    FullRun("done") =>
        LET fresh == UNION {{<<n, r>> : r \in FoldOutcomes(collected.folds[n])} : n \in DOMAIN collected.folds} IN
        /\ fresh \subseteq collected.rows
        /\ \A p \in collected.rows \ fresh :
               p[1] \in DOMAIN collected.folds => FoldOutcomes(collected.folds[p[1]]) = {}

\* If it cannot collect it found no trade, or the torn file of a fold that has no trades
\* any more.
FailureIsExplained ==
    FullRun("failed") =>
        \A n \in DOMAIN collected.folds :
            FoldOutcomes(collected.folds[n]) # {} => collected.torn # {} /\ n \notin collected.torn

\* A walk-forward test tries each row once, on models that have not seen it.
WalksAreHonest ==
    /\ LabelsAreOwn
    /\ FoldsAreApart
    /\ CountedOnce
    /\ RunIsWhole
    /\ FailureIsExplained
===============================================================================
