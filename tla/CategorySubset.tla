----------------------------- MODULE CategorySubset -----------------------------
(***************************************************************************)
(* The subset of the calibration sample that is enriched by the large      *)
(* model (sprint4/reenrich): aggregate_checkpoint.py joins what the small  *)
(* model has answered so far to the sample, sample_for_4_6.py draws a      *)
(* subset balanced by category, and later, when more is answered and rows  *)
(* have moved to other categories, tops the subset up.  The sample itself  *)
(* may be built anew meanwhile, with other rows.                           *)
(***************************************************************************)
EXTENDS Integers, Sequences, FiniteSets, FiniteSetsExt, SequencesExt

CONSTANTS
    Samples,            \* the sets of rows the sample may consist of
    LegacyCategory,     \* of each row: legacy_categories.parquet, "none" without one
    CategoryTarget,     \* of each category: how many rows the subset is to have
    MaxAnswers, MaxAggregates   \* bounds

SampleRows == UNION Samples
Categories == DOMAIN CategoryTarget

ASSUME CategorySubsetAssumption ==
    /\ LegacyCategory \in [SampleRows -> Categories \cup {"none"}]
    /\ CategoryTarget \in [Categories -> Nat]
    /\ {MaxAnswers, MaxAggregates} \subseteq Nat
    /\ {"unknown", "none", "null"} \cap Categories = {}

VARIABLES
    sample,             \* calibration_sample.parquet
    answers,            \* checkpoint.jsonl of the small model
    aggregate,          \* the aggregate of it: for each row of the sample it was joined to
    aggregates,         \* how often it was made
    subset, topup,      \* the drawn rows, with the category each was drawn for
    toppedUp            \* history: what the last top-up has read

categorySubsetVars == <<sample, answers, aggregate, aggregates, subset, topup, toppedUp>>

-------------------------------------------------------------------------------
NoAggregate == [r \in {} |-> "pending"]

\* load_checkpoint_dedup: of the records of a row the newest, of equally old ones the first.
Newest(r) ==
    LET own == {i \in DOMAIN answers : answers[i].row = r}
    IN CHOOSE i \in own : \A j \in own : answers[j].at < answers[i].at
                                         \/ (answers[j].at = answers[i].at /\ i <= j)

\* The left join: "pending" without a record, "null" when the record has no category.
JoinedToSample ==
    [r \in sample |-> IF \E i \in DOMAIN answers : answers[i].row = r
                      THEN answers[Newest(r)].category ELSE "pending"]

\* load_inputs: the answer's category, else the old one, else "unknown".
Class(r) ==
    CASE r \in DOMAIN aggregate /\ aggregate[r] \in Categories -> [category |-> aggregate[r], source |-> "4.5"]
      [] OTHER -> IF LegacyCategory[r] # "none"
                  THEN [category |-> LegacyCategory[r], source |-> "legacy"]
                  ELSE [category |-> "unknown", source |-> "unknown"]

InCategory(rows, c) == {r \in rows : Class(r).category = c}
FromSource(rows, s) == {r \in rows : Class(r).source = s}

\* stratified_sample, for one category.
SomeOf(n, pool) == kSubset(Min({n, Cardinality(pool)}), pool)

\* Mutant: by the categories the rows were drawn for.
HaveAsDrawn(c) == {s.row : s \in {x \in subset : x.category = c}}

\* topup_targets: what the subset lacks by the categories its rows have now.
HaveNow(c) == {r \in sample : r \in {s.row : s \in subset} /\ Class(r).category = c}

Lack(c) == Max({0, CategoryTarget[c] - Cardinality(HaveNow(c))})

-------------------------------------------------------------------------------
CategorySubsetInit ==
    /\ sample \in Samples /\ answers = <<>>
    /\ aggregate = NoAggregate /\ aggregates = 0
    /\ subset = {} /\ topup = {} /\ toppedUp = <<>>

BuildAnew ==
    /\ sample' \in Samples \ {sample}
    /\ aggregates < MaxAggregates
    /\ UNCHANGED <<answers, aggregate, aggregates, subset, topup, toppedUp>>

\* deepinfra_runner has an answer: a category, or "null" for an error or anything else.
AnswerRecorded ==
    /\ Len(answers) < MaxAnswers
    /\ \E r \in sample, c \in Categories \cup {"null"}, tick \in IF answers = <<>> THEN {0} ELSE {0, 1} :
         answers' = Append(answers, [row |-> r, category |-> c,
                       at |-> tick + (IF answers = <<>> THEN 0 ELSE answers[Len(answers)].at)])
    /\ UNCHANGED <<sample, aggregate, aggregates, subset, topup, toppedUp>>

\* aggregate_checkpoint; with no record it writes nothing.
Aggregate ==
    /\ answers # <<>> /\ aggregates < MaxAggregates
    /\ aggregate' = JoinedToSample /\ aggregates' = aggregates + 1
    /\ UNCHANGED <<sample, answers, subset, topup, toppedUp>>

DrawnFor(rows) == {[row |-> r, category |-> Class(r).category] : r \in rows}

DrawSubset ==
    /\ \E rows \in {UNION {pick[c] : c \in Categories} :
                      pick \in {p \in [Categories -> SUBSET sample] :
                                  \A c \in Categories :
                                     p[c] \in SomeOf(CategoryTarget[c], InCategory(sample, c))}} :
         subset' = DrawnFor(rows)
    /\ UNCHANGED <<sample, answers, aggregate, aggregates, topup, toppedUp>>

\* sample_for_4_6 --topup: rows not drawn before, those with an answer first, the others if
\* these do not do.  Without a gap the file of the last top-up stays.
TopUp ==
    /\ subset # {} /\ \E c \in Categories : Lack(c) > 0
    /\ LET pool == sample \ {s.row : s \in subset}
           answered(c) == InCategory(FromSource(pool, "4.5"), c)
           legacy(c)   == InCategory(FromSource(pool, "legacy"), c)
       IN \E new \in {p \in [Categories -> SUBSET pool] :
                        \A c \in Categories :
                           /\ p[c] \cap answered(c) \in SomeOf(Lack(c), answered(c))
                           /\ p[c] \ answered(c)
                                \in SomeOf(Lack(c) - Cardinality(p[c] \cap answered(c)), legacy(c))} :
             topup' = DrawnFor(UNION {new[c] : c \in Categories})
    /\ toppedUp' = <<[sample |-> sample, subset |-> subset, class |-> [r \in sample |-> Class(r).category]]>>
    /\ UNCHANGED <<sample, answers, aggregate, aggregates, subset>>

CategorySubsetNext == BuildAnew \/ AnswerRecorded \/ Aggregate \/ DrawSubset \/ TopUp

CategorySubsetSpec == CategorySubsetInit /\ [][CategorySubsetNext]_categorySubsetVars

-------------------------------------------------------------------------------
Drawn == [row: SampleRows, category: Categories]

CategorySubsetTypeOK ==
    /\ sample \in Samples
    /\ ToSet(answers) \subseteq [row: SampleRows, category: Categories \cup {"null"}, at: 0..MaxAnswers]
    /\ DOMAIN aggregate \subseteq SampleRows
    /\ \A r \in DOMAIN aggregate : aggregate[r] \in Categories \cup {"pending", "null"}
    /\ aggregates \in 0..MaxAggregates /\ Len(toppedUp) <= 1
    /\ subset \subseteq Drawn /\ topup \subseteq Drawn

\* After a top-up, subset and top-up together have, by the categories of that moment, the
\* target of each category or all rows there are, and the top-up adds no more than that;
\* whatever answers came, moved or took away categories since the subset was drawn.
TopUpFillsTheGaps ==
    \A t \in ToSet(toppedUp), c \in Categories :
        LET old  == {s.row : s \in t.subset}
            new  == {s.row : s \in topup}
            all  == {r \in t.sample : t.class[r] = c}
            have == Cardinality(all \cap (old \cup new))
        IN /\ have >= Min({CategoryTarget[c], Cardinality(all)})
           /\ have > CategoryTarget[c] => new \cap all = {}

\* A row is paid for once: it is in both files only if the subset was drawn anew since.
NoRowTwice ==
    \A t \in ToSet(toppedUp) :
        /\ {s.row : s \in topup} \cap {s.row : s \in t.subset} = {}
        /\ {s.row : s \in topup} \cap {s.row : s \in subset} # {} => subset # t.subset

SubsetIsBalanced == TopUpFillsTheGaps /\ NoRowTwice
===============================================================================
