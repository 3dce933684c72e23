------------------------------ MODULE HoldoutSplit ------------------------------
(***************************************************************************)
(* The samples of the research: build_sample.py draws the calibration      *)
(* sample (C1) and the validation holdout (V1) from the archive of         *)
(* Telegram news, select_v1_anchor_pad.py picks the news behind known      *)
(* trades in the holdout's window.  The archive is appended to between the *)
(* runs, old messages (a filled gap) included, and a run may die between   *)
(* its two files.  The draws are arbitrary: their seed has hash(channel)   *)
(* in it, which Python salts anew in every process.                        *)
(***************************************************************************)
EXTENDS Integers, Sequences, FiniteSets, FiniteSetsExt, SequencesExt

CONSTANTS
    Messages,           \* what may get into the archive
    TradeTimes,             \* times of entry of Phase 2's trades
    Shares,             \* the channels the draw has a share for
    C1Start, V1Start, V1End, MonthLen, MskAhead,
    C1Months, V1Months, \* numbers of the months, by Moscow's clock
    AnchorWindow, Quota, PadSize,
    MaxArchive          \* bound

ASSUME HoldoutSplitAssumption ==
    /\ Messages \subseteq [id: Nat, text: Nat, at: Nat, session: BOOLEAN, channel: STRING]
    /\ \A m, n \in Messages : m.id = n.id => m = n
    /\ {C1Start, V1Start, V1End, MskAhead, AnchorWindow, Quota, PadSize, MaxArchive} \subseteq Nat
    /\ TradeTimes \subseteq Nat /\ MonthLen \in Nat \ {0} /\ C1Start < V1Start /\ V1Start < V1End

VARIABLES
    archive,            \* telegram_news.jsonl
    building,           \* lines of it the running build has read, 0 when none runs
    calibration,        \* calibration_sample.parquet: its rows, which of them are anchors,
                        \* and, for the properties, the lines it is drawn from
    holdout,            \* validation_sample.parquet
    anchorPad           \* anchor_pad_v1.parquet

holdoutSplitVars == <<archive, building, calibration, holdout, anchorPad>>

-------------------------------------------------------------------------------
\* unique(subset="full_text", keep="first", maintain_order): the first message of each text.
Deduplicated(n) == {archive[i] : i \in {k \in 1..n : \A j \in 1..k - 1 : archive[j].text # archive[k].text}}

Pool(n, from, to) == {m \in Deduplicated(n) : from <= m.at /\ m.at < to}

\* The month of a stratum is by Moscow's clock, the windows are by UTC.
Month(m) == (m.at + MskAhead) \div MonthLen

Stratum(rows, month, channel, session) ==
    {m \in rows : Month(m) = month /\ m.channel = channel /\ m.session = session}

\* stratified_sample: of each stratum the quota, or all there is.
Draws(pool, months) ==
    {rows \in SUBSET {m \in pool : Month(m) \in months /\ m.channel \in Shares} :
        \A month \in months, channel \in Shares, session \in BOOLEAN :
            Cardinality(Stratum(rows, month, channel, session))
              = Min({Quota, Cardinality(Stratum(pool, month, channel, session))})}

\* The news next before a trade; the two scripts sort by time, polars in no particular
\* order among equals.
ShortlyBefore(t, pool) == {m \in pool : t - AnchorWindow <= m.at /\ m.at <= t}
Nearest(t, pool) == {m \in ShortlyBefore(t, pool) : \A n \in ShortlyBefore(t, pool) : n.at <= m.at}

TradesIn(from, to) == {t \in TradeTimes : from <= t /\ t < to}

Anchors(pool) ==
    LET hit == {t \in TradesIn(C1Start, V1Start) : Nearest(t, pool) # {}}
    IN {{pick[t] : t \in hit} : pick \in {p \in [hit -> pool] : \A t \in hit : p[t] \in Nearest(t, pool)}}

-------------------------------------------------------------------------------
NoFile == [rows |-> {}, anchors |-> {}, lines |-> 0]

HoldoutSplitInit ==
    /\ archive = <<>> /\ building = 0
    /\ calibration = NoFile /\ holdout = NoFile /\ anchorPad = NoFile

\* The scraper adds a message it does not have.
MessageArchived(m) ==
    /\ Len(archive) < MaxArchive
    /\ \A i \in DOMAIN archive : archive[i].id # m.id
    /\ archive' = Append(archive, m)
    /\ UNCHANGED <<building, calibration, holdout, anchorPad>>

\* main up to the first file: anchors the draw has not got are added over the quota.
BuildCalibration ==
    /\ building = 0 /\ archive # <<>>
    /\ building' = Len(archive)
    /\ LET pool == Pool(Len(archive), C1Start, V1Start) IN
         \E rows \in Draws(pool, C1Months), anchors \in Anchors(pool) :
            calibration' = [rows |-> rows \cup anchors, anchors |-> anchors, lines |-> Len(archive)]
    /\ UNCHANGED <<archive, holdout, anchorPad>>

\* The second file: the draw, and a pad of any other messages of the window.
BuildHoldout ==
    /\ building > 0
    /\ LET pool == Pool(building, V1Start, V1End) IN
         \E rows \in Draws(pool, V1Months) :
           \E pad \in kSubset(Min({PadSize, Cardinality(pool \ rows)}), pool \ rows) :
              holdout' = [rows |-> rows \cup pad, anchors |-> {}, lines |-> building]
    /\ building' = 0
    /\ UNCHANGED <<archive, calibration, anchorPad>>

BuildDies ==
    /\ building > 0 /\ building' = 0
    /\ UNCHANGED <<archive, calibration, holdout, anchorPad>>

\* select_v1_anchor_pad: the lines themselves, repeated texts included; the sort is stable,
\* so of two messages of one second the later line.  No match, no file.
LastLine(ms) == CHOOSE m \in ms : \A i, j \in DOMAIN archive :
                                     archive[i] = m /\ archive[j] \in ms => j <= i

SelectAnchorPad ==
    LET window == {m \in ToSet(archive) : V1Start <= m.at /\ m.at < V1End}
        hit    == {t \in TradesIn(V1Start, V1End) : Nearest(t, window) # {}}
        rows   == {LastLine(Nearest(t, window)) : t \in hit}
    IN /\ rows # {}
       /\ anchorPad' = [rows |-> rows, anchors |-> rows, lines |-> Len(archive)]
       /\ UNCHANGED <<archive, building, calibration, holdout>>

HoldoutSplitNext ==
    \/ \E m \in Messages : MessageArchived(m)
    \/ BuildCalibration
    \/ BuildHoldout
    \/ BuildDies
    \/ SelectAnchorPad

HoldoutSplitSpec == HoldoutSplitInit /\ [][HoldoutSplitNext]_holdoutSplitVars

-------------------------------------------------------------------------------
SampleFile == [rows: SUBSET Messages, anchors: SUBSET Messages, lines: 0..MaxArchive]

HoldoutSplitTypeOK ==
    /\ ToSet(archive) \subseteq Messages /\ Len(archive) <= MaxArchive
    /\ building \in 0..Len(archive)
    /\ {calibration, holdout, anchorPad} \subseteq SampleFile

\* Whatever is appended between two builds, and whichever of the two files a build that died
\* has left behind, no message and no text is in both samples.
SamplesAreApart ==
    \A c \in calibration.rows, v \in holdout.rows : c.id # v.id /\ c.text # v.text

\* A text of the pad that was calibrated on is a repeat: the archive has it from an earlier
\* line, which build_sample would have kept instead.
PadRepeatsAreReposts ==
    \A c \in calibration.rows, p \in anchorPad.rows :
        /\ c.id # p.id
        /\ c.text = p.text =>
             \E i, j \in DOMAIN archive : i < j /\ archive[i] = c /\ archive[j] = p

\* Every trade of the calibration window with a message in its window has its news in the
\* sample, and what no stratum could draw is there for a trade only: the hours between
\* midnight in Moscow and midnight UTC at the end of the window belong to no month drawn.
AnchorsAreKept ==
    /\ \A t \in TradesIn(C1Start, V1Start) :
         LET pool == Pool(calibration.lines, C1Start, V1Start)
         IN ShortlyBefore(t, pool) # {} => Nearest(t, pool) \cap calibration.anchors # {}
    /\ \A c \in calibration.rows :
         Month(c) \notin C1Months \/ c.channel \notin Shares => c \in calibration.anchors

\* Anchors come over the quota, never in place of drawn messages.
QuotasAreMet ==
    \A month \in C1Months, channel \in Shares, session \in BOOLEAN :
        LET pool  == Pool(calibration.lines, C1Start, V1Start)
            avail == Cardinality(Stratum(pool, month, channel, session))
        IN Cardinality(Stratum(calibration.rows, month, channel, session)) >= Min({Quota, avail})

\* The holdout stays apart from what is calibrated on (plan.md: "C1 <-> V1: disjoint").
HoldoutIsApart == SamplesAreApart /\ PadRepeatsAreReposts /\ AnchorsAreKept /\ QuotasAreMet
===============================================================================
