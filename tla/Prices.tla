-------------------------------- MODULE Prices ---------------------------------
(***************************************************************************)
(* The minute bars on disk: scripts/backfill_prices.py appends what the    *)
(* exchange has to the CSV of a ticker, sprint4/exits/prices_cache.py      *)
(* keeps a parquet copy of it and a frame in memory.  One ticker, one run  *)
(* of the backfill at a time; it may die while it writes.  A bar is its    *)
(* minute and whether that minute was over when the bar was fetched.       *)
(***************************************************************************)
EXTENDS Integers, Sequences, FiniteSets, SequencesExt, FiniteSetsExt, Functions

CONSTANTS
    TradedMinutes,      \* the minutes the exchange has a bar of
    MaxPrice,           \* bound: the last minute
    PageSize,           \* ISS_PAGE_SIZE
    MaxFaults           \* bound: failed requests, odd rows and crashes

ASSUME PricesAssumption ==
    /\ MaxPrice \in Nat \ {0} /\ PageSize \in Nat \ {0} /\ MaxFaults \in Nat
    /\ TradedMinutes \subseteq 1 .. MaxPrice

VARIABLES
    nowMinute,          \* the clock
    csv, lineEnded,     \* rows of the file; whether its last line ends in a line feed
    filling,            \* the run of the backfill
    touched,            \* modification times of the files, as the order they were made in
    parquet,            \* the copy: whether there is one, and its rows
    reader,             \* the process with the PricesCache
    mishaps,
    skipped,            \* history: minutes whose row the exchange sent malformed
    appends,            \* history: number of fetches that were written
    raced               \* history: the CSV grew while the copy was being made

pricesVars == <<nowMinute, csv, lineEnded, filling, touched, parquet, reader, mishaps, skipped, appends, raced>>

NoFill == [at |-> "idle", from |-> 0, till |-> 0, start |-> 0, rows |-> <<>>]

Unfilled == [at |-> "idle", read |-> <<>>, has |-> "none", frame |-> <<>>]

\* A row of the CSV: its bar, the time read_last_ts reads on it (0: none), and whether
\* the line is whole, cut before the last column or cut inside it.
WholeRow(m, closed) == [m |-> m, closed |-> closed, ts |-> m, cut |-> "no"]
Rows == [m : 1 .. MaxPrice, closed : BOOLEAN, ts : 0 .. MaxPrice, cut : {"no", "before", "inside"}]

PricesTypeOK ==
    /\ nowMinute \in 1 .. MaxPrice /\ csv \in Seq(Rows) /\ lineEnded \in BOOLEAN
    /\ filling.at \in {"idle", "fetch", "append"} /\ filling.rows \in Seq(Rows)
    /\ \A i \in DOMAIN filling.rows : filling.rows[i].m \in filling.from .. filling.till
    /\ parquet.is \in {"none", "broken", "whole"} /\ Range(parquet.rows) \subseteq Rows
    /\ reader.at \in {"idle", "save"} /\ reader.has \in {"none", "failed", "frame"}
    /\ Range(reader.read) \cup Range(reader.frame) \subseteq Rows
    /\ mishaps \in 0 .. MaxFaults /\ skipped \subseteq TradedMinutes
    /\ touched \in [{"csv", "parquet"} -> Nat] /\ appends \in 0 .. touched["csv"] /\ raced \in BOOLEAN

PricesInit ==
    /\ nowMinute = 1 /\ csv = <<>> /\ lineEnded = TRUE /\ filling = NoFill
    /\ touched = [csv |-> 0, parquet |-> 0] /\ parquet = [is |-> "none", rows |-> <<>>]
    /\ reader = Unfilled
    /\ mishaps = 0 /\ skipped = {} /\ appends = 0 /\ raced = FALSE

Later(file) == [touched EXCEPT ![file] = 1 + Max({touched["csv"], touched["parquet"]})]

Minute ==
    /\ nowMinute < MaxPrice /\ nowMinute' = nowMinute + 1
    /\ UNCHANGED <<csv, lineEnded, filling, touched, parquet, reader, mishaps, skipped, appends, raced>>

-------------------------------------------------------------------------------
(* backfill_prices. *)

\* Mutant: the date and time columns of the last line, which is there when it was cut.
LastLineStarted == IF csv = <<>> THEN 0 ELSE Last(csv).m

\* read_last_ts: the last line on which a time can be read.
LastTs == LET read == {i \in DOMAIN csv : csv[i].ts > 0} IN
          IF read = {} THEN 0 ELSE csv[Max(read)].ts

\* backfill_ticker up to the first request; nothing to do when the file is up to date.
StartFill ==
    /\ filling.at = "idle" /\ LastTs < nowMinute
    /\ filling' = [NoFill EXCEPT !.at = "fetch", !.from = LastTs + 1, !.till = nowMinute]
    /\ UNCHANGED <<nowMinute, csv, lineEnded, touched, parquet, reader, mishaps, skipped, appends, raced>>

\* Minutes in their order.
InTime(minutes) ==
    CHOOSE s \in Bijection(1 .. Cardinality(minutes), minutes) : \A i, j \in DOMAIN s : i < j => s[i] < s[j]

\* The bars of minutes as they are now, the one of this minute as far as it got.
BarsOf(minutes) == LET s == InTime(minutes) IN [i \in DOMAIN s |-> WholeRow(s[i], s[i] < nowMinute)]

\* What the exchange has of the window.
Offered == BarsOf(TradedMinutes \cap (filling.from .. filling.till))

\* A page of candles.  A malformed row is skipped; a page that is not full is the last.
IssPage ==
    LET page == SubSeq(Offered, filling.start + 1, Min({filling.start + PageSize, Len(Offered)})) IN
    /\ filling.at = "fetch"
    /\ \E odd \in {{}} \cup {{r.m} : r \in Range(page)} :
         LET good == BarsOf({r.m : r \in Range(page)} \ odd) IN
         /\ odd # {} => mishaps < MaxFaults
         /\ mishaps' = mishaps + Cardinality(odd) /\ skipped' = skipped \cup odd
         /\ filling' = IF Len(page) = PageSize
                    THEN [filling EXCEPT !.rows = @ \o good, !.start = @ + Len(page)]
                    ELSE IF filling.rows \o good = <<>> THEN NoFill
                    ELSE [filling EXCEPT !.rows = @ \o good, !.at = "append"]
    /\ UNCHANGED <<nowMinute, csv, lineEnded, touched, parquet, reader, appends, raced>>

\* The request failed, with all its retries, or this was a dry run: nothing was written.
NothingWritten ==
    /\ filling.at \in {"fetch", "append"} /\ mishaps < MaxFaults
    /\ filling' = NoFill /\ mishaps' = mishaps + 1
    /\ UNCHANGED <<nowMinute, csv, lineEnded, touched, parquet, reader, skipped, appends, raced>>

\* A line feed first, where the last line has none.
Appended(rows) == csv \o rows

LinesAdded(rows) ==
    /\ csv' = Appended(rows) /\ touched' = Later("csv") /\ appends' = appends + 1 /\ filling' = NoFill
    /\ raced' = (raced \/ reader.at = "save")
    /\ UNCHANGED <<nowMinute, parquet, reader, skipped>>

Append_ ==
    /\ filling.at = "append" /\ LinesAdded(filling.rows) /\ lineEnded' = TRUE /\ UNCHANGED mishaps

\* The process dies in the write: the last row that got to the disk is whole but for its
\* line feed, has lost columns, or ends in a time that has lost digits.
DieInWrite ==
    /\ filling.at = "append" /\ mishaps < MaxFaults /\ mishaps' = mishaps + 1
    /\ \E n \in 1 .. Len(filling.rows) :
         LET row == filling.rows[n] IN
         \E torn \in {row, [row EXCEPT !.ts = 0, !.cut = "before"]} \cup
                     {[row EXCEPT !.ts = t, !.cut = "inside"] : t \in 0 .. row.m} :
            LinesAdded(SubSeq(filling.rows, 1, n - 1) \o <<torn>>)
    /\ lineEnded' = FALSE

-------------------------------------------------------------------------------
(* PricesCache. *)

\* _load_from_csv: rows without a time dropped, sorted, the first of each minute kept.
Cleaned(rows) ==
    LET timed == {i \in DOMAIN rows : rows[i].cut = "no"}
        s == InTime({rows[i].m : i \in timed})
    IN [k \in DOMAIN s |-> rows[Min({i \in timed : rows[i].m = s[k]})]]

\* A time that has lost digits leaves a column of text, which load() cannot use.
Unreadable(rows) == \E i \in DOMAIN rows : rows[i].cut = "inside"

NeedRebuild == parquet.is = "none" \/ touched["parquet"] < touched["csv"]

InMemory(rows) == IF Unreadable(rows) THEN [Unfilled EXCEPT !.has = "failed"]
                  ELSE [Unfilled EXCEPT !.has = "frame", !.frame = rows]

\* load() of a ticker that is not in memory: _ensure_parquet reads the CSV, or the copy
\* is there.
Load ==
    /\ reader.at = "idle" /\ reader.has = "none"
    /\ reader' = IF NeedRebuild THEN [reader EXCEPT !.at = "save", !.read = csv]
                 ELSE IF parquet.is = "broken" THEN [reader EXCEPT !.has = "failed"]
                 ELSE InMemory(parquet.rows)
    /\ UNCHANGED <<nowMinute, csv, lineEnded, filling, touched, parquet, mishaps, skipped, appends, raced>>

\* to_parquet, and the rest of load() after it.
Save ==
    LET rows == IF Unreadable(reader.read) THEN reader.read ELSE Cleaned(reader.read) IN
    /\ reader.at = "save" /\ parquet' = [is |-> "whole", rows |-> rows]
    /\ touched' = Later("parquet") /\ reader' = InMemory(rows)
    /\ UNCHANGED <<nowMinute, csv, lineEnded, filling, mishaps, skipped, appends, raced>>

\* The process dies while it writes the copy.
DieInSave ==
    /\ reader.at = "save" /\ mishaps < MaxFaults /\ mishaps' = mishaps + 1
    /\ parquet' = [is |-> "broken", rows |-> <<>>] /\ touched' = Later("parquet") /\ reader' = Unfilled
    /\ UNCHANGED <<nowMinute, csv, lineEnded, filling, skipped, appends, raced>>

\* A new process starts with nothing in memory.
Restart ==
    /\ reader.at = "idle" /\ reader.has # "none" /\ reader' = Unfilled
    /\ UNCHANGED <<nowMinute, csv, lineEnded, filling, touched, parquet, mishaps, skipped, appends, raced>>

PricesNext ==
    \/ Minute \/ StartFill \/ IssPage \/ NothingWritten \/ Append_ \/ DieInWrite
    \/ Load \/ Save \/ DieInSave \/ Restart

PricesSpec == PricesInit /\ [][PricesNext]_pricesVars

-------------------------------------------------------------------------------
(* Properties. *)

\* However often the backfill fails or dies, what a backtest reads has no hole: every
\* minute before its last one is there, or the exchange sent it malformed.
FrameHasNoHole ==
    \A i \in DOMAIN reader.frame : \A m \in TradedMinutes \ skipped :
        m < reader.frame[i].m => \E j \in 1 .. i : reader.frame[j].m = m

\* A repeated run adds no minute that is there, also after a crash that cut a row short,
\* unless it left a time that has lost digits.
RunsAreIdempotent ==
    ~Unreadable(csv) =>
        \A i, j \in DOMAIN csv : (i < j /\ csv[i].cut = "no" /\ csv[j].cut = "no") => csv[i].m < csv[j].m

\* A bar that was not over when it was fetched stays as it is; there is at most one for
\* each fetch that was written.
OneUnfinishedPerFetch == Cardinality({i \in DOMAIN csv : ~csv[i].closed}) <= appends

\* A copy that looks newer than the CSV is that CSV, but for one case: the CSV grew while
\* the copy was being made.
CopyIsCurrent ==
    (parquet.is = "whole" /\ ~NeedRebuild /\ ~raced) =>
        parquet.rows = IF Unreadable(csv) THEN csv ELSE Cleaned(csv)

\* The prices on disk: complete, no bar twice, and the copy as good as the file.
PricesAreWhole ==
    FrameHasNoHole /\ RunsAreIdempotent /\ OneUnfinishedPerFetch /\ CopyIsCurrent
===============================================================================
