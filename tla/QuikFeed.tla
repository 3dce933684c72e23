------------------------------- MODULE QuikFeed --------------------------------
(***************************************************************************)
(* Minute bars on their way from the terminal to Redis: candle_dump.lua    *)
(* appends completed bars to a file, a reader (services/quik_feed/         *)
(* readers.py) tails it, and QuikFeeder (feeder.py) publishes what is new  *)
(* to the stream candles:1m.  Script, feeder and clock are independent;    *)
(* either process may restart at any point of the other's work.            *)
(*                                                                         *)
(* A position in the file counts half rows: an odd one is inside a row, as *)
(* a buffered write leaves it.  The header is the first row.               *)
(***************************************************************************)
EXTENDS Integers, Sequences, FiniteSets, SequencesExt

CONSTANTS
    Scripts,            \* scripts to look at: the names each writes, in order
    Legacy,             \* those among them with another canonical name
    Modes,              \* "all" and "tail": the CSV file; "xlsx": the sheet
    MaxMinute,          \* bound: minutes of the session
    Window,             \* reconcile_lookback_days, in minutes
    ScanMax,            \* reconcile_scan_max
    MaxTrouble          \* bound: starts of the script, restarts of the feeder and
                        \* failing commands, taken together

Tickers == UNION {ToSet(s) : s \in Scripts}

ASSUME FeedAssumption ==
    /\ \A s \in Scripts : s \in Seq(ToSet(s)) /\ s # <<>> /\ IsInjective(s)
    /\ Legacy \subseteq Tickers
    /\ Modes \subseteq {"all", "tail", "xlsx"}
    /\ {MaxMinute, Window, ScanMax, MaxTrouble} \subseteq Nat

VARIABLES
    now,                \* last completed minute
    script,             \* "off", "idle", or "dumping": a write not flushed yet
    lastDump,           \* script: last_ts_per_ticker, 0 for none
    starts,             \* script: starts so far
    rows, shown,        \* the file: its rows, and the part a reader sees
    mode, listed,       \* configuration: source and bootstrap_mode; SECURITIES
    offset,             \* reader: _offset
    polling, todo, upTo,    \* a poll is under way: its rows, where they end
    lastTs,             \* _last_ts under the name in the file, 0 for none
    seen, floor,        \* _seen, _reconcile_floor
    candles,            \* the stream candles:1m
    restarts, faults,
    rewritten,          \* history: the file was rewritten since the last poll
    passed,             \* history: bars whose row the reader did not read whole
    lost,               \* history: XADDs that were applied and not answered
    blind               \* history: restarts that did not see the whole stream

scriptVars == <<now, script, lastDump, starts, rows, shown>>
feederVars == <<offset, polling, todo, upTo, lastTs, seen, floor, candles, passed, lost>>
runVars    == <<mode, listed, restarts, faults, blind>>
feedVars   == <<scriptVars, feederVars, runVars, rewritten>>

\* The bars that are complete so far.
Completed == [t: Tickers, m: 1 .. now]

SizeOf(file) == 2 * (1 + Len(file))
KeyOf(bar) == <<bar.t, bar.m>>
Published(t, m) == \E i \in 1 .. Len(candles) : candles[i].t = t /\ candles[i].m = m

FeedTypeOK ==
    /\ now \in 0 .. MaxMinute
    /\ script \in {"off", "idle", "dumping"}
    /\ lastDump \in [Tickers -> 0 .. now] /\ lastTs \in [Tickers -> 0 .. now]
    /\ {starts, restarts, faults, lost, blind} \subseteq Nat
    /\ starts + restarts + faults <= IF starts = 0 THEN MaxTrouble ELSE MaxTrouble + 1
    /\ rows \in Seq(Completed) /\ todo \in Seq(Completed) /\ candles \in Seq(Completed)
    /\ shown \in 0 .. SizeOf(rows)
    /\ mode \in Modes /\ listed \in Scripts /\ offset \in Nat /\ upTo \in Nat /\ polling \in BOOLEAN
    /\ seen \subseteq Tickers \X (1 .. now) /\ floor \in Nat \ {0}
    /\ rewritten \in BOOLEAN
    /\ passed \subseteq Tickers \X (1 .. now)

Trouble == starts + restarts + faults < MaxTrouble

FeedInit ==
    /\ now = 0
    /\ script = "off" /\ lastDump = [t \in Tickers |-> 0] /\ starts = 0
    /\ rows = <<>> /\ shown = 0                     \* no file yet
    /\ mode \in Modes /\ listed \in Scripts
    /\ offset = 0 /\ polling = FALSE /\ todo = <<>> /\ upTo = 0
    /\ lastTs = [t \in Tickers |-> 0] /\ seen = {} /\ floor = 1
    /\ candles = <<>>
    /\ restarts = 0 /\ faults = 0
    /\ rewritten = FALSE /\ passed = {} /\ lost = 0 /\ blind = 0

-------------------------------------------------------------------------------
(* candle_dump.lua. *)

MinutePasses ==
    /\ now < MaxMinute /\ now' = now + 1
    /\ UNCHANGED <<script, lastDump, starts, rows, shown,
                   feederVars, runVars, rewritten>>

\* OnInit: the file is truncated to its header.
ScriptStarts ==
    /\ script = "off" /\ (starts = 0 \/ Trouble)
    /\ script' = "idle" /\ starts' = starts + 1
    /\ rows' = <<>> /\ shown' = SizeOf(<<>>)
    /\ rewritten' = TRUE
    /\ UNCHANGED <<now, lastDump, feederVars, runVars>>

\* OnStop or the end of the terminal: what was not flushed is gone.
ScriptStops ==
    /\ script # "off"
    /\ script' = "off"
    /\ lastDump' = [t \in Tickers |-> 0]
    /\ UNCHANGED <<now, starts, rows, shown, feederVars, runVars, rewritten>>

\* The bars of one ticker a cycle writes: newer than the last one written, among
\* those the lookback covers and the data source has loaded.
Fresh(t, from) ==
    LET first == IF from > lastDump[t] THEN from ELSE lastDump[t] + 1 IN
    [i \in 1 .. now - first + 1 |-> [t |-> t, m |-> first + i - 1]]

\* dump_completed_bars: the rows of all tickers go into the buffer of the file,
\* which writes any part of them before it is closed.
Dump ==
    /\ script = "idle" /\ now > 0
    /\ \E from \in [DOMAIN listed -> 1 .. now] :
         LET new == FlattenSeq([k \in DOMAIN listed |-> Fresh(listed[k], from[k])]) IN
         /\ new # <<>>
         /\ rows' = rows \o new
    /\ script' = "dumping"
    /\ shown' \in shown .. SizeOf(rows')
    /\ lastDump' = [t \in Tickers |-> IF t \in ToSet(listed) THEN now ELSE 0]
    /\ UNCHANGED <<now, starts, feederVars, runVars, rewritten>>

Flush ==
    /\ script = "dumping"
    /\ script' = "idle" /\ shown' = SizeOf(rows)
    /\ UNCHANGED <<now, lastDump, starts, rows,
                   feederVars, runVars, rewritten>>

-------------------------------------------------------------------------------
(* The reader and the feeder. *)

\* A file shorter than the position was truncated: read it from the start.  The
\* sheet is read from its start every time.
StartOf == IF mode = "xlsx" \/ shown < offset THEN 0 ELSE offset

\* Rows that lie whole between two positions; the end of a row that was begun
\* earlier has too few columns and is dropped.
Whole(a, b) == SubSeq(rows, Max({1, (a + 1) \div 2}), b \div 2 - 1)

\* Rows whose beginning was read as the end of the file, or that lie before the
\* start of the poll in a file that was rewritten unnoticed.
Overlooked(a, b) ==
    {<<rows[k].t, rows[k].m>> : k \in {k \in DOMAIN rows :
        2 * k + 1 = b \/ (rewritten /\ shown >= offset /\ 2 * k < a)}}

\* poll_once opens the file.  A row the writer has not finished is dropped for its
\* missing columns, or taken for a bar when only digits of the volume are missing.
PollStart ==
    /\ ~polling /\ shown > 0
    /\ rewritten' = FALSE
    /\ IF mode = "tail" /\ StartOf = 0
       THEN /\ offset' = shown                          \* first cycle: skip what is there
            /\ passed' = passed \cup {<<rows[k].t, rows[k].m>> : k \in {k \in DOMAIN rows : 2 * k < shown}}
            /\ UNCHANGED <<polling, todo, upTo>>
       ELSE /\ offset' = StartOf /\ polling' = TRUE /\ upTo' = shown
            /\ LET whole == Whole(StartOf, shown) IN
               \/ todo' = whole
               \/ /\ \E k \in DOMAIN rows : 2 * k + 1 = shown /\ StartOf <= 2 * k
                  /\ mode # "xlsx"
                  /\ todo' = Append(whole, rows[shown \div 2])
            /\ passed' = passed \cup Overlooked(StartOf, shown)
    /\ UNCHANGED <<scriptVars, runVars, lastTs, seen, floor, candles, lost>>

\* The filter of the reader (newer than the last one published under this name),
\* then those of _publish_bar.
Wanted(bar) == bar.m > lastTs[bar.t] /\ bar.m >= floor /\ KeyOf(bar) \notin seen

NextWanted == SelectInSeq(todo, Wanted)

PublishRow ==
    /\ NextWanted > 0
    /\ LET bar == todo[NextWanted] IN
       /\ candles' = Append(candles, bar)
       /\ lastTs' = [lastTs EXCEPT ![bar.t] = bar.m]
       /\ seen' = IF Cardinality(seen) < 4 * ScanMax THEN seen \cup {KeyOf(bar)} ELSE seen
    /\ todo' = SubSeq(todo, NextWanted + 1, Len(todo))
    /\ UNCHANGED <<scriptVars, runVars, rewritten, offset, polling, upTo, floor, passed, lost>>

\* XADD raises, applied or not: the exception leaves the generator, the position
\* stays where the poll began, and poll_once swallows it.
XaddFails ==
    /\ NextWanted > 0
    /\ Trouble /\ faults' = faults + 1
    /\ \/ candles' = Append(candles, todo[NextWanted]) /\ lost' = lost + 1
       \/ UNCHANGED <<candles, lost>>
    /\ polling' = FALSE /\ todo' = <<>> /\ upTo' = 0
    /\ UNCHANGED <<scriptVars, mode, listed, restarts, blind, rewritten, offset, lastTs, seen,
                   floor, passed>>

PollEnds ==
    /\ polling /\ NextWanted = 0
    /\ offset' = upTo /\ polling' = FALSE /\ todo' = <<>> /\ upTo' = 0
    /\ UNCHANGED <<scriptVars, runVars, rewritten, lastTs, seen, floor, candles,
                   passed, lost>>

\* The last bar of a name in the file; the stream has canonical names only, so nothing
\* is known of a legacy name.
Known(scanned, t) == Max({0} \cup {b.m : b \in {b \in scanned : b.t = t /\ t \notin Legacy}})

\* A new process, at any point of the old one: bootstrap_from_redis scans the newest
\* entries, or fails and leaves the filters empty.
FeederRestarts ==
    /\ Trouble /\ restarts' = restarts + 1
    /\ offset' = 0 /\ polling' = FALSE /\ todo' = <<>> /\ upTo' = 0 /\ floor' = Max({1, now - Window})
    /\ \/ LET scanned == {candles[i] : i \in {i \in DOMAIN candles : i > Len(candles) - ScanMax}} IN
          /\ lastTs' = [t \in Tickers |-> Known(scanned, t)]
          /\ seen' = {KeyOf(b) : b \in {b \in scanned : b.m >= floor'}}
          /\ blind' = IF Len(candles) > ScanMax THEN blind + 1 ELSE blind
          /\ UNCHANGED faults
       \/ /\ starts + restarts + faults + 1 < MaxTrouble /\ faults' = faults + 1
          /\ lastTs' = [t \in Tickers |-> 0] /\ seen' = {}
          /\ blind' = blind + 1
    /\ passed' = {}                                     \* nothing is read yet
    /\ UNCHANGED <<scriptVars, mode, listed, rewritten, candles, lost>>

-------------------------------------------------------------------------------

Script == Dump \/ Flush
Feeder == PollStart \/ PublishRow \/ XaddFails \/ PollEnds

FeedNext == \/ MinutePasses \/ ScriptStarts \/ ScriptStops
            \/ Script \/ Feeder \/ FeederRestarts

FeedSpec == FeedInit /\ [][FeedNext]_feedVars

-------------------------------------------------------------------------------
(* Properties. *)

Superseded(t, m) == \E n \in m .. MaxMinute : Published(t, n)

\* The position is stored only after what lies before it was published: a failing
\* XADD or a restart loses no bar that no newer one has replaced.
PassedIsPublished ==
    ~rewritten =>
        \A k \in DOMAIN rows :
            2 * k + 2 <= offset /\ KeyOf(rows[k]) \notin passed /\ rows[k].m >= floor
            => Superseded(rows[k].t, rows[k].m)

\* A bar is published once, through re-reads of the file, rewrites by the script and
\* restarts, unless an XADD was applied unanswered or a bootstrap did not see it.
PublishedOnce ==
    lost = 0 /\ blind = 0 =>
        \A i, j \in DOMAIN candles : KeyOf(candles[i]) = KeyOf(candles[j]) => i = j

\* Bars of one instrument are published in the order of time, through rewrites of the
\* file and restarts; only a legacy name may have a hole filled later.
InOrder ==
    lost = 0 /\ blind = 0 =>
        \A i, j \in DOMAIN candles :
            i < j /\ candles[i].t = candles[j].t /\ candles[i].t \notin Legacy
            => candles[i].m <= candles[j].m

\* feeder.py: "holes in the middle too are filled" after a restart, here for a file
\* that was not rewritten.  True of names that differ from their canonical form.
LegacyHolesFilled ==
    mode = "all" /\ restarts > 0 /\ faults = 0 /\ starts = 1 /\ offset > 0 /\ ~polling =>
        \A k \in DOMAIN rows :
            /\ rows[k].t \in Legacy /\ rows[k].m >= floor
            /\ 2 * k + 2 <= offset /\ KeyOf(rows[k]) \notin passed
            => Published(rows[k].t, rows[k].m)

\* The stream against the file: what a reader went past, once and in order, and which
\* holes a start fills.
FeedIsFaithful == PassedIsPublished /\ PublishedOnce /\ InOrder /\ LegacyHolesFilled

-------------------------------------------------------------------------------
(* Why they hold: the inductive invariant. *)

\* Of a row that was read: not passed over, nor older than the last start looks.
DueRow(k) == KeyOf(rows[k]) \notin passed /\ rows[k].m >= floor

\* What a script writes that was started once at most.
OneScript ==
    starts <= 1 =>
        /\ \A i, j \in DOMAIN rows : i < j /\ rows[i].t = rows[j].t => rows[i].m < rows[j].m
        /\ script # "off" => \A k \in DOMAIN rows : rows[k].m <= lastDump[rows[k].t]
        /\ rewritten => offset = 0 /\ ~polling
        /\ starts = 0 => rows = <<>> /\ script = "off" /\ shown = 0 /\ offset = 0 /\ ~polling

\* The case of LegacyHolesFilled, and what the reader knows of a legacy name in it.
Refilling == mode = "all" /\ restarts > 0 /\ faults = 0 /\ starts <= 1

IsAhead(k) == rows[k].t \in Legacy => lastTs[rows[k].t] < rows[k].m

LegacyFollows ==
    Refilling =>
        /\ \A t \in Legacy : lastTs[t] > 0 => \E k \in DOMAIN rows : rows[k] = [t |-> t, m |-> lastTs[t]]
        /\ \A k \in DOMAIN rows : 2 * k + 2 <= offset /\ DueRow(k) /\ rows[k].t \in Legacy
              => Published(rows[k].t, rows[k].m)
        /\ ~polling => \A k \in DOMAIN rows : 2 * k >= offset => IsAhead(k)

\* The rows of a poll are those after row b; what lies before them is dealt with.
PollAt(b) ==
    /\ 2 * b < upTo
    /\ \A i \in DOMAIN todo : /\ b + i \in DOMAIN rows /\ todo[i] = rows[b + i]
                              /\ 2 * (b + i) < upTo
    /\ \A k \in DOMAIN rows : 2 * k + 2 <= upTo /\ k > b => k - b \in DOMAIN todo
    /\ \A k \in DOMAIN rows : 2 * k + 2 <= upTo /\ k <= b /\ DueRow(k) =>
          /\ Superseded(rows[k].t, rows[k].m)
          /\ Refilling /\ rows[k].t \in Legacy => Published(rows[k].t, rows[k].m)
    /\ Refilling => \A k \in DOMAIN rows : k > b => IsAhead(k)

\* Where the reader is in the file.
ReaderFollows ==
    /\ shown # 1 /\ (script # "off" => shown >= 2)
    /\ ~polling => todo = <<>> /\ upTo = 0
    /\ ~rewritten =>
        /\ offset <= shown /\ upTo <= shown
        /\ \A k \in DOMAIN rows : 2 * k + 1 \in {offset, upTo} => KeyOf(rows[k]) \in passed
        /\ polling => \E b \in 0 .. Len(rows) : PollAt(b)
    /\ \A k \in DOMAIN rows : rows[k].t \in ToSet(listed)

\* What the feeder remembers is in the stream, and without a lost answer or a scan cut
\* short it remembers enough of the stream.
FeederRemembers ==
    /\ \A t \in Tickers : lastTs[t] > 0 => Published(t, lastTs[t])
    /\ \A x \in seen : Published(x[1], x[2])
    /\ lost = 0 /\ blind = 0 =>
        \A i \in DOMAIN candles : LET c == candles[i] IN
            /\ c.t \notin Legacy => c.m <= lastTs[c.t]
            /\ c.m <= lastTs[c.t] \/ c.m < floor \/ KeyOf(c) \in seen

FeedInv ==
    /\ FeedTypeOK /\ PassedIsPublished /\ PublishedOnce /\ InOrder
    /\ OneScript /\ LegacyFollows /\ ReaderFollows /\ FeederRemembers
===============================================================================
