------------------------------ MODULE CandleCache ------------------------------
(***************************************************************************)
(* The candle frame of one ticker in a service (src/src/infra/candles.py): *)
(* loaded from a CSV at the start, then kept up to date by a subscriber    *)
(* that reads the broadcast stream candles:1m with XREAD.  The stream has  *)
(* late, repeated and unreadable bars; the subscriber is a task of its own *)
(* and the service may restart.                                            *)
(***************************************************************************)
EXTENDS Integers, Sequences, FiniteSets, SequencesExt

CONSTANTS
    Minutes, Values,    \* a bar: its time, and what distinguishes two copies
    CsvFiles,           \* price files to start from
    MaxBars,            \* bound: entries of the stream
    MaxCuts             \* bound: restarts and connection errors

ASSUME CacheAssumption ==
    /\ Minutes \subseteq Nat /\ {MaxBars, MaxCuts} \subseteq Nat
    /\ \A f \in CsvFiles : f \in Seq([m: Minutes, v: Values])

VARIABLES
    tape,       \* candles:1m
    csv,        \* the price file
    frame,      \* the bars of the ticker, in index order
    cursor,     \* id of the last entry read, or FromNow
    asked,      \* XREAD under way: the id it reads from, or NotAsked
    since,      \* history: where the first XREAD that was answered began
    cuts

cacheVars == <<tape, csv, frame, cursor, asked, since, cuts>>

FromNow == -1
NotAsked == -1
Unreadable == [m |-> 0, v |-> 0]
Bar == [m: Minutes, v: Values]

CacheTypeOK ==
    /\ tape \in Seq(Bar \cup {Unreadable}) /\ Len(tape) <= MaxBars
    /\ csv \in CsvFiles /\ frame \in Seq(Bar)
    /\ cursor \in -1 .. Len(tape) /\ asked \in -1 .. Len(tape)
    /\ since \in 0 .. Len(tape) /\ cuts \in 0 .. MaxCuts

\* sort_values, sort_index, for bars whose times differ: as many are earlier as come before.
Earlier(bars, bar) == Cardinality({x \in bars : x.m < bar.m})
InOrder(bars) == [i \in 1 .. Cardinality(bars) |-> CHOOSE bar \in bars : Earlier(bars, bar) = i - 1]

\* drop_duplicates keeps the first row of a time.
LoadAll(file) ==
    InOrder({file[i] : i \in {i \in DOMAIN file : \A j \in 1 .. i - 1 : file[j].m # file[i].m}})

Has(s, m) == \E i \in DOMAIN s : s[i].m = m

\* Mutant: a late bar goes to the end.
AddAtEnd(s, bar) ==
    IF bar = Unreadable THEN s
    ELSE IF Has(s, bar.m) THEN [i \in DOMAIN s |-> IF s[i].m = bar.m THEN bar ELSE s[i]]
    ELSE Append(s, bar)

\* add_bar: append, overwrite, or append and sort.
AddBar(s, bar) ==
    IF bar = Unreadable THEN s
    ELSE IF s = <<>> \/ bar.m > Last(s).m THEN Append(s, bar)
    ELSE IF Has(s, bar.m) THEN [i \in DOMAIN s |-> IF s[i].m = bar.m THEN bar ELSE s[i]]
    ELSE InOrder(Range(s) \cup {bar})

\* The frame after the entries from one to another were added to it.
AfterBars(s, first, last) ==
    LET after[i \in 0 .. last] == IF i < first THEN s ELSE AddBar(after[i - 1], tape[i])
    IN  after[last]

CacheInit ==
    /\ tape = <<>> /\ csv \in CsvFiles
    /\ frame = LoadAll(csv)
    /\ cursor = FromNow /\ asked = NotAsked /\ since = 0 /\ cuts = 0

BarPublished ==
    /\ Len(tape) < MaxBars
    /\ \E bar \in Bar \cup {Unreadable} : tape' = Append(tape, bar)
    /\ UNCHANGED <<csv, frame, cursor, asked, since, cuts>>

\* "$" stands for the last entry at the time of the call.
Xread ==
    /\ asked = NotAsked
    /\ asked' = IF cursor = FromNow THEN Len(tape) ELSE cursor
    /\ UNCHANGED <<tape, csv, frame, cursor, since, cuts>>

\* The reply holds the first entries after the id; there is no await between them.
Reply ==
    /\ asked # NotAsked
    /\ \E last \in asked + 1 .. Len(tape) :
         /\ frame' = AfterBars(frame, asked + 1, last)
         /\ cursor' = last
    /\ since' = IF cursor = FromNow THEN asked ELSE since
    /\ asked' = NotAsked
    /\ UNCHANGED <<tape, csv, cuts>>

\* block_ms passes without an entry.
NoReply ==
    /\ asked = Len(tape)
    /\ asked' = NotAsked
    /\ UNCHANGED <<tape, csv, frame, cursor, since, cuts>>

\* A connection error, with or without a reply on its way: pool reset, back-off.
ReadFails ==
    /\ asked # NotAsked /\ cuts < MaxCuts
    /\ asked' = NotAsked /\ cuts' = cuts + 1
    /\ UNCHANGED <<tape, csv, frame, cursor, since>>

\* A new process: the frame comes from the file, the cursor from nowhere.
CacheRestarts ==
    /\ cuts < MaxCuts /\ cuts' = cuts + 1
    /\ frame' = LoadAll(csv)
    /\ cursor' = FromNow /\ asked' = NotAsked /\ since' = 0
    /\ UNCHANGED <<tape, csv>>

Subscriber == Xread \/ Reply \/ NoReply \/ ReadFails

CacheNext == BarPublished \/ Subscriber \/ CacheRestarts

CacheSpec == CacheInit /\ [][CacheNext]_cacheVars

\* The subscriber task asks and is answered.
FairCacheSpec == CacheSpec /\ WF_cacheVars(Subscriber)

-------------------------------------------------------------------------------
(* Properties. *)

\* Readers of the frame search it by time: each time is there once, in order.
FrameSorted == \A i, j \in DOMAIN frame : i < j => frame[i].m < frame[j].m

\* Entries the subscriber has gone through since its first answer.
Taken == {i \in since + 1 .. cursor : tape[i] # Unreadable}

\* Whatever the order of the bars, and through connection errors, the frame holds
\* the newest copy of every bar that was read, and what the file had otherwise.
FrameIsLatest ==
    \A m \in Minutes :
        LET copies == {i \in Taken : tape[i].m = m} IN
        IF copies = {} THEN Has(frame, m) <=> Has(csv, m)
                       ELSE \E i \in DOMAIN frame : frame[i] = tape[Max(copies)]

\* Once a first bar has come in, every later one is read, until the next restart.
Unread(i) == cursor # FromNow /\ i <= Len(tape)
IsRead(i) == cursor >= i \/ cursor = FromNow
NothingUnread == \A i \in 1 .. MaxBars : Unread(i) ~> IsRead(i)

\* What the readers of a frame rely on: each time once, in order, with its newest bar.
FrameIsCurrent == FrameSorted /\ FrameIsLatest

\* What keeps it so: the subscriber asks from where it is, and has taken what it read since
\* its first answer.
CacheInv ==
    /\ CacheTypeOK /\ FrameIsCurrent
    /\ asked # NotAsked /\ cursor # FromNow => asked = cursor
    /\ IF cursor = FromNow THEN since = 0 ELSE since <= cursor
===============================================================================
