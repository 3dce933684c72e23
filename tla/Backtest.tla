------------------------------- MODULE Backtest --------------------------------
(***************************************************************************)
(* The loop of the offline backtests over the news of a test window        *)
(* (run_arm of ab_backtest_v1_holdout, simulate_fold of                    *)
(* walk_forward_backtest): cooldown, limit on open positions, daily kill   *)
(* and the order of rows; and the windows of the walk-forward themselves.  *)
(* The side and the way a trade goes are any; TradingRules and Exits have  *)
(* the rules.                                                              *)
(*                                                                         *)
(* Time is in half minutes, money in tenths of a percent of the equity     *)
(* that the backtest starts with.                                          *)
(***************************************************************************)
EXTENDS Integers, Sequences, FiniteSets, FiniteSetsExt, Functions

CONSTANTS
    Traded,
    NewsCount,          \* rows of the frame
    LastNews,           \* bound: time of the last one
    FillDelays,         \* how long the first bar may keep a trade waiting
    Durations, Pnls,    \* of a trade
    CooldownTime, MaxPositions,
    KillPermille,       \* DAILY_KILL_PCT
    DayLength,
    TrainLength, TestLength, Purge, LabelLength, LastRow    \* for the windows

ASSUME BacktestAssumption ==
    /\ {NewsCount, MaxPositions, DayLength, TestLength} \subseteq Nat \ {0}
    /\ {LastNews, CooldownTime, KillPermille, TrainLength, Purge, LabelLength, LastRow} \subseteq Nat
    /\ FillDelays \cup Durations \subseteq Nat /\ Traded # {}
    /\ Pnls \subseteq Int /\ \E worst \in Pnls \cup {0} : \A p \in Pnls \cup {0} : worst <= p

VARIABLES
    job,                \* which script runs
    newsRows,               \* the frame: time and ticker of each row, sorted by time
    line,               \* the rows in the order of the loop, after the second sort
    next,               \* position of the loop
    trades,             \* in the order they were made
    day, dayStart, equity, killed,
    testStart, folds    \* the windows made so far

backtestVars == <<job, newsRows, line, next, trades, day, dayStart, equity, killed, testStart, folds>>

Loops == {"run_arm", "simulate_fold"}
Walks == {"fixed", "rolling"}
Positions == 1 .. NewsCount
StartEquity == 1000

\* What some of the trades have gained.
Gained(made, S) ==
    LET upTo[n \in 0 .. Len(made)] ==
            IF n = 0 THEN 0 ELSE upTo[n - 1] + (IF n \in S THEN made[n].pnl ELSE 0)
    IN upTo[Len(made)]

BacktestTypeOK ==
    /\ job \in Loops \cup Walks /\ next \in 1 .. NewsCount + 1 /\ killed \in BOOLEAN
    /\ \A i \in Positions : newsRows[i].ticker \in Traded /\ newsRows[i].at \in 0 .. LastNews
    /\ Range(line) \subseteq Positions /\ (job \in Loops => IsInjective(line))
    /\ Len(trades) < next
    /\ Len(trades) + Len(folds) > 0 => (job \in Loops) = (folds = <<>>)
    /\ equity = StartEquity + Gained(trades, DOMAIN trades)

InOrderOf(f, at(_)) == \A i, j \in DOMAIN f : i < j => at(f[i]) <= at(f[j])

\* main() sorts the frame by time and cuts the test window out of it.
Frames == {f \in [Positions -> [at : 0 .. LastNews, ticker : Traded]] : InOrderOf(f, LAMBDA r : r.at)}

\* sort_values("_dt"), which may change the order of rows of one time.
Resorted(f) == {p \in [Positions -> Positions] : IsInjective(p) /\ InOrderOf(p, LAMBDA i : f[i].at)}

BacktestInit ==
    /\ next = 1 /\ trades = <<>> /\ day = -1 /\ killed = FALSE
    /\ equity = StartEquity /\ dayStart = StartEquity /\ folds = <<>> /\ testStart = TrainLength
    /\ \/ job \in Loops /\ newsRows \in Frames /\ line \in Resorted(newsRows)
       \/ job \in Walks /\ line = <<>>
          /\ newsRows = [i \in Positions |-> [at |-> 0, ticker |-> CHOOSE t \in Traded : TRUE]]

-------------------------------------------------------------------------------
(* The loop over the news. *)

Current == newsRows[line[next]]

\* The trades that count as open: filled by then, and not closed.
OpenTrades(ts) == {i \in DOMAIN trades : trades[i].opened <= ts /\ trades[i].closed > ts}

\* last_trade_ts: the news of the last trade in the ticker is too recent.
Cooling(ticker, ts) ==
    \E i \in DOMAIN trades : trades[i].ticker = ticker /\ ts - trades[i].news < CooldownTime

\* get_entry_price: the first bar from the next minute on.
EntryTime(ts, delay) == ((ts + 2) \div 2) * 2 + 2 * delay

\* The row whose prediction decides: run_arm joins the predictions to the rows before it
\* sorts them again; simulate_fold takes them by position in the frame as it was.
PredictionUsed == IF job = "run_arm" THEN line[next] ELSE next

KillNow(total, start) == 1000 * (total - start) < -start * KillPermille

Booked(total, pnl) == total + pnl

\* A row of the loop.  A new day starts with the equity of then and without the kill.
Row ==
    LET ts == Current.at
        newDay == ts \div DayLength # day
        stopped == ~newDay /\ killed
        start == IF newDay THEN equity ELSE dayStart
    IN
    /\ job \in Loops /\ next <= NewsCount
    /\ next' = next + 1 /\ day' = ts \div DayLength /\ dayStart' = start
    /\ \/ \* killed, cooling, too many open, no side, no bars or no size: none without equity
          /\ killed' = stopped /\ UNCHANGED <<trades, equity>>
       \/ /\ ~stopped /\ equity > 0 /\ ~Cooling(Current.ticker, ts) /\ Cardinality(OpenTrades(ts)) < MaxPositions
          /\ \E delay \in FillDelays, duration \in Durations, pnl \in Pnls :
               /\ trades' = Append(trades,
                     [ticker |-> Current.ticker, news |-> ts, opened |-> EntryTime(ts, delay),
                      closed |-> EntryTime(ts, delay) + 2 * duration, pnl |-> pnl,
                      row |-> line[next], by |-> PredictionUsed])
               /\ equity' = Booked(equity, pnl) /\ killed' = KillNow(equity', start)
    /\ UNCHANGED <<job, newsRows, line, testStart, folds>>

-------------------------------------------------------------------------------
(* The windows. *)

TrainEnd(start) == start - Purge

\* A window of build_folds (train on all that is older) or of build_rolling_folds (train
\* on the last months, last window cut short); windows with too few rows are dropped.
Fold ==
    LET full == testStart + TestLength
        end == IF job = "rolling" /\ full > LastRow THEN LastRow ELSE full
    IN
    /\ job \in Walks
    /\ IF job = "fixed" THEN end <= LastRow ELSE testStart < LastRow
    /\ testStart' = testStart + TestLength
    /\ folds' \in {folds, Append(folds,
                     [from |-> IF job = "fixed" THEN 0 ELSE testStart - TrainLength,
                      to |-> TrainEnd(testStart), start |-> testStart, end |-> end])}
    /\ UNCHANGED <<job, newsRows, line, next, trades, day, dayStart, equity, killed>>

BacktestNext == Row \/ Fold

BacktestSpec == BacktestInit /\ [][BacktestNext]_backtestVars

-------------------------------------------------------------------------------
(* Properties. *)

\* There are more positions open than the limit only because a trade waits for its fill:
\* one of them was filled after the news of a later one.
OverrunNeedsLateFill ==
    \A i \in DOMAIN trades :
        LET held == {j \in DOMAIN trades : /\ trades[j].opened <= trades[i].opened
                                          /\ trades[j].closed > trades[i].opened} IN
        Cardinality(held) > MaxPositions =>
            \E j, k \in held : j < k /\ trades[j].opened > trades[k].news

\* The loss of a day is bounded by the kill and one more trade: the last one.
DayLossBounded ==
    LET of(d) == {i \in DOMAIN trades : trades[i].news \div DayLength = d}
        start(d) == StartEquity + Gained(trades, {i \in DOMAIN trades : trades[i].news \div DayLength < d})
    IN \A d \in {trades[i].news \div DayLength : i \in DOMAIN trades} :
           1000 * Gained(trades, of(d))
               >= -start(d) * KillPermille + 1000 * Min(Pnls \cup {0})

\* A trade is decided by the prediction for its own news; the walk-forward, which sorts
\* between predicting and reading, may take that for other news of the same time.
DecidedByItsOwnTime ==
    \A i \in DOMAIN trades :
        /\ job = "run_arm" => trades[i].by = trades[i].row
        /\ newsRows[trades[i].by].at = trades[i].news

\* No row is tested twice, training is over when testing starts, and the labels of the
\* training rows reach into the test window by no more than they exceed the buffer.
WindowsAreHonest ==
    \A i, j \in DOMAIN folds :
        /\ i < j => folds[i].end <= folds[j].start
        /\ folds[i].start < folds[i].end /\ folds[i].end <= LastRow
        /\ folds[i].to <= folds[i].start
        /\ folds[i].to + LabelLength - folds[i].start <= LabelLength - Purge

\* The loop of a backtest: its limits, the predictions it reads, its windows.
LoopIsHonest ==
    /\ OverrunNeedsLateFill
    /\ DayLossBounded
    /\ DecidedByItsOwnTime
    /\ WindowsAreHonest
===============================================================================
