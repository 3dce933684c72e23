------------------------------ MODULE PaperTrade -------------------------------
(***************************************************************************)
(* One paper trade on a candle frame that grows while the trade is open    *)
(* (services/bridge/paper_executor.py): the fill when the signal is        *)
(* processed, the polls of the tracker that look for stop, target and time *)
(* stop, bars that come late or out of order, and restarts of the bridge,  *)
(* after which the bars published before are not read again.  In a replay  *)
(* the frame is complete and the clock is long past.                       *)
(***************************************************************************)
EXTENDS Integers, FiniteSets, FiniteSetsExt

CONSTANTS
    PaperBars,          \* bars a minute may bring: prices relative to the signal's
    SignalAt,           \* minute of the news
    HoldFor,            \* horizon_min
    StopAt, TargetAt,   \* how far below and above the signal's price the levels are
    StaleAfter,         \* stale_bar_threshold_sec, in minutes
    MaxDrift,           \* max_entry_drift_pct, as a distance
    LastWall,           \* bound: minutes
    MaxReloads          \* bound: restarts

ASSUME PaperAssumption ==
    /\ {StopAt, TargetAt, SignalAt, HoldFor, StaleAfter, MaxDrift, LastWall, MaxReloads} \subseteq Nat
    /\ \A b \in PaperBars : b.low <= b.high

\* 10 minutes of the 30 or 60 that a trade is held.
ASSUME StaleAssumption == StaleAfter < HoldFor

VARIABLES
    source,             \* "live" or "replay"
    wall,               \* minute of the clock; its bar is not complete
    frame,              \* bars by minute, as far as they arrived
    order,              \* "signal", "held", "closed" or "refused"
    fill, outcome,      \* OpenPosition; ExitOutcome, as sets of at most one
    disorder,           \* history: a bar came after a newer one, or later than the fill
    reloads, unread     \* restarts so far; minutes whose bars were lost by one

paperVars == <<source, wall, frame, order, fill, outcome, disorder, reloads, unread>>

PaperMinutes == 0 .. LastWall
Seen == DOMAIN frame

PaperTypeOK ==
    /\ source \in {"live", "replay"} /\ wall \in PaperMinutes /\ disorder \in BOOLEAN
    /\ Seen \subseteq PaperMinutes /\ \A m \in Seen : frame[m] \in PaperBars
    /\ order \in {"signal", "held", "closed", "refused"}
    /\ (fill # {}) = (order \in {"held", "closed"}) /\ (outcome # {}) = (order = "closed")
    /\ \A f \in fill : f.at \in PaperMinutes
    /\ \A o \in outcome : \A f \in fill : o.at \in f.at + 1 .. f.at + HoldFor
    /\ reloads \in 0 .. MaxReloads /\ unread \subseteq PaperMinutes

PaperInit ==
    /\ order = "signal" /\ fill = {} /\ outcome = {}
    /\ disorder = FALSE /\ reloads = 0 /\ unread = {}
    /\ \/ source = "live" /\ wall = 0 /\ frame = [m \in {} |-> 0]
       \/ source = "replay" /\ wall = LastWall
          /\ \E minutes \in SUBSET PaperMinutes : frame \in [minutes -> PaperBars]

-------------------------------------------------------------------------------

MinuteEnds ==
    /\ source = "live" /\ wall < LastWall /\ wall' = wall + 1
    /\ UNCHANGED <<source, frame, order, fill, outcome, disorder, reloads, unread>>

\* CandleCache.add_bar.
BarArrives(m, bar) ==
    /\ source = "live" /\ m < wall /\ m \notin Seen \cup unread
    /\ frame' = [n \in Seen \cup {m} |-> IF n = m THEN bar ELSE frame[n]]
    /\ disorder' = (disorder \/ \E n \in Seen \cup unread : n > m)
    /\ UNCHANGED <<source, wall, order, fill, outcome, reloads, unread>>

\* The price and the time of the fill, or none.
FillAt(m) == IF frame[m].open > MaxDrift \/ -frame[m].open > MaxDrift THEN {}
             ELSE {[at |-> m, price |-> frame[m].open]}

\* open_position: the first bar of the next minute or later; if there is none, the last
\* bar if it is not too old; the open of that bar, if it is near the signal's price.
NextOpen ==
    LET next == {m \in Seen : m >= SignalAt + 1} IN
    CASE Seen = {} -> {}
      [] Seen # {} /\ next # {} -> FillAt(Min(next))
      [] OTHER -> IF SignalAt - Max(Seen) > StaleAfter THEN {} ELSE FillAt(Max(Seen))

\* The signal is processed, at once or later.
ProcessSignal ==
    /\ order = "signal" /\ wall >= SignalAt
    /\ fill' = NextOpen
    /\ order' = IF NextOpen = {} THEN "refused" ELSE "held"
    /\ UNCHANGED <<source, wall, frame, outcome, disorder, reloads, unread>>

-------------------------------------------------------------------------------

MeetsLevel(m) == frame[m].low <= -StopAt \/ frame[m].high >= TargetAt

ExitIn(m) == IF frame[m].low <= -StopAt THEN [reason |-> "sl", price |-> -StopAt, at |-> m]
                                       ELSE [reason |-> "tp", price |-> TargetAt, at |-> m]

\* Mutant: the newest bar that meets a level decides.
CheckExitNewest(f, until) ==
    LET window == {m \in Seen : f.at < m /\ m <= until}
        met == {m \in window : MeetsLevel(m)} IN
    CASE met # {} -> {ExitIn(Max(met))}
      [] met = {} /\ wall < f.at + HoldFor -> {}
      [] OTHER -> {[reason |-> "time", at |-> IF window = {} THEN f.at + HoldFor ELSE Max(window),
                    price |-> IF window = {} THEN f.price ELSE frame[Max(window)].close]}

\* check_exit: the bars after the fill, up to the horizon and the clock, stop first.
CheckExit(f, until) ==
    LET window == {m \in Seen : f.at < m /\ m <= until}
        met == {m \in window : MeetsLevel(m)} IN
    CASE met # {} -> {ExitIn(Min(met))}
      [] met = {} /\ wall < f.at + HoldFor -> {}
      [] OTHER -> {[reason |-> "time", at |-> IF window = {} THEN f.at + HoldFor ELSE Max(window),
                    price |-> IF window = {} THEN f.price ELSE frame[Max(window)].close]}

\* The end of the window: the horizon, or now.
Until(f) == Min({f.at + HoldFor, wall})

\* A poll; without any bar it does nothing.
PollTrade ==
    /\ order = "held" /\ Seen # {}
    /\ \E f \in fill : outcome' = CheckExit(f, Until(f))
    /\ outcome' # {} /\ order' = "closed"
    /\ UNCHANGED <<source, wall, frame, fill, disorder, reloads, unread>>

\* The bridge restarts: the position comes back from Redis, the frame from files that
\* end before; the stream is read from its end.
BridgeRestarts ==
    /\ source = "live" /\ reloads < MaxReloads /\ reloads' = reloads + 1
    /\ frame' = [m \in {} |-> 0] /\ unread' = unread \cup Seen
    /\ UNCHANGED <<source, wall, order, fill, outcome, disorder>>

PaperNext ==
    \/ MinuteEnds \/ ProcessSignal \/ PollTrade \/ BridgeRestarts
    \/ \E m \in PaperMinutes, bar \in PaperBars : BarArrives(m, bar)

PaperSpec == PaperInit /\ [][PaperNext]_paperVars

-------------------------------------------------------------------------------
(* Properties. *)

\* What one walk over all bars of the window finds: the reference of the backtests.
WalkFinds(f) == {ExitIn(m) : m \in {m \in Seen :
                    /\ f.at < m /\ m <= f.at + HoldFor /\ MeetsLevel(m)
                    /\ \A n \in Seen : f.at < n /\ n < m => ~MeetsLevel(n)}}

\* Polling a frame that grows comes to the exit that one walk over the finished frame
\* finds, as long as bars come in order and none is lost; only the time stop may
\* come before a bar that is still due.
PollsMatchWalk ==
    ~disorder /\ reloads = 0 =>
        \A f \in fill, o \in outcome : o.reason \in {"sl", "tp"} => WalkFinds(f) = {o}

\* A trade is closed by a bar from before its signal only if it was filled from such a
\* bar, and then only by one that came between.
PastNeedsStaleFill ==
    \A f \in fill, o \in outcome :
        o.at <= SignalAt => f.at < o.at /\ f.at <= SignalAt /\ source = "live"

\* The exit of a paper trade is the one its bars call for, and from its own time.
ExitIsFair == PollsMatchWalk /\ PastNeedsStaleFill
===============================================================================
