-------------------------------- MODULE Exits ----------------------------------
(***************************************************************************)
(* How a simulated trade ends: the five exit strategies of sprint4/exits,  *)
(* walking the minute bars after the entry side by side.  All of them look *)
(* for the stop before the target (base.py), and cut the bars to the same  *)
(* window: "wide", or "honest" without the bar of the entry and without    *)
(* the bar after the time stop.  The baseline runs with the window of the  *)
(* walk-forward backtest too, "phase2", which "wide" is to reproduce.      *)
(*                                                                         *)
(* Prices are distances from the entry.  A long trade and a short one run  *)
(* at the same time, the short one on the mirrored bars.                   *)
(***************************************************************************)
EXTENDS Integers, FiniteSets

CONSTANTS
    Stop, Target,       \* distances of stop-loss and take-profit
    Step,               \* trailing_multiplier * ATR, never 0
    Horizon,            \* horizon_min
    PartialMinute,      \* partial_minute
    ExitBars,           \* bars a minute may bring
    LastMinute          \* bound: minutes after the entry

ASSUME ExitsAssumption ==
    /\ {Stop, Target, Step} \subseteq Nat \ {0}
    /\ {Horizon, PartialMinute, LastMinute} \subseteq Nat
    /\ ExitBars \subseteq [high: Int, low: Int, close: Int]
    /\ \A b \in ExitBars : b.low <= b.close /\ b.close <= b.high

VARIABLES
    minute,             \* since ts_open; the bar of this minute comes next
    walks,              \* of each side, strategy and window
    lastBar,            \* of each window: the last bar in it, as a set
    ended               \* the bars are used up

exitsVars == <<minute, walks, lastBar, ended>>

Sides == {1, -1}
Strategies == {"baseline", "breakeven", "trailing", "levels", "timed"}
Windows == {"wide", "honest", "phase2"}
Trades == Sides \X Strategies \X {"wide", "honest"} \cup Sides \X {"baseline"} \X {"phase2"}

Entry == 0
StopLoss(side)   == IF side = 1 THEN Entry - Stop ELSE Entry + Stop
TakeProfit(side) == IF side = 1 THEN Entry + Target ELSE Entry - Target
OneR(side)       == 2 * Entry - StopLoss(side)

Reasons == {"open", "sl", "tp", "time", "no_bars", "breakeven", "trailing"}

ExitsTypeOK ==
    /\ minute \in 0 .. LastMinute + 1 /\ ended \in BOOLEAN
    /\ \A t \in Trades :
         /\ walks[t].reason \in Reasons /\ walks[t].armed \in BOOLEAN
         /\ walks[t].at \in -1 .. LastMinute
         /\ Cardinality(walks[t].half) <= 1
         /\ (walks[t].reason = "open") => ~ended
         /\ (walks[t].reason \in {"breakeven", "trailing"}) => walks[t].armed
    /\ \A w \in Windows : Cardinality(lastBar[w]) <= 1

\* The state of simulate(): current stop, whether it was moved, the price at which half
\* of the position was closed, and the result.
FreshWalk(side) == [sl |-> StopLoss(side), armed |-> FALSE, half |-> {},
                reason |-> "open", price |-> Entry, at |-> -1]

ExitsInit ==
    /\ minute = 0 /\ ended = FALSE
    /\ walks = [t \in Trades |-> FreshWalk(t[1])]
    /\ lastBar = [w \in Windows |-> {}]

-------------------------------------------------------------------------------
(* One bar. *)

\* check_tp_sl_hit.
Hit(side, bar, tp, sl) ==
    IF (side = 1 /\ bar.low <= sl) \/ (side = -1 /\ bar.high >= sl) THEN "sl"
    ELSE IF (side = 1 /\ bar.high >= tp) \/ (side = -1 /\ bar.low <= tp) THEN "tp"
    ELSE "none"

Touched1R(side, bar) ==
    (side = 1 /\ bar.high >= OneR(side)) \/ (side = -1 /\ bar.low <= OneR(side))

Higher(a, b) == IF a >= b THEN a ELSE b
Lower(a, b)  == IF a <= b THEN a ELSE b

\* BreakevenAfter1R: the stop goes to the entry.
Breakeven(side, w, bar) ==
    IF ~w.armed /\ Touched1R(side, bar) THEN [w EXCEPT !.armed = TRUE, !.sl = Entry] ELSE w

\* TrailingAfter1R: the stop follows the close, first from the entry, and never back.
Trailing(side, w, bar) ==
    LET pulled == IF side = 1 THEN bar.close - Step ELSE bar.close + Step
        first  == IF side = 1 THEN Higher(pulled, Entry) ELSE Lower(pulled, Entry)
        new    == IF w.armed THEN pulled ELSE first
    IN IF ~w.armed /\ ~Touched1R(side, bar) THEN w
       ELSE [w EXCEPT !.armed = TRUE,
                      !.sl = IF side = 1 THEN Higher(w.sl, new) ELSE Lower(w.sl, new)]

\* Partial50_50AtLevels: half is closed at 1R.
Levels(side, w, bar) ==
    IF w.half = {} /\ Touched1R(side, bar) THEN [w EXCEPT !.half = {OneR(side)}] ELSE w

\* TimeBasedPartial: half is closed at the close of the first bar that is old enough.
Timed(w, bar) ==
    IF w.half = {} /\ minute >= PartialMinute THEN [w EXCEPT !.half = {bar.close}] ELSE w

\* A bar in the loop of simulate(): stop and target first, on the stop as it was.
Walk(side, strategy, w, bar) ==
    LET hit == Hit(side, bar, TakeProfit(side), w.sl) IN
    CASE w.reason # "open" -> w
      [] w.reason = "open" /\ hit # "none" ->
           [w EXCEPT !.reason = IF hit = "sl" /\ w.armed THEN strategy ELSE hit,
                     !.price = IF hit = "sl" THEN w.sl ELSE TakeProfit(side), !.at = minute]
      [] OTHER ->
           CASE strategy = "baseline" -> w
             [] strategy = "breakeven" -> Breakeven(side, w, bar)
             [] strategy = "trailing" -> Trailing(side, w, bar)
             [] strategy = "levels" -> Levels(side, w, bar)
             [] strategy = "timed" -> Timed(w, bar)

\* The end of the loop: the close of the last bar, or no bar at all.
Timeout(side, w, last) ==
    CASE w.reason # "open" -> w
      [] w.reason = "open" /\ last = {} -> [w EXCEPT !.reason = "no_bars", !.price = Entry, !.at = 0]
      [] OTHER -> LET b == CHOOSE b \in last : TRUE IN
                  [w EXCEPT !.reason = "time", !.at = b.m,
                            !.price = IF side = 1 THEN b.close ELSE -b.close]

-------------------------------------------------------------------------------

\* The loop of simulate_trade: up to the first bar that is not before the end.
InPhase2 == \A b \in lastBar["phase2"] : b.m < Horizon

\* The window filter: wide, up to one bar after the time stop, however late it comes.
InWindow(w) ==
    CASE w = "wide" -> minute <= Horizon \/ \A b \in lastBar[w] : b.m <= Horizon
      [] w = "honest" -> minute > 0 /\ minute <= Horizon
      [] OTHER -> InPhase2

Mirror(bar) == [high |-> -bar.low, low |-> -bar.high, close |-> -bar.close]

Bar ==
    \E bar \in ExitBars :
        /\ minute <= LastMinute /\ minute' = minute + 1
        /\ walks' = [t \in Trades |->
                        IF InWindow(t[3])
                        THEN Walk(t[1], t[2], walks[t], IF t[1] = 1 THEN bar ELSE Mirror(bar))
                        ELSE walks[t]]
        /\ lastBar' = [w \in Windows |-> IF InWindow(w) THEN {[close |-> bar.close, m |-> minute]}
                                                        ELSE lastBar[w]]
        /\ UNCHANGED ended

\* No trade in this minute: no bar.
Gap ==
    /\ minute <= LastMinute /\ minute' = minute + 1
    /\ UNCHANGED <<walks, lastBar, ended>>

EndOfBars ==
    /\ minute > LastMinute /\ ~ended /\ ended' = TRUE
    /\ walks' = [t \in Trades |-> Timeout(t[1], walks[t], lastBar[t[3]])]
    /\ UNCHANGED <<minute, lastBar>>

ExitsNext == Bar \/ Gap \/ EndOfBars

ExitsSpec == ExitsInit /\ [][ExitsNext]_exitsVars

-------------------------------------------------------------------------------
(* Properties. *)

Closed(w) == w.reason # "open"

\* Result of a trade in half price units, as compute_realized_r_partial weighs it.
Result(side, w) ==
    LET legs == IF w.half = {} THEN 2 * (w.price - Entry)
                ELSE (CHOOSE p \in w.half : TRUE) + w.price - 2 * Entry
    IN side * legs

\* The branches for shorts mirror those for longs in every strategy, whatever the bars.
MirrorAgrees ==
    \A s \in Strategies, w \in {"wide", "honest"} :
        LET long == walks[<<1, s, w>>]  short == walks[<<-1, s, w>>] IN
        /\ long.reason = short.reason /\ long.at = short.at /\ long.price = -short.price
        /\ long.half = {-p : p \in short.half} /\ long.sl = -short.sl

\* A partial exit leaves the rest of the position where the baseline leaves the whole:
\* only the half that was closed early makes the difference.
RestFollowsBaseline ==
    \A side \in Sides, s \in {"levels", "timed"}, w \in {"wide", "honest"} :
        LET part == walks[<<side, s, w>>]  whole == walks[<<side, "baseline", w>>] IN
        /\ part.reason = whole.reason /\ part.at = whole.at /\ part.price = whole.price
        /\ \A p \in part.half : 2 * Result(side, part) = 2 * side * (p - Entry) + Result(side, whole)

\* "At least we do not let it go into a loss": a position stopped after 1R is stopped at
\* the entry or better, the trailing one no later than the breakeven one, and that one
\* no later than the baseline.
ProtectedAfter1R ==
    \A side \in Sides, w \in {"wide", "honest"} :
        LET base == walks[<<side, "baseline", w>>]
            even == walks[<<side, "breakeven", w>>]
            trail == walks[<<side, "trailing", w>>] IN
        /\ \A x \in {even, trail} : x.reason \in {"breakeven", "trailing"} => Result(side, x) >= 0
        /\ Closed(base) => Closed(even) /\ even.at <= base.at
        /\ Closed(even) => Closed(trail) /\ trail.at <= even.at
        /\ \A x \in {even, trail} : x.reason \in {"sl", "tp"} => x = [base EXCEPT !.armed = x.armed, !.sl = x.sl]

\* The windows tell the same story unless a level was met in the bar of the entry or the
\* trade outlived the time stop.
WindowsDifferAtTheEdges ==
    \A side \in Sides :
        LET wide == walks[<<side, "baseline", "wide">>]
            honest == walks[<<side, "baseline", "honest">>]
            phase2 == walks[<<side, "baseline", "phase2">>] IN
        /\ ended /\ wide # honest =>
               wide.at = 0 \/ (wide.at > Horizon /\ honest.reason \in {"time", "no_bars"})
        /\ ended /\ wide # phase2 => phase2.reason = "time" /\ phase2.at = Horizon

\* The strategies against each other: long and short, part and whole, with and without
\* protection, window and window.
StrategiesAgree ==
    /\ MirrorAgrees
    /\ RestFollowsBaseline
    /\ ProtectedAfter1R
    /\ WindowsDifferAtTheEdges
===============================================================================
