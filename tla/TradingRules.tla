----------------------------- MODULE TradingRules ------------------------------
(***************************************************************************)
(* The rules that make a trade out of a prediction: the clamp of the       *)
(* predictor, side, levels, size, direction filter and market hours of the *)
(* decision service, beside the copies of them the research scripts run.   *)
(* Each case is one input and what all the copies answer.                  *)
(*                                                                         *)
(* Distances are in steps of 0.005 % of the price, predictions in steps of *)
(* ten of these, so that every threshold of the code is a whole number.    *)
(***************************************************************************)
EXTENDS Integers, FiniteSets

CONSTANTS
    Excursions,         \* raw outputs of a model, negative ones too
    RrThreshold, MinMfe, MinMae,
    TpTenths, SlTenths, \* TP_FRACTION and SL_BUFFER, in tenths
    TpFloor, SlFloor,
    Price,              \* entry price; steps of price are its 1/20000
    LotSizes, Equities,
    RiskPermille, Leverage,
    Confidences, MinConfidence

ASSUME RulesAssumption ==
    /\ {RrThreshold, MinMfe, MinMae, TpTenths, SlTenths, TpFloor, SlFloor, Price, Leverage} \subseteq Nat \ {0}
    /\ LotSizes \cup Equities \subseteq Nat \ {0} /\ Excursions \subseteq Int
    /\ RiskPermille \in Nat /\ Price % 20000 = 0 /\ Confidences \cup {MinConfidence} \subseteq Nat

\* What the thresholds of the service have to do with one another.
ASSUME ThresholdsAssumption == TpTenths * RrThreshold > SlTenths /\ (TpFloor > SlFloor \/ TpTenths * MinMfe > SlFloor)

VARIABLES
    input,              \* the case, or none
    answer              \* what the rules make of it

rulesVars == <<input, answer>>

\* Predictions of a horizon, per side.
Forecasts == [mfeLong: Excursions, maeLong: Excursions, mfeShort: Excursions, maeShort: Excursions]

Impacts == {[direction |-> d, confidence |-> c] :
               d \in {"absent", "neutral", "long", "short"}, c \in Confidences}

Larger(a, b)  == IF a >= b THEN a ELSE b
Smaller(a, b) == IF a <= b THEN a ELSE b

\* predict_all_horizons: excursions below zero are none.
Clamped(f) == [k \in DOMAIN f |-> Larger(0, f[k])]

-------------------------------------------------------------------------------
(* The side. *)

\* Denominator of the reward-to-risk ratio.
Against(f, side) == Larger(IF side = "BUY" THEN f.maeLong ELSE f.maeShort, MinMae)

InFavour(f, side) == IF side = "BUY" THEN f.mfeLong ELSE f.mfeShort

\* rr of one side >= rr of the other, as fractions.
AtLeast(f, s, t) == InFavour(f, s) * Against(f, t) >= InFavour(f, t) * Against(f, s)

Qualifies(f, side) ==
    /\ InFavour(f, side) >= RrThreshold * Against(f, side)
    /\ InFavour(f, side) >= MinMfe

\* evaluate_rr of the decision service.
EvaluateRr(f) ==
    CASE Qualifies(f, "BUY") /\ AtLeast(f, "BUY", "SELL") -> "BUY"
      [] Qualifies(f, "SELL") /\ ~AtLeast(f, "BUY", "SELL") -> "SELL"
      [] OTHER -> "none"

\* select_trades of walk_forward_y6_honest, on the row of each side; simulate_fold and
\* run_arm of the other backtests branch in the same way.
Select(f) ==
    {s \in {"BUY", "SELL"} :
        /\ Qualifies(f, s)
        /\ s = "BUY"  => AtLeast(f, "BUY", "SELL")
        /\ s = "SELL" => ~AtLeast(f, "BUY", "SELL")}

-------------------------------------------------------------------------------
(* Levels and size. *)

TpDistance(f, side) == Larger(TpTenths * InFavour(f, side), TpFloor)

\* Mutant: a floor of one step.
SlDistanceBare(f, side) ==
    Larger(SlTenths * (IF side = "BUY" THEN f.maeLong ELSE f.maeShort), 1)

SlDistance(f, side) ==
    Larger(SlTenths * (IF side = "BUY" THEN f.maeLong ELSE f.maeShort), SlFloor)

\* In steps of price, per unit.
StepOf == Price \div 20000

LotsByRisk(equity, lot, distance) ==
    ((equity * RiskPermille) \div 1000) \div (distance * StepOf * lot)

LotsByLeverage(equity, lot) == (equity * Leverage) \div (lot * Price)

\* compute_size: what the risk allows, one lot if it allows none, then the cap on the
\* notional, with one lot always left.
ComputeSize(equity, lot, distance) ==
    LET byRisk == Larger(1, LotsByRisk(equity, lot, distance)) IN
    IF byRisk * lot * Price > equity * Leverage
    THEN Smaller(byRisk, Larger(1, LotsByLeverage(equity, lot)))
    ELSE byRisk

\* simulate_trade of the backtests: no trade if risk or leverage allows no lot.
BacktestSize(equity, lot, distance) ==
    Smaller(LotsByRisk(equity, lot, distance), LotsByLeverage(equity, lot))

-------------------------------------------------------------------------------
(* The filter on what the language model said of the ticker. *)

Expected(side) == IF side = "BUY" THEN "long" ELSE "short"

\* apply_direction_filter, and include of sprint4's DirectionFilter.
Include(i, side) ==
    \/ i.direction \in {"absent", "neutral"}
    \/ i.direction = Expected(side) /\ i.confidence >= MinConfidence

\* The filter of select_trades: a row without a direction counts as neutral.
Keep(i, side) ==
    LET llm == IF i.direction \in {"long", "short"} THEN i.direction ELSE "neutral" IN
    llm = "neutral" \/ (llm = Expected(side) /\ i.confidence >= MinConfidence)

-------------------------------------------------------------------------------
(* Market hours, in minutes; a day of the week and a time of the day, UTC. *)

MinutesOfDay == 24 * 60
Moscow == 3 * 60
AssetClasses == {"equity", "futures", "commodity", "currency", "unknown"}

\* 06:50 and 08:50; 23:49:59 is the end of minute 23:49.
Opens(class) == IF class \in {"futures", "commodity", "currency"} THEN 8 * 60 + 50 ELSE 6 * 60 + 50
Closes == 23 * 60 + 49

\* is_market_open: closed on a weekend of Moscow.
IsMarketOpen(day, minute, class) ==
    LET local == minute + Moscow
        weekday == (day + local \div MinutesOfDay) % 7
    IN weekday < 5 /\ local % MinutesOfDay >= Opens(class) /\ local % MinutesOfDay <= Closes

\* Minutes where something changes, with their neighbours, in UTC.
Moments ==
    LET turns == {0, Opens("equity"), Opens("futures"), Closes + 1}
    IN {(t + d - Moscow + MinutesOfDay) % MinutesOfDay : t \in turns, d \in {-1, 0, 1}} \cup {0}

-------------------------------------------------------------------------------

\* Prices, sizes and filter for one side.
Proposal(f, side, i, equity, lot) ==
    [side |-> side, tp |-> TpDistance(f, side), sl |-> SlDistance(f, side),
     lots |-> ComputeSize(equity, lot, SlDistance(f, side)),
     backtest |-> BacktestSize(equity, lot, SlDistance(f, side)),
     include |-> Include(i, side), keep |-> Keep(i, side)]

\* One prediction of the predictor, decided by the service and by the scripts.
Decide ==
    /\ input = {}
    /\ \E raw \in Forecasts, i \in Impacts, equity \in Equities, lot \in LotSizes :
        LET f == Clamped(raw) IN
        /\ input' = {[kind |-> "signal", forecast |-> f, impact |-> i, equity |-> equity, lot |-> lot]}
        /\ answer' = {Proposal(f, s, i, equity, lot) : s \in {EvaluateRr(f)} \ {"none"}}

\* One look at the clock.
LookAtClock ==
    /\ input = {}
    /\ \E day \in 0 .. 6, minute \in Moments :
        /\ input' = {[kind |-> "clock", day |-> day, minute |-> minute]}
        /\ answer' = {c \in AssetClasses : IsMarketOpen(day, minute, c)}

\* The next case.
NextCase == input # {} /\ input' = {} /\ answer' = {}

RulesInit == input = {} /\ answer = {}
RulesNext == Decide \/ LookAtClock \/ NextCase
RulesSpec == RulesInit /\ [][RulesNext]_rulesVars

-------------------------------------------------------------------------------
(* Properties. *)

Signals == {x \in input : x.kind = "signal"}
Clocks  == {x \in input : x.kind = "clock"}

RulesTypeOK ==
    /\ Cardinality(input) <= 1
    /\ \A x \in Signals : \A p \in answer :
         /\ p.side \in {"BUY", "SELL"} /\ p.lots \in Nat \ {0} /\ p.backtest \in Nat
         /\ p.tp >= TpFloor /\ p.sl >= SlFloor
    /\ \A x \in Clocks : answer \subseteq AssetClasses

MirrorForecast(f) == [mfeLong |-> f.mfeShort, maeLong |-> f.maeShort,
                      mfeShort |-> f.mfeLong, maeShort |-> f.maeLong]

\* Longs and shorts are treated alike, but for equal ratios, which only a long may use;
\* and a side that qualifies is passed over only for a ratio at least as good.
SidesAreMirrored ==
    \A x \in Signals :
        LET f == x.forecast  g == MirrorForecast(f)
            tie == AtLeast(f, "BUY", "SELL") /\ AtLeast(f, "SELL", "BUY") IN
        /\ ~tie => /\ (EvaluateRr(f) = "BUY") = (EvaluateRr(g) = "SELL")
                   /\ (EvaluateRr(f) = "SELL") = (EvaluateRr(g) = "BUY")
        /\ tie => EvaluateRr(f) # "SELL"
        /\ Qualifies(f, "BUY") /\ answer = {} => AtLeast(f, "SELL", "BUY")
        /\ Qualifies(f, "SELL") /\ answer = {} => AtLeast(f, "BUY", "SELL")

\* With the thresholds of the service a target is always further away than the stop,
\* floors and buffers included.
RewardExceedsRisk == \A x \in Signals, p \in answer : p.tp > p.sl

\* The size is the largest that risk and leverage both allow, or one lot where they
\* allow none; a backtest trades the same size, or skips the trade of that one lot.
SizeIsLargestAllowed ==
    \A x \in Signals, p \in answer :
        LET risk(n) == n * p.sl * StepOf * x.lot * 1000 <= x.equity * RiskPermille
            notional(n) == n * x.lot * Price <= x.equity * Leverage IN
        /\ p.lots > 1 => risk(p.lots) /\ notional(p.lots)
        /\ ~(risk(p.lots + 1) /\ notional(p.lots + 1))
        /\ p.backtest # p.lots => p.backtest = 0 /\ p.lots = 1

\* "Side choice replicates rr_logic exactly", and the filter of the research is the
\* filter of the service.
ResearchAgrees ==
    \A x \in Signals :
        /\ Select(x.forecast) = {p.side : p \in answer}
        /\ \A p \in answer : p.include = p.keep

\* No class is open while shares are closed, a class that is not known counts as shares,
\* and nothing opens between Friday's close in Moscow and Monday's opening.
HoursAreNested ==
    \A x \in Clocks :
        /\ answer # {} => {"equity", "unknown"} \subseteq answer
        /\ answer \cap {"futures", "commodity", "currency"} # {} =>
               {"futures", "commodity", "currency"} \subseteq answer
        /\ answer # {} => LET since == x.day * MinutesOfDay + x.minute + Moscow IN
               since < 5 * MinutesOfDay \/ since >= 7 * MinutesOfDay

\* The rules against a reference, their mirror image and their copies.
RulesAgree ==
    /\ SidesAreMirrored
    /\ RewardExceedsRisk
    /\ SizeIsLargestAllowed
    /\ ResearchAgrees
    /\ HoursAreNested
===============================================================================
