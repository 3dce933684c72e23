--------------------------------- MODULE Costs ---------------------------------
(***************************************************************************)
(* What a trade costs (scripts/costs_sber.py), written twice: for one      *)
(* trade (round_trip_cost_rub) and for all trades selected by a test at    *)
(* once (apply_costs_v2), where the turnover of each day and section of    *)
(* the market decides on the rate.  Money is in units of 100 000 rubles,   *)
(* rates are in millionths.                                                *)
(***************************************************************************)
EXTENDS Integers, Sequences, FiniteSets, FiniteSetsExt, SequencesExt

CONSTANTS
    Notionals, LastDay, \* sizes of trades; days are 0..LastDay
    ExitReasons,            \* of exits that have a time
    Equity,             \* equity_rub
    LoanStep,           \* loans above it have the lower rate: ten million
    MaxSelected         \* bound

ASSUME CostsAssumption ==
    /\ ExitReasons \subseteq {"tp", "sl", "time", "kill"} /\ Notionals \subseteq Nat \ {0} /\ {LastDay, Equity, LoanStep, MaxSelected} \subseteq Nat

VARIABLES
    selected            \* the trades a test has selected

costsVars == <<selected>>

-------------------------------------------------------------------------------
(* The tariff. *)

Sections == {"stock", "currency", "metal", "futures"}
NoExit == LastDay + 1   \* the bar of the exit has no time

LegRate(section, turnover) ==
    CASE section = "futures"  -> 150
      [] section = "metal"    -> 6000
      [] section = "currency" -> IF turnover <= 1000 THEN 2000 ELSE 200
      [] section = "stock"    -> IF turnover <= 10 THEN 600 ELSE IF turnover <= 500 THEN 350 ELSE 180

CheapestRate(section) ==
    CASE section = "futures" -> 150 [] section = "metal" -> 6000
      [] section = "currency" -> 200 [] section = "stock" -> 180

ExchangeRate  == [s \in Sections |-> IF s = "stock" THEN 100 ELSE IF s = "currency" THEN 15
                                     ELSE IF s = "metal" THEN 0 ELSE 10]
SlippageRate  == [s \in Sections |-> IF s \in {"stock", "futures"} THEN 250 ELSE 500]
ExitMultiple  == [r \in {"tp", "sl", "time", "kill", "no_bars"} |->
                    IF r = "tp" THEN 0 ELSE IF r = "sl" THEN 2 ELSE 1]

\* Of a night: 20% a year for a loan of money, 19.5% above LoanStep, 13% for one of shares,
\* and 0.0045% for the transfer.
LongNight == 593
LongNightAbove == 579
ShortNight == 401

Exchange(t) == 2 * t.notional * ExchangeRate[t.section]
Slippage(t) == t.notional * SlippageRate[t.section] * (1 + ExitMultiple[t.reason])

-------------------------------------------------------------------------------
(* round_trip_cost_rub. *)

\* max(0, exit - entry); a trade without a time of exit has no night.
Nights(t) == IF t.exit = NoExit THEN 0 ELSE Max({0, t.exit - t.entry})

FundingOfOne(t, borrowed) ==
    IF t.side = "SELL" THEN t.notional * ShortNight * Nights(t)
    ELSE borrowed * (IF borrowed <= LoanStep THEN LongNight ELSE LongNightAbove) * Nights(t)

CostOfOne(t, turnover, borrowed) ==
    2 * t.notional * LegRate(t.section, turnover) + Exchange(t) + Slippage(t) + FundingOfOne(t, borrowed)

-------------------------------------------------------------------------------
(* apply_costs_v2. *)

Borrowed(t) == IF t.side = "SELL" THEN t.notional ELSE Max({0, t.notional - Equity})

FundingOfAll(t) ==
    IF t.section = "futures" THEN 0
    ELSE Borrowed(t) * (IF t.side = "SELL" THEN ShortNight ELSE LongNight) * Nights(t)

\* What one trade adds to the turnover of a day and a section: both its legs.
LegsOn(t, day, section) ==
    IF t.section # section THEN 0
    ELSE (IF t.entry = day THEN t.notional ELSE 0) + (IF t.exit = day THEN t.notional ELSE 0)

\* The legs of all trades, by their day and section.
Turnover(trades, day, section) ==
    LET upTo[n \in 0 .. Len(trades)] ==
            IF n = 0 THEN 0 ELSE upTo[n - 1] + LegsOn(trades[n], day, section)
    IN upTo[Len(trades)]

\* A leg without a day has no turnover, which is in no tier but the last.
RateOfLeg(trades, section, day) ==
    IF day = NoExit THEN CheapestRate(section) ELSE LegRate(section, Turnover(trades, day, section))

Brokerage(trades, t) ==
    t.notional * (RateOfLeg(trades, t.section, t.entry) + RateOfLeg(trades, t.section, t.exit))

CostOfAll(trades, t) == Brokerage(trades, t) + Exchange(t) + Slippage(t) + FundingOfAll(t)

-------------------------------------------------------------------------------
\* A trade goes out on the day it comes in, or the next, or it is never known to.
TradeCases == {t \in [section: Sections, side: {"BUY", "SELL"}, notional: Notionals,
                  entry: 0..LastDay, exit: 0..NoExit, reason: ExitReasons \cup {"no_bars"}] :
              /\ t.exit >= t.entry
              /\ t.exit = NoExit <=> t.reason = "no_bars"}

CostsInit == selected = <<>>

SelectTrade ==
    /\ Len(selected) < MaxSelected
    /\ \E t \in TradeCases : selected' = Append(selected, t)

CostsNext == SelectTrade

CostsSpec == CostsInit /\ [][CostsNext]_costsVars

-------------------------------------------------------------------------------
CostsTypeOK == Len(selected) <= MaxSelected /\ ToSet(selected) \subseteq TradeCases

\* Differences the two ways of reckoning are meant to have, or have.
SameTier(t) == RateOfLeg(selected, t.section, t.entry) = RateOfLeg(selected, t.section, t.exit)
FuturesNight(t) == t.section = "futures" /\ Nights(t) > 0
LoanAboveStep(t) == t.side = "BUY" /\ Borrowed(t) > LoanStep /\ Nights(t) > 0

\* With the turnover of its day the one trade costs what it costs among all; it costs more
\* among all only by the rate of a great loan or of a day with less turnover, and less only by
\* the nights of a future, by a day of more turnover or by an exit without a time.
ReckonedAlike ==
    \A i \in DOMAIN selected :
        LET t   == selected[i]
            one == CostOfOne(t, Turnover(selected, t.entry, t.section), Borrowed(t))
            all == CostOfAll(selected, t)
        IN /\ SameTier(t) /\ ~FuturesNight(t) /\ ~LoanAboveStep(t) => one = all
           /\ all > one => \/ LoanAboveStep(t)
                           \/ t.exit # NoExit /\ Turnover(selected, t.exit, t.section)
                                                   < Turnover(selected, t.entry, t.section)
           /\ all < one => \/ FuturesNight(t) \/ t.exit = NoExit
                           \/ Turnover(selected, t.exit, t.section)
                                > Turnover(selected, t.entry, t.section)

\* A trade that is alone and over within the day needs no turnover given
\* (day_turnover_rub=None: "the only trade that day").
AloneOnItsDay ==
    \A i \in DOMAIN selected :
        LET t == selected[i]
        IN t.exit = t.entry => CostOfOne(t, 2 * t.notional, Borrowed(t)) = CostOfAll(<<t>>, t)

\* A trade more makes none of the others dearer.
MoreIsNotDearer ==
    \A k \in 0..Len(selected) : \A i \in 1..k :
        CostOfAll(selected, selected[i]) <= CostOfAll(SubSeq(selected, 1, k), selected[i])

CostsAgree == ReckonedAlike /\ AloneOnItsDay /\ MoreIsNotDearer
===============================================================================
