------------------------------ MODULE Instruments ------------------------------
(***************************************************************************)
(* The names of instruments.  A news item names its tickers as the prompt  *)
(* asks for them, the contract of the enriched event turns old names into  *)
(* canonical ones, and from there each service looks the name up in a      *)
(* table of its own: a whitelist, the candles, the hours, the lots, the    *)
(* securities of QUIK.  The candles come the other way, from securities    *)
(* named by the script inside QUIK, whose tables are edited by hand when a *)
(* future expires.                                                         *)
(***************************************************************************)
EXTENDS Naturals, Sequences, SequencesExt, FiniteSets, Functions

CONSTANTS
    LlmNames,              \* names a language model may give
    Charts,             \* securities whose charts are open in QUIK
    MaxNamed            \* bound: names in an answer

ASSUME InstrumentsAssumption == MaxNamed \in Nat /\ IsFiniteSet(LlmNames) /\ IsFiniteSet(Charts)

VARIABLES
    codes,              \* candle_dump.lua: securities that are dumped
    keys,               \* candle_dump.lua: security |-> name
    priced,              \* tickers with a file of prices
    fed,                \* pairs (ticker, security): bars in the caches
    event,              \* the event on its way through the services
    places,               \* places of event.names the predictor has not reached
    leftAside,             \* tickers the predictor left aside, as not in its whitelist
    predicted,          \* predictions: ticker and place of its impact
    signals,            \* what the decision service sends
    orders              \* what the bridge opens

instrumentsVars == <<codes, keys, priced, fed, event, places, leftAside, predicted, signals, orders>>

-------------------------------------------------------------------------------
(* The registry. *)

StockTickers == {"SBER", "GAZP", "ROSN", "MTSS", "LKOH", "GMKN", "NVTK", "TATN", "MGNT", "PLZL",
             "YDEX", "VTBR"}
CanonicalTickers == StockTickers \cup {"MIX", "SI", "CNY", "BR", "NG", "GLDRUB", "USDRUB"}

Renamed == [YDEX |-> "YNDX", MIX |-> "MX", SI |-> "Si", GLDRUB |-> "GOLD"]

LegacyName(t) == IF t \in DOMAIN Renamed THEN Renamed[t] ELSE t

\* _self_check at import: an old name belongs to one instrument and is no canonical name.
SelfCheck == \A t, u \in CanonicalTickers : t # u => LegacyName(t) \notin {LegacyName(u), u}

LotSize(t) ==
    CASE t \in {"SBER", "GAZP", "ROSN", "MTSS"} -> 10
      [] t = "VTBR" -> 10000 [] t = "USDRUB" -> 1000 [] OTHER -> 1

Normalize(n) ==
    CASE n \in CanonicalTickers -> n
      [] n \notin CanonicalTickers /\ \E t \in CanonicalTickers : LegacyName(t) = n ->
            CHOOSE t \in CanonicalTickers : LegacyName(t) = n
      [] OTHER -> "unknown"

\* try_normalize_ticker(name) or name
CanonicalOr(n) == IF Normalize(n) = "unknown" THEN n ELSE Normalize(n)

-------------------------------------------------------------------------------
(* The tables of the services. *)

Prompted == {"SBER", "GAZP", "LKOH", "YNDX", "ROSN", "GMKN", "NVTK", "TATN", "MGNT", "MTSS",
             "PLZL", "VTBR", "Si", "MX", "BR", "NG", "GOLD", "CNY", "USDRUB"}
AllowedTickers == {"SBER", "GAZP", "LKOH", "YNDX", "ROSN", "GMKN", "NVTK", "TATN", "MGNT", "MTSS",
                   "PLZL", "VTBR", "Si", "MX", "BR", "NG", "GOLD", "CNY", "USDRUB"}
WhitelistTickers == {"YNDX", "GAZP", "NG", "BR", "PLZL", "GMKN", "TATN", "MGNT", "VTBR", "NVTK",
                     "ROSN", "LKOH"}
AcceptedTickers == {LegacyName(t) : t \in CanonicalTickers} \cup DOMAIN Renamed

Lots == [SBER |-> 10, GAZP |-> 10, ROSN |-> 10, MTSS |-> 10, VTBR |-> 10000, USDRUB |-> 1000]
TableLot(t) == IF t \in DOMAIN Lots THEN Lots[t] ELSE 1

\* A security: class and code.  QUIK names futures by month.
Share(t)  == <<"TQBR", t>>
Future(c) == <<"SPBFUT", c>>
Securities == {Share(t) : t \in StockTickers} \cup
              {Future("NGU6"), Future("BRU6"), Future("SiU6"), Future("MXU6"), Future("CRU6"),
               Future("GDU6"), <<"CETS", "USD000UTSTOM">>}
NameOf(s) ==
    CASE s = Future("NGU6") -> "NG" [] s = Future("BRU6") -> "BR" [] s = Future("SiU6") -> "Si"
      [] s = Future("MXU6") -> "MX" [] s = Future("CRU6") -> "CNY" [] s = Future("GDU6") -> "GOLD"
      [] s = <<"CETS", "USD000UTSTOM">> -> "USDRUB"
      [] OTHER -> LegacyName(s[2])

\* The security an order goes to; quik_class_codes and quik_sec_codes list the shares.
Codes(t) == <<"TQBR", t>>

\* What the exchange trades under a security.
Expiring == Future("NGU6")
Following == Future("NGV6")
Underlying(s) == IF s = Following THEN "NG" ELSE Normalize(NameOf(s))

-------------------------------------------------------------------------------
(* Candles: the script in QUIK, the feed, the caches. *)

\* The two edits of a roll, of which the second may be late or forgotten.
RollCode ==
    /\ Expiring \in codes
    /\ codes' = (codes \ {Expiring}) \cup {Following}
    /\ UNCHANGED <<keys, priced, fed, event, places, leftAside, predicted, signals, orders>>

RollKey ==
    /\ Expiring \in DOMAIN keys
    /\ keys' = [s \in (DOMAIN keys \ {Expiring}) \cup {Following} |->
                    IF s = Following THEN keys[Expiring] ELSE keys[s]]
    /\ UNCHANGED <<codes, priced, fed, event, places, leftAside, predicted, signals, orders>>

\* One bar: the row in the file, its name in the stream, the cache it enters.
DumpBar(s) ==
    /\ s \in codes \cap Charts
    /\ LET name == IF s \in DOMAIN keys THEN keys[s] ELSE s[2]
           ticker == CanonicalOr(name) IN
        /\ {name, ticker} \cap AcceptedTickers # {}
        /\ <<ticker, s>> \notin fed
        /\ fed' = fed \cup {<<ticker, s>>}
    /\ UNCHANGED <<codes, keys, priced, event, places, leftAside, predicted, signals, orders>>

HasCandles(t) == CanonicalOr(t) \in priced \cup {f[1] : f \in fed}

-------------------------------------------------------------------------------
(* An event: the model's answer, the contract, the predictor. *)

Sessions == {"early", "main", "other"}       \* 6:50-8:50, 10:00-18:40, the rest of the sessions
NamedTickers == UNION {[1 .. n -> LlmNames] : n \in 0 .. MaxNamed}

\* The names of the whitelist, in their order.
Kept(ns) ==
    LET at == {i \in DOMAIN ns : ns[i] \in AllowedTickers}
        s == CHOOSE s \in Bijection(1 .. Cardinality(at), at) : \A i, j \in DOMAIN s : i < j => s[i] < s[j]
    IN [k \in DOMAIN s |-> ns[s[k]]]

\* validate_whitelist may be off; then the contract alone looks at the names.
Analyse(ns, checked, moment) ==
    LET kept == IF checked THEN Kept(ns) ELSE ns
        ends == IF \E n \in ToSet(kept) : Normalize(n) = "unknown" THEN "schema_violation"
                ELSE IF kept = <<>> THEN "empty_financial" ELSE "enriched" IN
    /\ event.state = "raw"
    /\ event' = [state |-> ends, moment |-> moment, dropped |-> ToSet(ns) \ ToSet(kept),
                 names |-> IF ends = "enriched" THEN [i \in DOMAIN kept |-> Normalize(kept[i])]
                           ELSE <<>>]
    /\ places' = [i \in DOMAIN event'.names |-> i]
    /\ UNCHANGED <<codes, keys, priced, fed, leftAside, predicted, signals, orders>>

\* The predictor claims event and ticker: the second place of a name is skipped.
Claimed(t, i) == \E j \in DOMAIN event.names : j < i /\ event.names[j] = t /\ t \in WhitelistTickers

PredictorStep(t, i) == places # <<>> /\ i = Head(places) /\ t = event.names[i] /\ places' = Tail(places)

SkipOffWhitelist(t, i) ==
    /\ PredictorStep(t, i) /\ t \notin WhitelistTickers
    /\ leftAside' = leftAside \cup {t}
    /\ UNCHANGED <<codes, keys, priced, fed, event, predicted, signals, orders>>

\* A claimed name, or one without candles: to the dead letters, if anywhere.
LeaveTicker(t, i) ==
    /\ PredictorStep(t, i) /\ t \in WhitelistTickers
    /\ Claimed(t, i) \/ ~HasCandles(t)
    /\ UNCHANGED <<codes, keys, priced, fed, event, leftAside, predicted, signals, orders>>

PredictTicker(t, i) ==
    /\ PredictorStep(t, i) /\ t \in WhitelistTickers /\ ~Claimed(t, i) /\ HasCandles(t)
    /\ predicted' = predicted \cup {[ticker |-> t, impact |-> i]}
    /\ UNCHANGED <<codes, keys, priced, fed, event, leftAside, signals, orders>>

-------------------------------------------------------------------------------
(* The decision service and the bridge. *)

SharesOnlyEarly(t, moment) == moment # "early" \/ t \in StockTickers

\* The direction filter looks at the first impact of the ticker.
LastImpact(t) == CHOOSE i \in DOMAIN event.names :
    event.names[i] = t /\ \A j \in DOMAIN event.names : event.names[j] = t => j <= i
TickerImpact(t) == CHOOSE i \in DOMAIN event.names :
    event.names[i] = t /\ \A j \in DOMAIN event.names : event.names[j] = t => i <= j

DecideOn(p) ==
    /\ p \in predicted /\ SharesOnlyEarly(p.ticker, event.moment)
    /\ \A s \in signals : s.ticker # p.ticker
    /\ signals' = signals \cup {[ticker |-> p.ticker, impact |-> p.impact,
                                 filtered |-> TickerImpact(p.ticker), lot |-> TableLot(p.ticker)]}
    /\ UNCHANGED <<codes, keys, priced, fed, event, places, leftAside, predicted, orders>>

\* Paper: a fill at the candles.  Real: an order to QUIK, in the main session of shares.
Open(s, mode) ==
    /\ s \in signals /\ \A o \in orders : o.signal # s
    /\ IF mode = "paper" THEN HasCandles(s.ticker) ELSE event.moment = "main"
    /\ orders' = orders \cup {[signal |-> s, mode |-> mode, lot |-> TableLot(s.ticker),
                               security |-> Codes(s.ticker)]}
    /\ UNCHANGED <<codes, keys, priced, fed, event, places, leftAside, predicted, signals>>

-------------------------------------------------------------------------------

InstrumentsInit ==
    /\ codes = Securities /\ keys = [s \in Securities |-> NameOf(s)]
    /\ priced \in {CanonicalTickers, CanonicalTickers \ {"NG"}}
    /\ fed = {} /\ places = <<>> /\ leftAside = {} /\ predicted = {} /\ signals = {} /\ orders = {}
    /\ event = [state |-> "raw", moment |-> "main", names |-> <<>>, dropped |-> {}]

PredictorHandles == \E i \in ToSet(places) : LET t == event.names[i] IN
                 SkipOffWhitelist(t, i) \/ LeaveTicker(t, i) \/ PredictTicker(t, i)

InstrumentsNext ==
    \/ RollCode \/ RollKey \/ \E s \in codes : DumpBar(s)
    \/ \E ns \in NamedTickers, checked \in BOOLEAN, m \in Sessions : Analyse(ns, checked, m)
    \/ PredictorHandles
    \/ \E p \in predicted : DecideOn(p)
    \/ \E s \in signals, mode \in {"paper", "real"} : Open(s, mode)

InstrumentsSpec == InstrumentsInit /\ [][InstrumentsNext]_instrumentsVars

-------------------------------------------------------------------------------
(* Properties. *)

InstrumentsTypeOK ==
    /\ codes \cup DOMAIN keys \subseteq Securities \cup {Following}
    /\ priced \subseteq CanonicalTickers /\ fed \subseteq CanonicalTickers \X (Securities \cup {Following})
    /\ event.state \in {"raw", "enriched", "schema_violation", "empty_financial"}
    /\ ToSet(event.names) \cup leftAside \subseteq CanonicalTickers /\ event.moment \in Sessions
    /\ ToSet(places) \subseteq DOMAIN event.names
    /\ \A x \in predicted \cup signals : x.ticker \in ToSet(event.names)
    /\ {o.signal : o \in orders} \subseteq signals

\* Bars enter the cache of the instrument that was traded, whatever was edited and in whatever
\* order: a contract whose name was forgotten enters none.
BarsAreOfTheirInstrument == \A f \in fed : f[1] = Underlying(f[2])

\* A name the prompt asks for is not dropped, and what the whitelist leaves the contract knows.
NamesArePassedOn ==
    event.dropped \cap Prompted = {} /\ (event.dropped # {} => event.state # "schema_violation")

\* An instrument is traded once for an event, in the direction of the impact that was predicted
\* from, in lots on which decision, bridge and registry agree; an order for a share goes to the
\* security whose candles were looked at.
OrdersAreForTheirInstrument ==
    \A o \in orders : LET t == o.signal.ticker IN
        /\ \A p \in orders : p.signal.ticker = t => p = o
        /\ o.signal.impact = o.signal.filtered
        /\ o.lot = o.signal.lot /\ o.lot = LotSize(t)
        /\ t \in StockTickers => Underlying(o.security) = t /\ o.security \in codes

\* Of the instruments the whitelist lists, the predictor passes over no other than Yandex, which
\* is listed by a name the contract has replaced (docs/SPRINT5_COMMIT_5_1_DONE.md:52 names it too).
ListedIsTraded == leftAside \cap {Normalize(n) : n \in WhitelistTickers} \subseteq {"YDEX"}

InstrumentsAreKept ==
    /\ SelfCheck /\ BarsAreOfTheirInstrument /\ NamesArePassedOn /\ OrdersAreForTheirInstrument
    /\ ListedIsTraded
===============================================================================
