------------------------------ MODULE WindowReplay ------------------------------
(***************************************************************************)
(* scripts/replay_vps_window_backtest.py: the enriched news of a window    *)
(* once more through the live predictor and the live decision, with stubs  *)
(* for whatever needs Redis, and the signals through a simulation.         *)
(*                                                                         *)
(* One run of the script has one filter (B_filter as it is, strict, or     *)
(* none) and a blacklist or none.  All runs, the arms, are made here side  *)
(* by side over the same file; what a model predicts is any function of    *)
(* the features, the same one for all arms.                                *)
(***************************************************************************)
EXTENDS Integers, Sequences, FiniteSets, FiniteSetsExt, SequencesExt

CONSTANTS
    ReplayFiles,        \* files: sequences of events, some of which may be no event
    ReplayTickers,      \* with a model and prices
    Blacklist,
    HistoryHours,       \* lookback of the news history and the 86400 s of its features
    SureEnough          \* direction_filter_min_confidence

\* An event: when the news was published and when it came out of the enricher.
ReplayImpact == [ticker: STRING, direction: STRING, sure: Nat]
ReplayNews   == [valid: BOOLEAN, at: Nat, made: Nat, financial: BOOLEAN, impacts: Seq(ReplayImpact)]

ASSUME WindowReplayAssumption ==
    /\ Blacklist \subseteq ReplayTickers /\ ReplayTickers \subseteq STRING
    /\ HistoryHours \in Nat \ {0} /\ SureEnough \in Nat
    \* The enricher works on news that are out.
    /\ \A file \in ReplayFiles : file \in Seq(ReplayNews) /\ \A i \in DOMAIN file : file[i].at <= file[i].made

VARIABLES
    replayFile,
    replayed,           \* the news in the order of the loop; empty before they are loaded
    position,           \* news handled so far
    histories,          \* per blacklist: the news history, in the order of its appends
    predictions,        \* per blacklist: pred_pub.collected
    decided,            \* per arm: one answer of the decision for each prediction
    fills,              \* per arm: paper trades and signals without bars
    replayDone          \* "no", "report", "failed"

windowReplayVars == <<replayFile, replayed, position, histories, predictions, decided, fills,
                      replayDone>>

Filters == {"none", "lenient", "strict"}
Arms == [filter : Filters, listed : BOOLEAN]

\* What the decision and the simulation may say of a prediction.
Refusals == {"stale", "market", "rr", "direction"}

WindowReplayTypeOK ==
    /\ replayFile \in ReplayFiles /\ position \in 0 .. Len(replayed)
    /\ replayDone \in {"no", "report", "failed"}
    /\ \A l \in BOOLEAN : Len(histories[l]) = position
    /\ \A a \in Arms :
        /\ Len(decided[a]) = Len(predictions[a.listed])
        /\ ToSet(decided[a]) \subseteq Refusals \cup {"execute"}
        /\ fills[a].trades \in Nat /\ fills[a].without \in Nat

WindowReplayInit ==
    /\ replayFile \in ReplayFiles
    /\ replayed = <<>> /\ position = 0
    /\ histories = [l \in BOOLEAN |-> <<>>] /\ predictions = [l \in BOOLEAN |-> <<>>]
    /\ decided = [a \in Arms |-> <<>>]
    /\ fills = [a \in Arms |-> [trades |-> 0, without |-> 0]]
    /\ replayDone = "no"

-------------------------------------------------------------------------------
(* The input. *)

\* What a sequence has at some positions, in its order.
PartAt(s, P) ==
    LET order == CHOOSE f \in Bijection(1 .. Cardinality(P), P) : \A i, j \in DOMAIN f : i < j => f[i] < f[j]
    IN [i \in DOMAIN order |-> s[order[i]]]

\* load_enriched_events: a line that is no event is skipped.
LoadedEvents(file) == PartAt(file, {i \in DOMAIN file : file[i].valid})

\* events.sort(key=event_news_time_utc), which keeps the order of equals.
ByNewsTime(events) ==
    LET before(i, j) == events[i].at < events[j].at \/ (events[i].at = events[j].at /\ i < j)
        order == CHOOSE f \in [DOMAIN events -> DOMAIN events] :
                     \A i, j \in DOMAIN events : i < j => before(f[i], f[j])
    IN [i \in DOMAIN events |-> events[order[i]]]

LoadWindow ==
    /\ replayDone = "no" /\ replayed = <<>>
    /\ LET events == LoadedEvents(replayFile) IN
       IF events = <<>> THEN replayDone' = "failed" /\ UNCHANGED replayed
                        ELSE replayed' = ByNewsTime(events) /\ UNCHANGED replayDone
    /\ UNCHANGED <<replayFile, position, histories, predictions, decided, fills>>

-------------------------------------------------------------------------------
(* The stubs and the live pipelines between them. *)

\* The blacklist takes the impacts out of the event, before the cache and the predictor.
Stripped(news, isListed) ==
    IF isListed
    THEN [news EXCEPT !.impacts = PartAt(@, {i \in DOMAIN @ : @[i].ticker \notin Blacklist})]
    ELSE news

Mentions(news, ticker) == \E i \in DOMAIN news.impacts : news.impacts[i].ticker = ticker

\* NewsHistory.append and for_ticker, as build_features counts them for a news: by when
\* they came out of the enricher, up to the time the news was published.  A news is named
\* by its turn in the loop.  (One that names the ticker twice is in the list twice; here
\* it is once.)
PastOf(history, news, ticker) ==
    {j \in DOMAIN history : /\ Mentions(history[j], ticker)
                            /\ news.at - history[j].made \in 1 .. HistoryHours}

\* PredictorPipeline.process with a guard that always grants the claim: a prediction for
\* every impact with a model, a ticker named twice predicted twice.
PredictionsFor(news, history, quoted) ==
    LET known == PartAt(news.impacts, {i \in DOMAIN news.impacts : news.impacts[i].ticker \in quoted}) IN
    IF ~news.financial THEN <<>>
    ELSE [i \in DOMAIN known |->
            [news |-> Len(history), ticker |-> known[i].ticker,
             named |-> Len(news.impacts), past |-> PastOf(history, news, known[i].ticker)]]

ImpactFor(news, ticker) ==
    news.impacts[Min({i \in DOMAIN news.impacts : news.impacts[i].ticker = ticker})]

\* apply_direction_filter, and what the script puts in its place.
Passes(filter, news, ticker, side) ==
    LET impact == ImpactFor(news, ticker)
        agrees == impact.direction = side /\ impact.sure >= SureEnough IN
    CASE filter = "none" -> TRUE
      [] filter = "lenient" -> impact.direction = "neutral" \/ agrees
      [] filter = "strict" -> agrees

\* DecisionPipeline.process with a risk manager that refuses nothing.
DecideInReplay(arm, news, p, side, gate) ==
    CASE gate # "open" -> gate
      [] gate = "open" /\ side = "none" -> "rr"
      [] OTHER -> IF Passes(arm.filter, news, p.ticker, side) THEN "execute" ELSE "direction"

\* One turn of the loop.  The minute bars and the hours decide which tickers have a price
\* and whether the gates are open, the models which side a vector of features speaks for.
ReplayEvent ==
    /\ replayDone = "no" /\ position < Len(replayed)
    /\ \E quoted \in {ReplayTickers, ReplayTickers \ Blacklist}, gate \in {"open", "market", "stale"} :
       LET event(l) == Stripped(replayed[position + 1], l)
           grown == [l \in BOOLEAN |-> Append(histories[l], event(l))]
           new == [l \in BOOLEAN |-> PredictionsFor(event(l), grown[l], quoted)]
           vectors == ToSet(new[TRUE]) \cup ToSet(new[FALSE])
       IN /\ histories' = grown
          /\ predictions' = [l \in BOOLEAN |-> predictions[l] \o new[l]]
          /\ \E side \in [vectors -> {"long", "short", "none"}] :
                decided' = [a \in Arms |-> decided[a] \o
                    [i \in DOMAIN new[a.listed] |->
                        DecideInReplay(a, event(a.listed), new[a.listed][i], side[new[a.listed][i]], gate)]]
    /\ position' = position + 1
    /\ UNCHANGED <<replayFile, replayed, fills, replayDone>>

\* PredictionRetryable has nobody to retry it: the script ends without a report.
InferenceFailsInReplay ==
    /\ replayDone = "no" /\ position < Len(replayed)
    /\ replayed[position + 1].financial /\ replayed[position + 1].impacts # <<>>
    /\ replayDone' = "failed"
    /\ UNCHANGED <<replayFile, replayed, position, histories, predictions, decided, fills>>

Executed(arm) == {i \in DOMAIN decided[arm] : decided[arm][i] = "execute"}

\* simulate_paper_fills: one after the other, each by itself.  A ticker without bars is
\* counted; a simulation that fails is not.
SimulateFills ==
    /\ replayDone = "no" /\ replayed # <<>> /\ position = Len(replayed)
    /\ \E unfilled, broken \in SUBSET ReplayTickers :
        fills' = [a \in Arms |->
            LET of(T) == {i \in Executed(a) : predictions[a.listed][i].ticker \in T} IN
            [trades |-> Cardinality(of(ReplayTickers \ (unfilled \cup broken))),
             without |-> Cardinality(of(unfilled))]]
    /\ replayDone' = "report"
    /\ UNCHANGED <<replayFile, replayed, position, histories, predictions, decided>>

\* The counters that aggregate takes the rate of the filter from.
CountOf(arm, answer) == Cardinality({i \in DOMAIN decided[arm] : decided[arm][i] = answer})
PostRrUniverse(arm) ==
    Len(predictions[arm.listed]) - CountOf(arm, "rr") - CountOf(arm, "market") - CountOf(arm, "stale")

WindowReplayNext == LoadWindow \/ ReplayEvent \/ InferenceFailsInReplay \/ SimulateFills

WindowReplaySpec == WindowReplayInit /\ [][WindowReplayNext]_windowReplayVars

-------------------------------------------------------------------------------
(* Properties. *)

\* What one filter lets through, a weaker one does too, prediction by prediction: the
\* arms A1 and A4 differ from the current filter in nothing else.
FiltersAreNested ==
    \A l \in BOOLEAN :
        LET through(f) == Executed([filter |-> f, listed |-> l]) IN
        through("strict") \subseteq through("lenient") /\ through("lenient") \subseteq through("none")

\* The blacklist changes nothing for news that do not name a ticker of it: neither their
\* predictions nor the news that are counted for them.
Untouched == {i \in DOMAIN replayed : Stripped(replayed[i], TRUE) = replayed[i]}
Left(l) == {i \in DOMAIN predictions[l] : predictions[l][i].news \in Untouched}

\* Two sequences have the same at some positions of theirs, in the same order.
SameAt(s, P, t, Q) ==
    \E f \in Bijection(P, Q) : /\ \A i, j \in P : i < j => f[i] < f[j]
                               /\ \A i \in P : t[f[i]] = s[i]

BlacklistIsLocal ==
    /\ \A i \in DOMAIN predictions[TRUE] : predictions[TRUE][i].ticker \notin Blacklist
    /\ SameAt(predictions[TRUE], Left(TRUE), predictions[FALSE], Left(FALSE))

\* The replay counts the news that the predictor counted when it was running: those that
\* had come out of the enricher, whenever that was handled.
HistoryIsAsLive ==
    \A i \in DOMAIN predictions[FALSE] :
        LET p == predictions[FALSE][i]  news == replayed[p.news] IN
        p.past = {j \in DOMAIN replayed : /\ Mentions(replayed[j], p.ticker) /\ replayed[j].made < news.made
                                          /\ news.at - replayed[j].made \in 1 .. HistoryHours}

\* aggregate: every prediction is counted once, nothing is left for "other" rejects, and
\* the filter has not refused more than it was asked.
CountsAddUp ==
    \A a \in Arms :
        /\ CountOf(a, "direction") + CountOf(a, "execute") = PostRrUniverse(a)
        /\ fills[a].trades + fills[a].without <= CountOf(a, "execute")

ReplayIsHonest ==
    /\ FiltersAreNested
    /\ BlacklistIsLocal
    /\ HistoryIsAsLive
    /\ CountsAddUp
===============================================================================
