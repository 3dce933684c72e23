------------------------------- MODULE Predictor -------------------------------
(***************************************************************************)
(* From enriched news to predictions (services/predictor/pipeline.py):    *)
(* the predictor appends each event to its news history and handles its    *)
(* tickers one by one, each under a claim of its own.                      *)
(*                                                                         *)
(* The predictor has one consumer and no reclaimer: a failing handler      *)
(* leaves the event to the next start of the process.                      *)
(***************************************************************************)
EXTENDS Integers, Sequences, FiniteSets, SequencesExt

CONSTANTS
    Whitelist, Off,     \* tickers with and without a model
    Inputs,             \* news: [tickers, financial]
    MaxEvents,          \* bound: events in news:enriched
    MaxMishaps          \* bound: failing commands, inference errors and crashes

ASSUME PredictorAssumption ==
    /\ Off \notin Whitelist
    /\ {MaxEvents, MaxMishaps} \subseteq Nat
    /\ \A x \in Inputs : /\ x.financial \in BOOLEAN
                         /\ x.tickers \in Seq(Whitelist \cup {Off})

Ids == 1 .. MaxEvents

VARIABLES
    events,             \* news:enriched
    at, cur, k,         \* predictor: step, event in hand, its ticker
    unread, pel, todo,  \* consumer group; pending events to replay
    claims,             \* idempotency keys <event>:<ticker>
    history,            \* NewsHistory: copies of each event
    booted,             \* events the bootstrap of this process found
    outputs,            \* predictions and DLQ records of an event and ticker
    gone,               \* gated as stale, by event and ticker
    failed,             \* history: events a handler failed or died on
    cut,                \* history: tickers a command or the process failed on after the claim
    erred,              \* history: tickers whose features or inference raised
    mishaps

streamVars    == <<events, unread, pel>>
predictorVars == <<streamVars, at, cur, k, todo, claims, history, booted, outputs,
                   gone, failed, cut, erred, mishaps>>

ClaimKeys == Ids \X Whitelist

PredictorTypeOK ==
    /\ events \in Seq(Inputs) /\ Len(events) <= MaxEvents
    /\ at \in {"down", "pel", "idle", "handle", "ticker", "predict", "ack"}
    /\ cur \in 0 .. Len(events) /\ k \in Nat
    /\ unread \in 1 .. Len(events) + 1
    /\ pel \subseteq 1 .. unread - 1 /\ todo \subseteq pel
    /\ (cur # 0) = (at \in {"handle", "ticker", "predict", "ack"})
    /\ claims \subseteq ClaimKeys /\ gone \subseteq claims
    /\ history \in [Ids -> Nat] /\ booted \in 0 .. Len(events)
    /\ outputs \in [ClaimKeys -> Nat] /\ cut \subseteq claims /\ erred \subseteq claims
    /\ mishaps \in 0 .. MaxMishaps

PredictorInit ==
    /\ events = <<>>
    /\ at = "down" /\ cur = 0 /\ k = 0
    /\ unread = 1 /\ pel = {} /\ todo = {}
    /\ claims = {} /\ history = [e \in Ids |-> 0] /\ booted = 0
    /\ outputs = [key \in ClaimKeys |-> 0] /\ gone = {} /\ failed = {} /\ cut = {} /\ erred = {}
    /\ mishaps = 0

Mishap == mishaps < MaxMishaps /\ mishaps' = mishaps + 1
Fine   == UNCHANGED mishaps

\* The enricher publishes an event.
EnrichedPublished ==
    /\ Len(events) < MaxEvents
    /\ \E x \in Inputs : events' = Append(events, x)
    /\ UNCHANGED <<unread, pel, at, cur, k, todo, claims, history, booted, outputs, gone, failed, cut, erred, mishaps>>

-------------------------------------------------------------------------------
(* The predictor: start. *)

\* NewsHistory.bootstrap reads the last day of the stream; a failure is swallowed.
Bootstrap ==
    /\ at = "down"
    /\ at' = "pel" /\ booted' = Len(events)
    /\ \/ history' = [e \in Ids |-> IF e <= Len(events) THEN 1 ELSE 0] /\ Fine
       \/ history' = [e \in Ids |-> 0] /\ Mishap
    /\ UNCHANGED <<streamVars, cur, k, todo, claims, outputs, gone, failed, cut, erred>>

RecoverPending ==
    /\ at = "pel"
    /\ at' = "idle"
    /\ \/ todo' = pel /\ Fine
       \/ todo' = {} /\ Mishap
    /\ UNCHANGED <<streamVars, cur, k, claims, history, booted, outputs, gone, failed, cut, erred>>

(* The predictor: one event. *)

Take(e) == at' = "handle" /\ cur' = e

NextEvent ==
    /\ at = "idle"
    /\ \/ /\ todo # {} /\ Take(Min(todo)) /\ todo' = todo \ {Min(todo)}
          /\ UNCHANGED <<unread, pel>>
       \/ /\ todo = {} /\ unread <= Len(events) /\ Take(unread)
          /\ unread' = unread + 1 /\ pel' = pel \cup {unread} /\ UNCHANGED todo
    /\ UNCHANGED <<events, k, claims, history, booted, outputs, gone, failed, cut, erred, mishaps>>

Tickers == events[cur].tickers

\* The history gets the event before any gate, on a replay too.
Handle ==
    /\ at = "handle"
    /\ history' = [history EXCEPT ![cur] = @ + 1]
    /\ IF events[cur].financial /\ Tickers # <<>> THEN at' = "ticker" /\ k' = 1
                                                  ELSE at' = "ack" /\ k' = 0
    /\ UNCHANGED <<streamVars, cur, todo, claims, booted, outputs, gone, failed, cut, erred, mishaps>>

NextTicker == IF k < Len(Tickers) THEN at' = "ticker" /\ k' = k + 1
                                  ELSE at' = "ack" /\ k' = 0

\* The handler raises: the event stays pending.
Fails == at' = "idle" /\ cur' = 0 /\ k' = 0 /\ failed' = failed \cup {cur} /\ Mishap

Key == <<cur, Tickers[k]>>

OffWhitelist ==
    /\ at = "ticker" /\ Tickers[k] \notin Whitelist
    /\ NextTicker
    /\ UNCHANGED <<streamVars, cur, todo, claims, history, booted, outputs, gone, failed, cut, erred, mishaps>>

\* SET NX of <event>:<ticker>; it may raise, applied or not.  A claim that is there stays:
\* a replay passes over the ticker, whatever became of it.
ClaimTicker ==
    /\ at = "ticker" /\ Tickers[k] \in Whitelist
    /\ \/ Key \notin claims /\ claims' = claims \cup {Key} /\ at' = "predict"
          /\ UNCHANGED <<cur, k, failed, cut>> /\ Fine
       \/ Key \in claims /\ NextTicker /\ UNCHANGED <<claims, cur, failed, cut>> /\ Fine
       \/ claims' \in {claims, claims \cup {Key}} /\ cut' = cut \cup (claims' \ claims) /\ Fails
    /\ UNCHANGED <<streamVars, todo, history, booted, outputs, gone, erred>>

\* Mutant: a ticker gated as stale ends the whole event.
StaleEndsEvent ==
    /\ at = "predict"
    /\ at' = "ack" /\ k' = 0 /\ gone' = gone \cup {Key}
    /\ UNCHANGED <<streamVars, cur, todo, claims, history, booted, outputs, failed, cut, erred, mishaps>>

\* The last bar at the time of the news is too old: no prediction, no record.
StaleCandles ==
    /\ at = "predict"
    /\ NextTicker /\ gone' = gone \cup {Key}
    /\ UNCHANGED <<streamVars, cur, todo, claims, history, booted, outputs, failed, cut, erred, mishaps>>

\* Features or inference raise PredictionRetryable: the event stays pending, the claim too.
InferenceFails ==
    /\ at = "predict" /\ Fails
    /\ erred' = erred \cup {Key}
    /\ UNCHANGED <<streamVars, todo, claims, history, booted, outputs, gone, cut>>

\* One XADD: of the prediction, or of a DLQ record when there are no candles of the ticker.
Publish ==
    /\ at = "predict"
    /\ \/ /\ outputs' = [outputs EXCEPT ![Key] = @ + 1] /\ UNCHANGED cut
          /\ \/ NextTicker /\ UNCHANGED <<cur, failed>> /\ Fine
             \/ Fails
       \/ Fails /\ UNCHANGED outputs /\ cut' = cut \cup {Key}
    /\ UNCHANGED <<streamVars, todo, claims, history, booted, gone, erred>>

AckEvent ==
    /\ at = "ack"
    /\ \/ pel' = pel \ {cur} /\ UNCHANGED failed /\ Fine
       \/ UNCHANGED pel /\ failed' = failed \cup {cur} /\ Mishap
    /\ at' = "idle" /\ cur' = 0
    /\ UNCHANGED <<events, unread, k, todo, claims, history, booted, outputs, gone, cut, erred>>

\* The process ends, and what it knew with it.
PredictorDies ==
    /\ at # "down" /\ Mishap
    /\ at' = "down" /\ cur' = 0 /\ k' = 0 /\ todo' = {}
    /\ history' = [e \in Ids |-> 0] /\ booted' = 0
    /\ failed' = failed \cup (IF cur = 0 THEN {} ELSE {cur})
    /\ cut' = cut \cup (IF at = "predict" THEN {Key} ELSE {})
    /\ UNCHANGED <<streamVars, claims, outputs, gone, erred>>

Consumer == \/ Bootstrap \/ RecoverPending \/ NextEvent \/ Handle \/ OffWhitelist
            \/ ClaimTicker \/ StaleCandles \/ InferenceFails \/ Publish \/ AckEvent

PredictorNext ==
    \/ EnrichedPublished
    \/ Consumer
    \/ PredictorDies

PredictorSpec == PredictorInit /\ [][PredictorNext]_predictorVars

\* The consumer task runs.
FairPredictorSpec == PredictorSpec /\ WF_predictorVars(Consumer)

-------------------------------------------------------------------------------
(* Properties. *)

Acked(e) == e < unread /\ e \notin pel

\* Predictions and DLQ records of an event and ticker: one at most, through replays,
\* lost replies and crashes in the middle of an event.
PredictedOnce == \A key \in ClaimKeys : outputs[key] <= 1

\* Tickers that were claimed and then failed on.
Lost == cut \cup erred

\* An event leaves the pending list only when each of its tickers with a model has its
\* prediction, its DLQ record or the stale gate behind it, or was failed on itself, after
\* its claim: the failure of one ticker costs none of the others, before it or after it,
\* and no failure costs two.
AckedIsAnswered ==
    /\ \A key \in ClaimKeys :
        /\ Acked(key[1]) /\ events[key[1]].financial
        /\ key[2] \in ToSet(events[key[1]].tickers)
        => key \in claims /\ (outputs[key] = 1 \/ key \in gone \cup Lost)
    /\ Cardinality(Lost) <= mishaps

\* "Inference exception -> retryable raise (no-ack, PEL replay)": an event leaves the
\* pending list only when the tickers whose inference failed have got a prediction.
\* Violated: the claim of such a ticker is there when the event is replayed.
InferenceIsRetried == \A key \in erred : Acked(key[1]) => outputs[key] = 1

\* The 24-hour features count an event once, and twice only when the bootstrap found
\* it in the stream and the consumer handled it later.
HistoryCountsOnce ==
    \A e \in Ids : history[e] <= IF e <= booted THEN 2 ELSE 1

\* Every event is acknowledged in the end, or failed: then it waits for a start.
IsSettled(e) == Acked(e) \/ e \in failed
EventsSettle == \A e \in Ids : e <= Len(events) ~> IsSettled(e)

\* Each ticker of an event: one answer, before the event leaves the pending list, and
\* one place in the history.
TickersAreAccountedFor == PredictedOnce /\ AckedIsAnswered /\ HistoryCountsOnce

\* Why.  The event in hand is pending, and its tickers are gone through in order.
HandInv ==
    /\ cur # 0 => cur \in pel \ todo
    /\ at \in {"ticker", "predict"} => events[cur].financial /\ k \in 1 .. Len(Tickers)
    /\ at = "predict" => /\ Tickers[k] \in Whitelist /\ Key \in claims \ gone
                         /\ outputs[Key] = 0

\* Whether the predictor is past ticker i of event e.
IsPast(e, i) == IF e # cur THEN Acked(e)
                           ELSE at = "ack" \/ (at \in {"ticker", "predict"} /\ i < k)

\* A ticker it is past has its claim, and a claim its answer.
PassedInv ==
    \A e \in 1 .. unread - 1 : events[e].financial =>
        \A i \in DOMAIN events[e].tickers :
            IsPast(e, i) /\ events[e].tickers[i] \in Whitelist => <<e, events[e].tickers[i]>> \in claims

AnswerInv ==
    \A key \in ClaimKeys :
        /\ outputs[key] <= 1
        /\ outputs[key] = 1 => key \in claims
        /\ key \in claims => \/ outputs[key] = 1 \/ key \in gone \cup Lost
                             \/ at = "predict" /\ key = Key

LostInv == IsFiniteSet(Lost) /\ Cardinality(Lost) <= mishaps

\* Events this process has still to handle are in its history once at most, from the
\* bootstrap.
ToHandle(e) ==
    \/ at \in {"down", "pel"} \/ e \in todo \/ e >= unread
    \/ at = "handle" /\ e = cur

HistoryInv ==
    \A e \in Ids : history[e] + (IF ToHandle(e) THEN 1 ELSE 0) <= IF e <= booted THEN 2 ELSE 1

PredictorInv == PredictorTypeOK /\ HandInv /\ PassedInv /\ AnswerInv /\ LostInv /\ HistoryInv
===============================================================================
