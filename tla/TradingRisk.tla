------------------------------ MODULE TradingRisk ------------------------------
(***************************************************************************)
(* The decision service (src/services/decision/pipeline.py) in front of    *)
(* the bridge: predictions come in, each is answered by an EXECUTE or a    *)
(* REJECT signal, and the three risk gates read the keys the bridge        *)
(* writes (risk_manager.py).  The services are separate processes: between *)
(* the gates' reads and the bridge's writes anything may happen.           *)
(*                                                                         *)
(* The gates that only look at the prediction and the cached enrichment    *)
(* (stale features, market hours, R:R, direction filter) are one choice.   *)
(***************************************************************************)
EXTENDS BridgePositions

CONSTANTS
    MaxOpen,        \* max_open_positions, 3 in the code
    KillLimit       \* daily_kill_pct * initial_equity_rub, in units of Results

ASSUME RiskAssumption == MaxOpen \in Nat \ {0} /\ KillLimit \in Nat \ {0}

VARIABLES
    preds,          \* ml:predictions: the ticker of each prediction
    dunread,        \* first prediction the group has not delivered
    dpel,           \* delivered and not acknowledged
    dpc,            \* consumer task of the decision service
    dcur,           \* prediction in its hands
    dtodo,          \* pending predictions to replay
    dclaimed,       \* idem:trade_signal:<prediction>
    executed,       \* history: EXECUTE signals published for a prediction
    rejected,       \* history: REJECT signals published for a prediction
    missed,         \* history: predictions whose enrichment was not in the cache
    lag             \* history: signals the bridge had not acted on at a count

decisionVars == <<preds, dunread, dpel, dpc, dcur, dtodo, dclaimed,
                  executed, rejected, missed, lag>>
vars == <<bridgeVars, decisionVars>>

DecisionSteps == {"down", "pel", "idle", "handle", "lookup", "kill", "cooldown",
                  "count", "execute", "reject", "ack"}

TypeOK ==
    /\ BridgeTypeOK
    /\ preds \in Seq(Tickers) /\ Len(preds) <= MaxSignals
    /\ dunread \in 1 .. Len(preds) + 1
    /\ dpel \subseteq 1 .. dunread - 1
    /\ dpc \in DecisionSteps
    /\ dcur \in 0 .. dunread - 1
    /\ dtodo \subseteq 1 .. dunread - 1
    /\ dclaimed \subseteq Ids
    /\ executed \in [Ids -> Nat]
    /\ rejected \in [Ids -> Nat]
    /\ missed \subseteq Ids
    /\ lag \in 0 .. MaxSignals

Init ==
    /\ BridgeInit
    /\ preds = <<>> /\ dunread = 1 /\ dpel = {}
    /\ dpc = "pel" /\ dcur = NoSig /\ dtodo = {}
    /\ dclaimed = {}
    /\ executed = [p \in Ids |-> 0]
    /\ rejected = [p \in Ids |-> 0]
    /\ missed = {} /\ lag = 0

-------------------------------------------------------------------------------
(* The consumer of ml:predictions. *)

\* The redis keys and tasks of the bridge a decision step leaves alone.
bridgeButSignals == <<unread, pel, loopVars, track, claimVars, riskVars,
                      countVars, crashes>>

Predict(x) ==
    /\ Len(preds) < MaxSignals
    /\ preds' = Append(preds, x)
    /\ UNCHANGED <<bridgeVars, dunread, dpel, dpc, dcur, dtodo, dclaimed,
                   executed, rejected, missed, lag>>

\* Mutant: a restarted consumer reads new predictions only.
DRecoverSkipped ==
    /\ dpc = "pel"
    /\ dpc' = "idle"
    /\ UNCHANGED <<bridgeVars, preds, dunread, dpel, dcur, dtodo, dclaimed,
                   executed, rejected, missed, lag>>

DRecoverPel ==
    /\ dpc = "pel"
    /\ dpc' = "idle"
    /\ \/ dtodo' = dpel /\ NoFault
       \/ dtodo' = {} /\ Fault
    /\ UNCHANGED <<signals, bridgeButSignals, preds, dunread, dpel, dcur, dclaimed,
                   executed, rejected, missed, lag>>

DReplay(p) ==
    /\ dpc = "idle" /\ p \in dtodo
    /\ \A k \in dtodo : p <= k
    /\ dpc' = "handle" /\ dcur' = p /\ dtodo' = dtodo \ {p}
    /\ UNCHANGED <<bridgeVars, preds, dunread, dpel, dclaimed,
                   executed, rejected, missed, lag>>

DRead ==
    /\ dpc = "idle" /\ dtodo = {} /\ dunread <= Len(preds)
    /\ dunread' = dunread + 1
    /\ dpel' = dpel \cup {dunread}
    /\ \/ dpc' = "handle" /\ dcur' = dunread /\ NoFault
       \/ UNCHANGED <<dpc, dcur>> /\ Fault
    /\ UNCHANGED <<signals, bridgeButSignals, preds, dtodo, dclaimed,
                   executed, rejected, missed, lag>>

DAck ==
    /\ dpc = "ack"
    /\ dpc' = "idle" /\ dcur' = NoSig
    /\ \/ dpel' = dpel \ {dcur} /\ (NoFault \/ Fault)
       \/ UNCHANGED dpel /\ Fault
    /\ UNCHANGED <<signals, bridgeButSignals, preds, dunread, dtodo, dclaimed,
                   executed, rejected, missed, lag>>

-------------------------------------------------------------------------------
(* DecisionPipeline.process. *)

DGoto(step) == dpc' = step /\ UNCHANGED dcur /\ NoFault
DRaise      == dpc' = "idle" /\ dcur' = NoSig /\ Fault

\* What every step of process() leaves alone.
processKeeps == <<bridgeButSignals, preds, dunread, dpel, dtodo>>

DClaim ==
    /\ dpc = "handle"
    /\ \/ /\ dcur \notin dclaimed
          /\ dclaimed' = dclaimed \cup {dcur}
          /\ DGoto("lookup") \/ DRaise
       \/ dcur \in dclaimed /\ DGoto("ack") /\ UNCHANGED dclaimed
       \/ DRaise /\ UNCHANGED dclaimed
    /\ UNCHANGED <<signals, processKeeps, executed, rejected, missed, lag>>

\* EnrichmentCache.get answers None to a miss, a bad record and a Redis error.
\* A hit goes through the gates that need no Redis.
Lookup ==
    /\ dpc = "lookup"
    /\ \/ missed' = missed \cup {dcur} /\ DGoto("ack")
       \/ \E step \in {"reject", "kill"} : DGoto(step) /\ UNCHANGED missed
    /\ UNCHANGED <<signals, processKeeps, dclaimed, executed, rejected, lag>>

\* is_daily_kill_triggered takes the absolute value of the daily PnL.
Killed == pnl >= KillLimit \/ -pnl >= KillLimit

\* Mutant: only a loss above the limit counts.
GateKillLate ==
    /\ dpc = "kill"
    /\ \/ DGoto(IF -pnl > KillLimit THEN "reject" ELSE "cooldown")
       \/ DRaise
    /\ UNCHANGED <<signals, processKeeps, dclaimed, executed, rejected, missed, lag>>

GateKill ==
    /\ dpc = "kill"
    /\ \/ DGoto(IF Killed THEN "reject" ELSE "cooldown")
       \/ DRaise
    /\ UNCHANGED <<signals, processKeeps, dclaimed, executed, rejected, missed, lag>>

GateCooldown ==
    /\ dpc = "cooldown"
    /\ \/ DGoto(IF preds[dcur] \in cooldown THEN "reject" ELSE "count")
       \/ DRaise
    /\ UNCHANGED <<signals, processKeeps, dclaimed, executed, rejected, missed, lag>>

\* EXECUTE signals the bridge has not finished with.
Backlog == {s \in 1 .. Len(signals) : signals[s] # Reject /\ (s >= unread \/ s \in pel)}

\* Mutant: one position too many.
LimitReachedLate == Cardinality(slots) > MaxOpen

LimitReached == Cardinality(slots) >= MaxOpen

GateCount ==
    /\ dpc = "count"
    /\ \/ LimitReached /\ DGoto("reject") /\ UNCHANGED lag
       \/ /\ ~LimitReached /\ DGoto("execute")
          /\ lag' = IF Cardinality(Backlog) > lag THEN Cardinality(Backlog) ELSE lag
       \/ DRaise /\ UNCHANGED lag
    /\ UNCHANGED <<signals, processKeeps, dclaimed, executed, rejected, missed>>

\* Levels, sizing and the context fields, then XADD.
PublishExecute ==
    /\ dpc = "execute"
    /\ \/ /\ signals' = Append(signals, preds[dcur])
          /\ executed' = Up(executed, dcur)
          /\ DGoto("ack") \/ DRaise
       \/ UNCHANGED <<signals, executed>> /\ DRaise
    /\ UNCHANGED <<processKeeps, dclaimed, rejected, missed, lag>>

\* Mutant: the reject is only counted.
PublishRejectSkipped ==
    /\ dpc = "reject"
    /\ DGoto("ack")
    /\ UNCHANGED <<signals, processKeeps, dclaimed, executed, rejected, missed, lag>>

PublishReject ==
    /\ dpc = "reject"
    /\ \/ /\ signals' = Append(signals, Reject)
          /\ rejected' = Up(rejected, dcur)
          /\ DGoto("ack") \/ DRaise
       \/ UNCHANGED <<signals, rejected>> /\ DRaise
    /\ UNCHANGED <<processKeeps, dclaimed, executed, missed, lag>>

DCrash ==
    /\ dpc # "down" /\ crashes < MaxCrashes
    /\ crashes' = crashes + 1
    /\ dpc' = "down" /\ dcur' = NoSig /\ dtodo' = {}
    /\ UNCHANGED <<streamVars, loopVars, track, claimVars, riskVars, countVars, faults,
                   preds, dunread, dpel, dclaimed, executed, rejected, missed, lag>>

DRestart ==
    /\ dpc = "down"
    /\ dpc' = "pel"
    /\ UNCHANGED <<bridgeVars, preds, dunread, dpel, dcur, dtodo, dclaimed,
                   executed, rejected, missed, lag>>

Decision ==
    \/ DRecoverPel \/ DRead \/ DAck \/ DClaim \/ Lookup
    \/ GateKill \/ GateCooldown \/ GateCount \/ PublishExecute \/ PublishReject
    \/ \E p \in Ids : DReplay(p)

Next ==
    \/ BridgeStep /\ UNCHANGED decisionVars
    \/ \E x \in Tickers : Predict(x)
    \/ Decision
    \/ DCrash
    \/ DRestart

Spec == Init /\ [][Next]_vars

FairSpec == Spec /\ WF_vars(Decision) /\ WF_vars(DRestart) /\ BridgeFairness

-------------------------------------------------------------------------------
(* Properties. *)

\* A prediction leads to at most one signal, through replays of either service.
AnsweredOnce == \A p \in Ids : executed[p] + rejected[p] <= 1

\* "All REJECT events are published": an acknowledged prediction was answered, or
\* its enrichment was missing, or something failed between claim and publish.
UnansweredNeedsFailure ==
    \A p \in 1 .. dunread - 1 \ dpel :
        executed[p] + rejected[p] = 0 => p \in missed \/ faults + crashes > 0

\* One signal for each prediction, through crashes and replays, or a reason for none.
AnswersAreExplained == AnsweredOnce /\ UnansweredNeedsFailure

\* With one position per ticker and no failures, the limit is exceeded by no more
\* than the signals that were on the way when decision counted.
OverrunBoundedByLag ==
    /\ faults + crashes = 0
    /\ \A s, u \in 1 .. Len(signals) : signals[s] = signals[u] => s = u \/ signals[s] = Reject
    => Cardinality(persisted) <= MaxOpen + lag

\* What holds together behind them.  A prediction between its claim and its signal is
\* the only one that is claimed and unanswered, and the stream has one signal for
\* each that is answered.
InProcess == {"lookup", "kill", "cooldown", "count", "execute", "reject"}

Answered == {p \in Ids : executed[p] + rejected[p] > 0}

DecisionShape ==
    /\ dpc \in InProcess \cup {"handle", "ack"} => dcur # NoSig
    /\ dpc \in InProcess => dcur \in dclaimed \ Answered
    /\ dpc = "ack" => dcur \in dclaimed
    /\ Answered \subseteq dclaimed
    /\ Len(signals) = Cardinality(Answered)
    /\ faults + crashes = 0 =>
          \A p \in dclaimed : \/ p \in Answered \cup missed
                              \/ dpc \in InProcess /\ dcur = p

\* Until something fails, a persisted position has its tracker or is about to get it,
\* and the tickers that have a slot or are on their way to one, the one decision is
\* about to send included, are within the limit and the lag.
Wanted == slots \cup {signals[s] : s \in Backlog}

RoomLeft ==
    faults + crashes = 0 =>
        /\ pc \in {"handle", "open", "persist", "slot", "ack"} => cur \in pel
        /\ \A s \in persisted : \/ track[s] \in {"watch", "book", "forget"}
                                \/ pc = "slot" /\ cur = s
        /\ Cardinality(Wanted) + (IF dpc = "execute" THEN 1 ELSE 0) <= MaxOpen + lag

RiskInv ==
    /\ TypeOK /\ BridgeInv /\ SlotsInv
    /\ AnswersAreExplained
    /\ DecisionShape /\ RoomLeft

\* No trade is past the gate in front of these steps, in decision or on its way
\* to the bridge.
NothingPast(steps) == dpc \notin steps /\ Backlog = {}

\* Once nothing is past its gate, a reached limit - the daily PnL, or the number of
\* open tickers - admits no further trade for as long as it is reached.
ReachedLimitStops ==
    [][LET afterKill == {"cooldown", "count", "execute"} IN
       /\ Killed /\ NothingPast(afterKill) => NothingPast(afterKill)'
       /\ LimitReached /\ NothingPast({"execute"}) => NothingPast({"execute"})']_vars

\* Every prediction in the stream is acknowledged in the end, through crashes of
\* either service, unless a command failed: then it waits for the next start.  (An
\* acknowledgement is final and there are MaxSignals predictions at most, so that some
\* day none of them waits.)
Waiting == {p \in 1 .. Len(preds) : p >= dunread \/ p \in dpel}
PredictionsSettle == Waiting # {} ~> Waiting = {} \/ faults > 0
===============================================================================
