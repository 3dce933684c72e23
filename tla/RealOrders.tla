------------------------------- MODULE RealOrders -------------------------------
(***************************************************************************)
(* Real execution through QUIK (services/bridge/real_executor.py,          *)
(* quik_order_client.py, risk_guard.py): signals are opened one after the  *)
(* other; orders go to the terminal and statuses come back as lines of two *)
(* files, the ids of orders live in a third.  The exits of open positions  *)
(* come through the same status file while the next entry is awaited.      *)
(* The terminal, its script and the caller of the executor are external.   *)
(***************************************************************************)
EXTENDS Integers, Sequences, FiniteSets, SequencesExt

CONSTANTS
    MaxSignals,         \* bound: signals
    PerMinute,          \* max_orders_per_min
    MaxTime,            \* bound: minutes; the rate limit looks one minute back
    MaxBreaks           \* bound: restarts of the bridge and failing Redis reads

ASSUME RealAssumption == {MaxSignals, PerMinute, MaxTime, MaxBreaks} \subseteq Nat

Signals == 1 .. MaxSignals
Orders  == [what: {"entry", "oco"}, of: Signals]
Lines   == [kind: {"TRADE", "REJECT"}, order: Orders]

VARIABLES
    clock, killed,      \* minutes; the kill switch
    transmap,           \* transmap.json: order ids given out
    entered, protected, \* orders.jsonl: ENTRY and EXIT_OCO lines, by signal
    status, writing,    \* status.jsonl; its last line is not complete
    filled,             \* terminal: executed orders
    readTo,             \* _status_offset
    unseen,             \* history: lines in status that reached nobody
    sentAt,             \* RiskGuard._sent_times
    sightings,          \* history: times at which this process sent an entry
    late,               \* history: entries sent while the kill switch was on
    unguarded,          \* history: some reading of the kill switch failed
    step, signal,          \* open_position: where it is, its signal
    nextSignal, died,       \* signals not delivered yet; interrupted by a restart
    answer,             \* execution result of a signal
    positions,          \* RealPositions handed to the caller and not closed
    breaks

orderVars  == <<transmap, entered, protected>>
statusVars == <<status, writing, filled>>
readVars   == <<readTo, unseen>>
gateVars   == <<sentAt, sightings, late, unguarded>>
taskVars   == <<step, signal, nextSignal, died, answer>>
envVars    == <<clock, killed, breaks>>
realVars   == <<orderVars, statusVars, readVars, gateVars, taskVars, positions, envVars>>

RealTypeOK ==
    /\ clock \in 0 .. MaxTime /\ killed \in BOOLEAN /\ unguarded \in BOOLEAN
    /\ transmap \subseteq Orders
    /\ entered \in [Signals -> Nat] /\ protected \in [Signals -> Nat]
    /\ status \in Seq(Lines) /\ readTo \in 0 .. Len(status) /\ writing \in BOOLEAN
    /\ unseen \subseteq 1 .. readTo /\ filled \subseteq Orders
    /\ sentAt \in Seq(0 .. clock) /\ sightings \in Seq(0 .. clock) /\ late \in Nat
    /\ step \in {"idle", "gate", "send", "await"} /\ signal \in 0 .. MaxSignals
    /\ (signal = 0) = (step = "idle")
    /\ nextSignal \in 1 .. MaxSignals + 1 /\ died \subseteq Signals
    /\ answer \in [Signals -> {"none", "FILLED", "REJECTED", "TIMEOUT", "already_sent"}]
    /\ positions \subseteq Signals /\ breaks \in 0 .. MaxBreaks

Entry(s) == [what |-> "entry", of |-> s]
Oco(s)   == [what |-> "oco", of |-> s]

RealInit ==
    /\ clock = 0 /\ killed = FALSE /\ breaks = 0
    /\ transmap = {} /\ entered = [s \in Signals |-> 0] /\ protected = [s \in Signals |-> 0]
    /\ status = <<>> /\ writing = FALSE /\ filled = {} /\ readTo = 0 /\ unseen = {}
    /\ sentAt = <<>> /\ sightings = <<>> /\ late = 0 /\ unguarded = FALSE
    /\ step = "idle" /\ signal = 0 /\ nextSignal = 1 /\ died = {}
    /\ answer = [s \in Signals |-> "none"] /\ positions = {}

Break == breaks < MaxBreaks /\ breaks' = breaks + 1

-------------------------------------------------------------------------------
(* Opening a position. *)

\* Mutant: the step is over, its signal stays in hand.
AnswerOnly(a) == answer' = [answer EXCEPT ![signal] = a] /\ step' = "idle" /\ UNCHANGED signal

Answer(a) == answer' = [answer EXCEPT ![signal] = a] /\ step' = "idle" /\ signal' = 0

\* trans_id_for: a signal whose id is in the map was sent before.
Open(s) ==
    /\ step = "idle" /\ (s = nextSignal \/ s \in died)
    /\ nextSignal' = IF s = nextSignal THEN s + 1 ELSE nextSignal
    /\ died' = died \ {s}
    /\ IF Entry(s) \in transmap
       THEN answer' = [answer EXCEPT ![s] = "already_sent"] /\ UNCHANGED <<step, signal, transmap>>
       ELSE transmap' = transmap \cup {Entry(s)} /\ step' = "gate" /\ signal' = s /\ UNCHANGED answer
    /\ UNCHANGED <<entered, protected, statusVars, readVars, gateVars, positions, envVars>>

\* check_kill_switch: a failing EXISTS counts as "off".  More reads follow, awaited.
CheckKill ==
    /\ step = "gate"
    /\ \/ killed /\ Answer("REJECTED") /\ UNCHANGED <<unguarded, breaks>>
       \/ ~killed /\ step' = "send" /\ UNCHANGED <<signal, answer, unguarded, breaks>>
       \/ Break /\ step' = "send" /\ unguarded' = TRUE /\ UNCHANGED <<signal, answer>>
    /\ UNCHANGED <<nextSignal, died, orderVars, statusVars, readVars, sentAt, sightings, late,
                   positions, clock, killed>>

\* The times left once the leading ones are popped that are more than a minute old.
Recent(times) ==
    LET kept == {i \in DOMAIN times : clock - times[i] <= 1} IN
    IF kept = {} THEN <<>> ELSE SubSeq(times, Min(kept), Len(times))

\* The rest of the gate: hours, price collar and quantity may refuse, the rate limit
\* does when the minute is full.
Refuse ==
    /\ step = "send"
    /\ sentAt' = Recent(sentAt) /\ Answer("REJECTED")
    /\ UNCHANGED <<nextSignal, died, orderVars, statusVars, readVars, sightings, late, unguarded,
                   positions, envVars>>

Send ==
    /\ step = "send" /\ Len(Recent(sentAt)) < PerMinute
    /\ entered' = [entered EXCEPT ![signal] = @ + 1]
    /\ sentAt' = Append(Recent(sentAt), clock) /\ sightings' = Append(sightings, clock)
    /\ late' = IF killed THEN late + 1 ELSE late
    /\ step' = "await"
    /\ UNCHANGED <<signal, nextSignal, died, answer, transmap, protected, statusVars, readVars, unguarded,
                   positions, envVars>>

-------------------------------------------------------------------------------
(* Statuses. *)

\* poll_status: the lines since the offset; an incomplete one is read as it is, fails
\* to parse and is gone.
Torn  == IF writing THEN {Len(status)} ELSE {}
Batch == SubSeq(status, readTo + 1, Len(status) - Cardinality(Torn))

Exits(lines) == {l.order.of : l \in {l \in ToSet(lines) : l.order.what = "oco" /\ l.kind = "TRADE"}}

OwnTrade(l)  == l.order = Entry(signal) /\ l.kind = "TRADE"
OwnReject(l) == l.order = Entry(signal) /\ l.kind = "REJECT"

\* The server-side stop and take-profit of a filled entry.
Protect == transmap' = transmap \cup {Oco(signal)} /\ protected' = [protected EXCEPT ![signal] = @ + 1]

\* _await_trade, one poll: statuses of other orders go to on_status; the first TRADE of
\* the entry returns at once, and what follows it in the batch reaches nobody.
Poll ==
    /\ step = "await" /\ readTo < Len(status)
    /\ readTo' = Len(status)
    /\ LET at   == SelectInSeq(Batch, OwnTrade)
           upTo == IF at = 0 THEN Len(Batch) ELSE at
       IN
       /\ unseen' = unseen \cup Torn \cup (readTo + upTo + 1 .. readTo + Len(Batch))
       /\ positions' = (positions \ Exits(SubSeq(Batch, 1, upTo))) \cup (IF at > 0 THEN {signal} ELSE {})
       /\ IF at > 0 THEN Protect /\ Answer("FILLED")
          ELSE /\ UNCHANGED <<transmap, protected>>
               /\ IF SelectInSeq(Batch, OwnReject) > 0 THEN Answer("TIMEOUT")
                                                       ELSE UNCHANGED <<step, signal, answer>>
    /\ UNCHANGED <<entered, statusVars, gateVars, nextSignal, died, envVars>>

\* Mutant: the deadline is looked at when a status comes in.
DeadlineOnStatus ==
    /\ step = "await" /\ readTo < Len(status) /\ Answer("TIMEOUT")
    /\ UNCHANGED <<nextSignal, died, orderVars, statusVars, readVars, gateVars, positions, envVars>>

\* order_fill_timeout_sec is over.
Deadline ==
    /\ step = "await" /\ Answer("TIMEOUT")
    /\ UNCHANGED <<nextSignal, died, orderVars, statusVars, readVars, gateVars, positions, envVars>>

\* Between two signals the caller polls for the exits of its positions.
TrackExits ==
    /\ step = "idle" /\ readTo < Len(status)
    /\ readTo' = Len(status) /\ unseen' = unseen \cup Torn
    /\ positions' = positions \ Exits(Batch)
    /\ UNCHANGED <<taskVars, orderVars, statusVars, gateVars, envVars>>

\* A new process reads on from the end of the status file, and the signal in hand is
\* delivered again; the times of sent orders are gone.
BridgeRestarts ==
    /\ Break
    /\ readTo' = Len(status) /\ unseen' = unseen \cup (readTo + 1 .. Len(status))
    /\ sentAt' = <<>> /\ sightings' = <<>>
    /\ died' = IF signal = 0 THEN died ELSE died \cup {signal}
    /\ step' = "idle" /\ signal' = 0
    /\ UNCHANGED <<nextSignal, answer, orderVars, statusVars, late, unguarded, positions, clock, killed>>

-------------------------------------------------------------------------------
(* The terminal, its script, the operator. *)

Minute ==
    /\ clock < MaxTime /\ clock' = clock + 1
    /\ UNCHANGED <<taskVars, orderVars, statusVars, readVars, gateVars, positions, killed, breaks>>

Kill ==
    /\ ~killed /\ killed' = TRUE
    /\ UNCHANGED <<taskVars, orderVars, statusVars, readVars, gateVars, positions, clock, breaks>>

\* An order is executed or an entry rejected, once; its line may be half written.
Report(order, kind) ==
    /\ ~writing /\ \A i \in DOMAIN status : status[i].order # order
    /\ IF order.what = "entry" THEN entered[order.of] > 0
                               ELSE protected[order.of] > 0 /\ kind = "TRADE"
    /\ status' = Append(status, [kind |-> kind, order |-> order])
    /\ filled' = IF kind = "TRADE" THEN filled \cup {order} ELSE filled
    /\ writing' \in BOOLEAN
    /\ UNCHANGED <<taskVars, orderVars, readVars, gateVars, positions, envVars>>

LineEnds ==
    /\ writing /\ writing' = FALSE
    /\ UNCHANGED <<taskVars, orderVars, status, filled, readVars, gateVars, positions, envVars>>

Executor == (\E s \in Signals : Open(s)) \/ CheckKill \/ Refuse \/ Send \/ Poll \/ Deadline

RealNext ==
    \/ Executor \/ TrackExits \/ BridgeRestarts
    \/ Minute \/ Kill \/ LineEnds
    \/ \E order \in Orders, kind \in {"TRADE", "REJECT"} : Report(order, kind)

RealSpec == RealInit /\ [][RealNext]_realVars

\* The event loop goes on and the deadline passes.
FairRealSpec == RealSpec /\ WF_realVars(Executor)

-------------------------------------------------------------------------------
(* Properties. *)

\* However often a signal is delivered and the process restarts, one entry order.
OneEntryPerSignal == \A s \in Signals : entered[s] <= 1 /\ protected[s] <= 1

\* Every position the caller holds has both orders, and no OCO is without an entry that
\* was executed.
PositionsAreProtected ==
    /\ \A s \in positions : protected[s] = 1
    /\ \A s \in Signals : protected[s] > 0 => Entry(s) \in filled

\* An executed entry has its protecting OCO order; what may leave it without is a
\* time-out that was reported, or a restart in between.
UnprotectedIsExplained ==
    \A s \in Signals :
        Entry(s) \in filled /\ protected[s] = 0 =>
            signal = s \/ s \in died \/ answer[s] \in {"TIMEOUT", "already_sent"}

\* A position whose exit the terminal reported is closed once the line was read, also
\* while an entry is awaited: unless the line was torn, came after the entry's own in
\* one batch, or was skipped by a restart.
ExitsClosePositions ==
    \A i \in 1 .. readTo :
        status[i].order.what = "oco" /\ i \notin unseen => status[i].order.of \notin positions

\* In no minute more than max_orders_per_min entries, until a restart forgets them.
RateLimitHolds ==
    \A i \in DOMAIN sightings :
        Cardinality({j \in DOMAIN sightings : sightings[j] \in sightings[i] .. sightings[i] + 1})
        <= PerMinute

\* Once the kill switch is on, the signal that had passed it goes out and no other.
KillStopsOrders == ~unguarded => late <= 1

\* Whatever the terminal does, a signal in hand is answered, or interrupted.
IsAnswered(s) == answer[s] # "none" \/ s \in died
OpenEnds == \A s \in Signals : signal = s ~> IsAnswered(s)

\* The orders of a signal: one entry, its protection, its end, and the limits on sending.
OrdersAreAccountedFor ==
    /\ OneEntryPerSignal
    /\ PositionsAreProtected
    /\ UnprotectedIsExplained
    /\ ExitsClosePositions
    /\ RateLimitHolds
    /\ KillStopsOrders

-------------------------------------------------------------------------------
(* Why they hold. *)

\* The map and the order file follow the place in open_position: an id is there before
\* its order, and an order that is not protected is explained.
OrdersInv ==
    /\ signal # 0 => Entry(signal) \in transmap
    /\ \A s \in Signals :
         /\ entered[s] <= 1 /\ protected[s] <= entered[s]
         /\ entered[s] = 1 => Entry(s) \in transmap
         /\ signal = s => entered[s] = (IF step = "await" THEN 1 ELSE 0) /\ protected[s] = 0
         /\ entered[s] = 1 /\ protected[s] = 0 =>
              signal = s \/ s \in died \/ answer[s] \in {"TIMEOUT", "already_sent"}

\* A line of the status file is about an order that was given.
StatusInv ==
    /\ \A i \in DOMAIN status :
         /\ status[i].kind = "TRADE" => status[i].order \in filled
         /\ status[i].order.what = "oco" =>
              status[i].kind = "TRADE" /\ protected[status[i].order.of] = 1
    /\ \A s \in Signals : /\ Entry(s) \in filled => entered[s] = 1
                          /\ protected[s] = 1 => Entry(s) \in filled
    /\ \A s \in positions : protected[s] = 1
    /\ ExitsClosePositions

\* The rate limit knows the last of the sightings, and those it does not are old.
GateInv ==
    /\ RateLimitHolds
    /\ Len(sentAt) <= Len(sightings)
    /\ LET gone == Len(sightings) - Len(sentAt) IN
       /\ \A i \in DOMAIN sentAt : sentAt[i] = sightings[gone + i]
       /\ \A i \in 1 .. gone : sightings[i] + 1 < clock
    /\ ~unguarded => late <= 1 /\ (step = "send" \/ ~killed => late = 0)

RealInv == RealTypeOK /\ OrdersInv /\ StatusInv /\ GateInv
===============================================================================
