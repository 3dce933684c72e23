------------------------------- MODULE Monitoring ------------------------------
(***************************************************************************)
(* Heartbeats and the monitor: every service publishes a heartbeat each    *)
(* interval (infra/heartbeat.py), the receiver's carries the counters of   *)
(* its Telegram connection (services/receiver/telegram_health.py), and the *)
(* monitor (services/monitor) absorbs them once a poll, samples the        *)
(* lengths of the dead letter streams and logs alerts.                     *)
(*                                                                         *)
(* Time passes in rounds of one interval; in a round each running service  *)
(* and the monitor act once, in any order.  A service whose loop hangs     *)
(* publishes nothing, as one that died.                                    *)
(***************************************************************************)
EXTENDS Integers, Sequences, FiniteSets, SequencesExt

CONSTANTS
    Services, Receiver, \* tracked services
    MaxTime,            \* bound: rounds
    Threshold,          \* missing_heartbeat_threshold_sec, in rounds (three by default)
    Grace,              \* startup_grace_sec
    Repeat,             \* _ALERT_SUPPRESS_TICKS (10)
    StormWindow, StormSize, \* reconnects of a storm
    SpikeWindow, SpikeSize, \* dlq_window_sec, dlq_spike_threshold (1 or more)
    MaxDead,            \* maxlen of a DLQ stream
    MaxEvents           \* bound: reconnects and DLQ records, restarts and failing commands

ASSUME MonitorAssumption ==
    /\ Receiver \in Services
    /\ {MaxTime, Threshold, Grace, Repeat, StormWindow, StormSize, SpikeWindow, SpikeSize,
        MaxDead, MaxEvents} \subseteq Nat
    /\ Repeat >= 1 /\ SpikeSize >= 1

VARIABLES
    clock,
    upSince,            \* round a service started in, or Down
    turned,             \* services whose heartbeat task ran this round
    beat,               \* newest heartbeat of a service in the stream
    reconnects,         \* _reconnect_window
    storming,           \* _storm_active
    dead,               \* XLEN of the DLQ stream
    step,               \* monitor: "off", "due", "absorbed", "done" for this round
    started, ticks,     \* _started_at, _tick_counter
    known,              \* aggregator: the newest heartbeat absorbed
    samples,            \* _dlq_history
    lastAlert,          \* _last_alert_tick
    raised,             \* alerts that hold in the evaluation of this round
    drops, letters,     \* history: rounds of reconnects and of DLQ records
    failures, hangs

monitorVars == <<clock, upSince, turned, beat, reconnects, storming, dead, step, started, ticks,
                 known, samples, lastAlert, raised, drops, letters, failures, hangs>>

Down == -1
None == [at |-> -1, storm |-> FALSE, drops |-> 0]
Keys == {<<"missing", s>> : s \in Services} \cup {<<"spike">>, <<"storm">>}
Running(s) == upSince[s] # Down

MonitorTypeOK ==
    /\ clock \in 0 .. MaxTime
    /\ upSince \in [Services -> {Down} \cup 0 .. clock] /\ turned \subseteq Services
    /\ {beat, known} \subseteq [Services -> [at: -1 .. clock, storm: BOOLEAN, drops: Nat]]
    /\ \A s \in Services : known[s].at <= beat[s].at
    /\ storming \in BOOLEAN /\ dead \in 0 .. MaxDead
    /\ {reconnects, drops, letters} \subseteq Seq(0 .. clock) /\ {failures, hangs} \subseteq Nat
    /\ step \in {"off", "due", "absorbed", "done"} /\ started \in 0 .. clock
    /\ ticks \in 0 .. MaxTime + 1
    /\ lastAlert \in [Keys -> {-Repeat} \cup 1 .. ticks] /\ raised \subseteq Keys
    /\ samples \in Seq([at: 0 .. clock, len: 0 .. MaxDead])

MonitorInit ==
    /\ clock = 0 /\ upSince = [s \in Services |-> Down] /\ turned = {}
    /\ beat = [s \in Services |-> None] /\ reconnects = <<>> /\ storming = FALSE /\ dead = 0
    /\ step = "off" /\ started = 0 /\ ticks = 0 /\ known = [s \in Services |-> None]
    /\ samples = <<>> /\ lastAlert = [key \in Keys |-> -Repeat] /\ raised = {}
    /\ drops = <<>> /\ letters = <<>> /\ failures = 0 /\ hangs = 0

Events == Len(drops) + Len(letters) + failures + hangs
Fault  == Events < MaxEvents /\ failures' = failures + 1

serviceVars == <<upSince, turned, beat, reconnects, storming, drops>>
scanVars    == <<step, started, ticks, known, samples, lastAlert, raised>>

\* A round ends when everybody has had the turn the interval gives.
RoundEnds ==
    /\ clock < MaxTime /\ step \in {"off", "done"}
    /\ \A s \in Services : Running(s) => s \in turned
    /\ clock' = clock + 1 /\ turned' = {} /\ raised' = {}
    /\ step' = IF step = "off" THEN "off" ELSE "due"
    /\ UNCHANGED <<upSince, beat, reconnects, storming, dead, started, ticks, known, samples,
                   lastAlert, drops, letters, failures, hangs>>

-------------------------------------------------------------------------------
(* The services. *)

Starts(s) ==
    /\ ~Running(s) /\ s \notin turned /\ upSince' = [upSince EXCEPT ![s] = clock]
    /\ IF s = Receiver THEN reconnects' = <<>> /\ storming' = FALSE
                       ELSE UNCHANGED <<reconnects, storming>>
    /\ UNCHANGED <<clock, turned, beat, dead, scanVars, drops, letters, failures, hangs>>

Hangs(s) ==
    /\ Running(s) /\ Events < MaxEvents /\ hangs' = hangs + 1
    /\ upSince' = [upSince EXCEPT ![s] = Down]
    /\ UNCHANGED <<clock, turned, beat, reconnects, storming, dead, scanVars, drops, letters, failures>>

\* What popleft leaves of a window: it stops at the first time that is recent.
Within(times) ==
    LET recent == {i \in DOMAIN times : times[i] >= clock - StormWindow} IN
    IF recent = {} THEN <<>> ELSE SubSeq(times, Min(recent), Len(times))

IsStorm(times) == Len(Within(times)) >= StormSize

\* Telethon logs "Connection to ... complete!".
Reconnects ==
    /\ Running(Receiver) /\ Events < MaxEvents
    /\ drops' = Append(drops, clock)
    /\ reconnects' = Within(Append(reconnects, clock))
    /\ storming' = IsStorm(Append(reconnects, clock))
    /\ UNCHANGED <<clock, upSince, turned, beat, dead, scanVars, letters, failures, hangs>>

\* The storm flag of a snapshot: computed anew from the window.
StormNow(times) == IsStorm(times)

\* ts of a heartbeat.
Stamp == clock

\* _publish_one: the first one at the start, then one each interval; a failure is
\* logged, and the next one comes an interval later.
Beats(s) ==
    /\ Running(s) /\ s \notin turned /\ turned' = turned \cup {s}
    /\ IF s = Receiver
       THEN reconnects' = Within(reconnects) /\ storming' = StormNow(reconnects)
       ELSE UNCHANGED <<reconnects, storming>>
    /\ \/ /\ beat' = [beat EXCEPT ![s] = [at |-> Stamp, storm |-> s = Receiver /\ StormNow(reconnects),
                                          drops |-> IF s = Receiver THEN Len(drops) ELSE 0]]
          /\ UNCHANGED failures
       \/ Fault /\ UNCHANGED beat
    /\ UNCHANGED <<clock, upSince, dead, scanVars, drops, letters, hangs>>

\* Some service writes a DLQ record; the stream is trimmed.
DeadLetter ==
    /\ Events < MaxEvents
    /\ dead' = IF dead < MaxDead THEN dead + 1 ELSE dead
    /\ letters' = Append(letters, clock)
    /\ UNCHANGED <<clock, serviceVars, scanVars, failures, hangs>>

-------------------------------------------------------------------------------
(* The monitor. *)

MonitorStarts ==
    /\ step = "off"
    /\ step' = "due" /\ started' = clock
    /\ UNCHANGED <<clock, serviceVars, dead, ticks, known, samples, lastAlert, raised, letters,
                   failures, hangs>>

\* HeartbeatAggregator.tick; a failing XRANGE leaves the state as it is.
Absorb ==
    /\ step = "due" /\ step' = "absorbed" /\ ticks' = ticks + 1
    /\ \/ known' = beat /\ UNCHANGED failures
       \/ UNCHANGED known /\ Fault
    /\ UNCHANGED <<clock, serviceVars, dead, started, samples, lastAlert, raised, letters, hangs>>

\* Mutant: a service that was never seen is no concern.
MissingLater(s) == known[s].at >= 0 /\ clock - known[s].at > Threshold

\* evaluate_missing_heartbeat.
Missing(s) == known[s].at = -1 \/ clock - known[s].at > Threshold

\* evaluate_dlq_spike: the newest sample against the last one a window ago or older.
Spike(all) ==
    LET old == {i \in DOMAIN all : all[i].at <= clock - SpikeWindow} IN
    Len(all) >= 2 /\ old # {} /\ Last(all).len - all[Max(old)].len >= SpikeSize

Alerts(all) ==
    {key \in Keys :
        \/ key[1] = "missing" /\ clock - started >= Grace /\ Missing(key[2])
        \/ key[1] = "spike" /\ Spike(all)
        \/ key[1] = "storm" /\ known[Receiver].storm}

\* XLEN, GET of the daily PnL, the rules, the log.  A failing XLEN skips the sample; a
\* failing GET ends the tick before any rule is evaluated.
Evaluate ==
    /\ step = "absorbed" /\ step' = "done"
    /\ \/ LET all == Append(samples, [at |-> clock, len |-> dead]) IN
          /\ samples' = all /\ raised' = Alerts(all) /\ UNCHANGED failures
       \/ raised' = Alerts(samples) /\ Fault /\ UNCHANGED samples
       \/ samples' = Append(samples, [at |-> clock, len |-> dead]) /\ raised' = {} /\ Fault
    /\ lastAlert' = [key \in Keys |-> IF key \in raised' /\ ticks - lastAlert[key] >= Repeat
                                      THEN ticks ELSE lastAlert[key]]
    /\ UNCHANGED <<clock, serviceVars, dead, started, ticks, known, letters, hangs>>

MonitorNext ==
    \/ RoundEnds \/ Reconnects \/ DeadLetter
    \/ \E s \in Services : Starts(s) \/ Hangs(s) \/ Beats(s)
    \/ MonitorStarts \/ Absorb \/ Evaluate

MonitorSpec == MonitorInit /\ [][MonitorNext]_monitorVars

-------------------------------------------------------------------------------
(* Properties. *)

Logged(key) == ticks - lastAlert[key] < Repeat

\* A service without a heartbeat for longer than the threshold, the grace of the start
\* aside, has its alert in the log, this tick or within the ticks that suppress it;
\* only a failing command can keep it away.
SilenceNoticed ==
    step = "done" /\ failures = 0 /\ clock - started >= Grace =>
        \A s \in Services :
            upSince[s] = Down /\ clock - beat[s].at > Threshold => Logged(<<"missing", s>>)

\* A service that has been up since an earlier round is not reported missing, in
\* whatever order service and monitor take their turns.
NoFalseAlarm ==
    failures = 0 =>
        \A s \in Services :
            Running(s) /\ upSince[s] < clock => <<"missing", s>> \notin raised

\* The storm flag the receiver publishes is that of its window, through lulls too.
StormIsRecent ==
    beat[Receiver].storm =>
        Cardinality({i \in 1 .. beat[Receiver].drops : drops[i] >= beat[Receiver].at - StormWindow})
        >= StormSize

\* As many DLQ records as the threshold in one window are noticed, wherever they fall
\* between two samples, unless the stream is at its cap.
SpikeNoticed ==
    /\ step = "done" /\ failures = 0 /\ started <= clock - SpikeWindow /\ dead < MaxDead
    /\ Cardinality({i \in DOMAIN letters : letters[i] \in clock - SpikeWindow + 1 .. clock - 1}) >= SpikeSize
    => Logged(<<"spike">>)

\* What must be raised is raised, and nothing else, whatever the order of beats and ticks.
AlertsAreRight == SilenceNoticed /\ NoFalseAlarm /\ StormIsRecent /\ SpikeNoticed

-------------------------------------------------------------------------------
(* The inductive invariant. *)

\* A sequence is the end of another.
EndOf(short, long) ==
    /\ Len(short) <= Len(long)
    /\ \A i \in DOMAIN short : short[i] = long[Len(long) - Len(short) + i]

Ascending(times) == \A i, j \in DOMAIN times : i <= j => times[i] <= times[j]

\* The receiver's window is the end of what it lost, and what is lost later comes later.
WindowFollows ==
    /\ EndOf(reconnects, drops) /\ Ascending(drops)
    /\ beat[Receiver].drops <= Len(drops)

\* How far the ticks of the monitor have come.
TicksFollow ==
    ticks = CASE step = "off" -> 0 [] step = "due" -> clock - started [] OTHER -> clock - started + 1

\* While nothing fails, a service that ran in a round has its heartbeat of that round in
\* the stream, and the monitor knows one that is a round old at most.
BeatsFollow ==
    /\ \A s \in turned : beat[s].at = clock
    /\ \A s \in Services : Running(s) /\ upSince[s] < clock =>
         /\ beat[s].at >= clock - 1
         /\ step \in {"absorbed", "done"} => known[s].at >= clock - 1

\* ... what has been silent for too long is in the log ...
SilenceLogged ==
    step = "done" /\ clock - started >= Grace =>
        \A s \in Services : clock - beat[s].at > Threshold => Logged(<<"missing", s>>)

\* ... and there is a sample of each round of the monitor.
SamplesFollow ==
    /\ Len(samples) = IF step = "absorbed" THEN ticks - 1 ELSE ticks
    /\ \A i \in DOMAIN samples : samples[i].at = started + i - 1

\* A stream has no more records than were written, and all of them below its cap.
LettersCounted ==
    /\ dead <= Len(letters) /\ (dead < MaxDead => dead = Len(letters))
    /\ \A i \in DOMAIN samples :
         samples[i].len <= Cardinality({j \in DOMAIN letters : letters[j] <= samples[i].at})

MonitorInv ==
    /\ MonitorTypeOK /\ AlertsAreRight /\ WindowFollows /\ TicksFollow /\ LettersCounted
    /\ failures = 0 => BeatsFollow /\ SilenceLogged /\ SamplesFollow
===============================================================================
