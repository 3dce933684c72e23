---------------------------- MODULE BridgePositions ----------------------------
(***************************************************************************)
(* The bridge service in paper mode: the consumer task that turns signals  *)
(* of trade:signals into positions (src/services/bridge/pipeline.py), one  *)
(* tracker task per position (position_tracker.py), the start-up recovery, *)
(* and the Redis keys they write: the claims, the persisted positions, the *)
(* set of tickers with an open position, the cooldowns and the daily PnL.  *)
(*                                                                         *)
(* All tasks share one event loop; another task may run at every await,    *)
(* and the only awaits are Redis commands, so one action is one command    *)
(* with the code up to the next.  A command may raise, before or after it  *)
(* took effect.  Prices are abstracted: a watched position may exit at any *)
(* poll, with any result of Results.                                       *)
(*                                                                         *)
(* The consumer reads one signal at a time: the rest of a batch of ten is  *)
(* pending but untouched, and a crash brings it back in the same order.    *)
(***************************************************************************)
EXTENDS Integers, Sequences, FiniteSets

CONSTANTS
    Tickers,
    Reject,         \* a signal with action REJECT
    Results,        \* realized PnL of a position, in units of the kill limit
    MaxSignals,     \* bound: signals in the stream
    MaxExpiries,    \* bound: claims that outlive their TTL of a day
    MaxFaults,      \* bound: commands that raise
    MaxCrashes      \* bound: process crashes explored

ASSUME BridgeAssumption ==
    /\ Reject \notin Tickers
    /\ Results \subseteq Int
    /\ MaxSignals \in Nat
    /\ MaxExpiries \in Nat
    /\ MaxFaults \in Nat
    /\ MaxCrashes \in Nat

Ids   == 1 .. MaxSignals
NoSig == 0

VARIABLES
    signals,        \* trade:signals: the ticker of an EXECUTE signal, or Reject
    unread,         \* first signal the group has not delivered
    pel,            \* delivered and not acknowledged
    pc,             \* consumer task
    cur,            \* signal in the consumer's hands
    todo,           \* keys to respawn, then pending signals to replay
    track,          \* tracker task of each position
    claimed,        \* idem:<scope>:<signal>
    persisted,      \* bridge:open_positions:<signal>
    slots,          \* risk:open_positions, a set of tickers
    cooldown,       \* risk:cooldown:<ticker>
    pnl,            \* risk:daily_pnl:<today>
    claims,         \* history: successful claims of a signal
    opens,          \* history: OPEN events of a position
    closes,         \* history: CLOSE events of a position
    books,          \* history: times its result was added to the daily PnL
    expiries, faults, crashes

streamVars == <<signals, unread, pel>>
loopVars   == <<pc, cur, todo>>
riskVars   == <<persisted, slots, cooldown, pnl>>
countVars  == <<opens, closes, books>>
claimVars  == <<claimed, claims, expiries>>
bridgeVars == <<streamVars, loopVars, track, claimVars, riskVars, countVars,
                faults, crashes>>

ConsumerSteps == {"down", "scan", "respawn", "pel", "idle", "handle", "open",
                  "persist", "slot", "ack"}
TrackerSteps  == {"none", "watch", "book", "forget", "free", "cool"}

BridgeTypeOK ==
    /\ signals \in Seq(Tickers \cup {Reject}) /\ Len(signals) <= MaxSignals
    /\ unread \in 1 .. MaxSignals + 1
    /\ pel \subseteq Ids
    /\ pc \in ConsumerSteps
    /\ cur \in Ids \cup {NoSig}
    /\ todo \subseteq Ids
    /\ track \in [Ids -> TrackerSteps]
    /\ claimed \subseteq Ids
    /\ persisted \subseteq Ids
    /\ slots \subseteq Tickers
    /\ cooldown \subseteq Tickers
    /\ pnl \in Int
    /\ claims \in [Ids -> Nat]
    /\ opens \in [Ids -> Nat]
    /\ closes \in [Ids -> Nat]
    /\ books \in [Ids -> Nat]
    /\ expiries \in 0 .. MaxExpiries
    /\ faults \in 0 .. MaxFaults
    /\ crashes \in 0 .. MaxCrashes

BridgeInit ==
    /\ signals = <<>> /\ unread = 1 /\ pel = {}
    /\ pc = "scan" /\ cur = NoSig /\ todo = {}
    /\ track = [s \in Ids |-> "none"]
    /\ claimed = {} /\ claims = [s \in Ids |-> 0] /\ expiries = 0
    /\ persisted = {} /\ slots = {} /\ cooldown = {} /\ pnl = 0
    /\ opens = [s \in Ids |-> 0]
    /\ closes = [s \in Ids |-> 0]
    /\ books = [s \in Ids |-> 0]
    /\ faults = 0 /\ crashes = 0

NoFault == UNCHANGED faults
Fault   == faults < MaxFaults /\ faults' = faults + 1
Up(f, s) == [f EXCEPT ![s] = @ + 1]

-------------------------------------------------------------------------------
(* Start: recover_from_redis, then the pending signals of this consumer. *)

\* The process ends: every task with it.
Halt ==
    /\ pc' = "down" /\ cur' = NoSig /\ todo' = {}
    /\ track' = [s \in Ids |-> "none"]

Scan ==
    /\ pc = "scan"
    /\ \/ pc' = "respawn" /\ todo' = persisted /\ NoFault /\ UNCHANGED <<cur, track>>
       \/ Fault /\ Halt
    /\ UNCHANGED <<streamVars, claimVars, riskVars, countVars, crashes>>

\* spawn() of a persisted position; its SET writes what is there already.  An
\* exception ends the start and the process.
Respawn(s) ==
    /\ pc = "respawn" /\ s \in todo
    /\ \/ /\ slots' = slots \cup {signals[s]}
          /\ track' = [track EXCEPT ![s] = "watch"]
          /\ todo' = todo \ {s}
          /\ NoFault /\ UNCHANGED <<pc, cur>>
       \/ slots' \in {slots, slots \cup {signals[s]}} /\ Fault /\ Halt
    /\ UNCHANGED <<streamVars, claimVars, persisted, cooldown, pnl, countVars,
                   crashes>>

Recovered ==
    /\ pc = "respawn" /\ todo = {}
    /\ pc' = "pel"
    /\ UNCHANGED <<streamVars, cur, todo, track, claimVars, riskVars, countVars,
                   faults, crashes>>

\* A lost connection is retried.  Any other error of XPENDING or XCLAIM leaves the
\* pending signals for the next start.
RecoverPel ==
    /\ pc = "pel"
    /\ pc' = "idle"
    /\ \/ todo' = pel /\ NoFault
       \/ todo' = {} /\ Fault
    /\ UNCHANGED <<streamVars, cur, track, claimVars, riskVars, countVars, crashes>>

-------------------------------------------------------------------------------
(* The consumer loop and BridgePipeline.process. *)

Replay(s) ==
    /\ pc = "idle" /\ s \in todo
    /\ \A k \in todo : s <= k
    /\ pc' = "handle" /\ cur' = s /\ todo' = todo \ {s}
    /\ UNCHANGED <<streamVars, track, claimVars, riskVars, countVars, faults, crashes>>

\* XREADGROUP ">"; a lost reply leaves the signal pending and unseen.
ReadSignal ==
    /\ pc = "idle" /\ todo = {} /\ unread <= Len(signals)
    /\ unread' = unread + 1
    /\ pel' = pel \cup {unread}
    /\ \/ pc' = "handle" /\ cur' = unread /\ NoFault
       \/ UNCHANGED <<pc, cur>> /\ Fault
    /\ UNCHANGED <<signals, todo, track, claimVars, riskVars, countVars, crashes>>

\* XREADGROUP returned after block_ms with nothing.
ReadNothing ==
    /\ pc = "idle" /\ todo = {} /\ unread > Len(signals)
    /\ UNCHANGED bridgeVars

Goto(step) == pc' = step /\ UNCHANGED cur /\ NoFault
Raise      == pc' = "idle" /\ cur' = NoSig /\ Fault

\* Mutant: the action of a signal is not looked at.
RejectUnnoticed ==
    /\ pc = "handle" /\ signals[cur] = Reject
    /\ \/ /\ cur \notin claimed
          /\ claimed' = claimed \cup {cur}
          /\ claims' = Up(claims, cur)
          /\ Goto("open")
       \/ cur \in claimed /\ Goto("ack") /\ UNCHANGED <<claimed, claims>>
    /\ UNCHANGED <<streamVars, todo, track, expiries, riskVars, countVars, crashes>>

IgnoreReject ==
    /\ pc = "handle" /\ signals[cur] = Reject
    /\ Goto("ack")
    /\ UNCHANGED <<streamVars, todo, track, claimVars, riskVars, countVars, crashes>>

\* Mutant: the answer of SET NX is ignored.
ClaimUnchecked ==
    /\ pc = "handle" /\ signals[cur] # Reject
    /\ claimed' = claimed \cup {cur}
    /\ claims' = IF cur \in claimed THEN claims ELSE Up(claims, cur)
    /\ Goto("open")
    /\ UNCHANGED <<streamVars, todo, track, expiries, riskVars, countVars, crashes>>

\* SET NX: only the first one to claim the signal goes on.
Claim ==
    /\ pc = "handle" /\ signals[cur] # Reject
    /\ \/ /\ cur \notin claimed
          /\ claimed' = claimed \cup {cur}
          /\ claims' = Up(claims, cur)
          /\ Goto("open") \/ Raise
       \/ cur \in claimed /\ Goto("ack") /\ UNCHANGED <<claimed, claims>>
       \/ Raise /\ UNCHANGED <<claimed, claims>>
    /\ UNCHANGED <<streamVars, todo, track, expiries, riskVars, countVars, crashes>>

\* open_position returned None: no candles, stale candles, price drift.
OpenRefused ==
    /\ pc = "open"
    /\ Goto("ack")
    /\ UNCHANGED <<streamVars, todo, track, claimVars, riskVars, countVars, crashes>>

PublishOpen ==
    /\ pc = "open"
    /\ \/ opens' = Up(opens, cur) /\ (Goto("persist") \/ Raise)
       \/ UNCHANGED opens /\ Raise
    /\ UNCHANGED <<streamVars, todo, track, claimVars, riskVars, closes, books, crashes>>

\* Mutant: the position lives in memory only.
PersistSkipped ==
    /\ pc = "persist"
    /\ Goto("slot")
    /\ UNCHANGED <<streamVars, todo, track, claimVars, riskVars, countVars, crashes>>

Persist ==
    /\ pc = "persist"
    /\ \/ persisted' = persisted \cup {cur} /\ (Goto("slot") \/ Raise)
       \/ UNCHANGED persisted /\ Raise
    /\ UNCHANGED <<streamVars, todo, track, claimVars, slots, cooldown, pnl,
                   countVars, crashes>>

\* SADD, and the tracker task unless there is one.
TakeSlot ==
    /\ pc = "slot"
    /\ \/ /\ slots' = slots \cup {signals[cur]}
          /\ \/ /\ Goto("ack")
                /\ track' = [track EXCEPT ![cur] = IF @ = "none" THEN "watch" ELSE @]
             \/ Raise /\ UNCHANGED track
       \/ UNCHANGED <<slots, track>> /\ Raise
    /\ UNCHANGED <<streamVars, todo, claimVars, persisted, cooldown, pnl,
                   countVars, crashes>>

AckSignal ==
    /\ pc = "ack"
    /\ pc' = "idle" /\ cur' = NoSig
    /\ \/ pel' = pel \ {cur} /\ (NoFault \/ Fault)
       \/ UNCHANGED pel /\ Fault
    /\ UNCHANGED <<signals, unread, todo, track, claimVars, riskVars, countVars, crashes>>

-------------------------------------------------------------------------------
(* PositionTracker._track_loop and _cleanup. *)

Step(s, step) == track' = [track EXCEPT ![s] = step] /\ NoFault

\* "except Exception": logged, and the task is gone.
Dies(s) == track' = [track EXCEPT ![s] = "none"] /\ Fault

PublishClose(s) ==
    /\ track[s] = "watch"
    /\ \/ closes' = Up(closes, s) /\ (Step(s, "book") \/ Dies(s))
       \/ UNCHANGED closes /\ Dies(s)
    /\ UNCHANGED <<streamVars, loopVars, claimVars, riskVars, opens, books, crashes>>

\* Mutant: the result is booked only after the position is forgotten.
BookLater(s) ==
    /\ track[s] = "book"
    /\ Step(s, "forget")
    /\ UNCHANGED <<streamVars, loopVars, claimVars, riskVars, countVars, crashes>>

\* INCRBYFLOAT, then EXPIRE: the task may die between the two.
Book(s) ==
    /\ track[s] = "book"
    /\ \/ /\ \E r \in Results : pnl' = pnl + r
          /\ books' = Up(books, s)
          /\ Step(s, "forget") \/ Dies(s)
       \/ UNCHANGED <<pnl, books>> /\ Dies(s)
    /\ UNCHANGED <<streamVars, loopVars, claimVars, persisted, slots, cooldown,
                   opens, closes, crashes>>

\* Mutant: the key of the position is left to a TTL.
ForgetSkipped(s) ==
    /\ track[s] = "forget"
    /\ Step(s, "free")
    /\ UNCHANGED <<streamVars, loopVars, claimVars, riskVars, countVars, crashes>>

Forget(s) ==
    /\ track[s] = "forget"
    /\ \/ persisted' = persisted \ {s} /\ (Step(s, "free") \/ Dies(s))
       \/ UNCHANGED persisted /\ Dies(s)
    /\ UNCHANGED <<streamVars, loopVars, claimVars, slots, cooldown, pnl,
                   countVars, crashes>>

\* Mutant: SREM was forgotten.
FreeSlotSkipped(s) ==
    /\ track[s] = "free"
    /\ Step(s, "cool")
    /\ UNCHANGED <<streamVars, loopVars, claimVars, riskVars, countVars, crashes>>

FreeSlot(s) ==
    /\ track[s] = "free"
    /\ \/ slots' = slots \ {signals[s]} /\ (Step(s, "cool") \/ Dies(s))
       \/ UNCHANGED slots /\ Dies(s)
    /\ UNCHANGED <<streamVars, loopVars, claimVars, persisted, cooldown, pnl,
                   countVars, crashes>>

\* Mutant: no return after the cleanup, the loop goes on polling.
CoolNoReturn(s) ==
    /\ track[s] = "cool"
    /\ cooldown' = cooldown \cup {signals[s]}
    /\ Step(s, "watch")
    /\ UNCHANGED <<streamVars, loopVars, claimVars, persisted, slots, pnl,
                   countVars, crashes>>

Cool(s) ==
    /\ track[s] = "cool"
    /\ \/ cooldown' = cooldown \cup {signals[s]} /\ (Step(s, "none") \/ Dies(s))
       \/ UNCHANGED cooldown /\ Dies(s)
    /\ UNCHANGED <<streamVars, loopVars, claimVars, persisted, slots, pnl,
                   countVars, crashes>>

-------------------------------------------------------------------------------
(* Time, and the life of the process. *)

CooldownEnds(x) ==
    /\ x \in cooldown
    /\ cooldown' = cooldown \ {x}
    /\ UNCHANGED <<streamVars, loopVars, track, claimVars, persisted, slots, pnl,
                   countVars, faults, crashes>>

\* Midnight UTC: from now on another key is read and written.
NewDay ==
    /\ pnl # 0
    /\ pnl' = 0
    /\ UNCHANGED <<streamVars, loopVars, track, claimVars, persisted, slots, cooldown,
                   countVars, faults, crashes>>

ClaimExpires(s) ==
    /\ s \in claimed /\ s # cur /\ expiries < MaxExpiries
    /\ claimed' = claimed \ {s}
    /\ expiries' = expiries + 1
    /\ UNCHANGED <<streamVars, loopVars, track, claims, riskVars, countVars,
                   faults, crashes>>

\* Also a shutdown: stop_all cancels the trackers wherever they are.
Crash ==
    /\ pc # "down" /\ crashes < MaxCrashes
    /\ crashes' = crashes + 1
    /\ Halt
    /\ UNCHANGED <<streamVars, claimVars, riskVars, countVars, faults>>

Restart ==
    /\ pc = "down"
    /\ pc' = "scan"
    /\ UNCHANGED <<streamVars, cur, todo, track, claimVars, riskVars, countVars,
                   faults, crashes>>

\* A producer adds a signal.
Signal(x) ==
    /\ Len(signals) < MaxSignals
    /\ signals' = Append(signals, x)
    /\ UNCHANGED <<unread, pel, loopVars, track, claimVars, riskVars, countVars,
                   faults, crashes>>

Consumer ==
    \/ Scan \/ Recovered \/ RecoverPel \/ ReadSignal \/ ReadNothing
    \/ IgnoreReject \/ Claim \/ OpenRefused \/ PublishOpen \/ Persist \/ TakeSlot \/ AckSignal
    \/ \E s \in Ids : Respawn(s) \/ Replay(s)

Tracker(s) ==
    PublishClose(s) \/ Book(s) \/ Forget(s) \/ FreeSlot(s) \/ Cool(s)

BridgeStep ==
    \/ Consumer
    \/ \E s \in Ids : Tracker(s) \/ ClaimExpires(s)
    \/ \E x \in Tickers : CooldownEnds(x)
    \/ NewDay
    \/ Crash
    \/ Restart

BridgeNext == BridgeStep \/ \E x \in Tickers \cup {Reject} : Signal(x)

BridgeSpec == BridgeInit /\ [][BridgeNext]_bridgeVars

\* The event loop runs every task that can run, the horizon of a position ends
\* some day, and a supervisor starts the process again.
BridgeFairness ==
    /\ WF_bridgeVars(Consumer)
    /\ \A s \in Ids : WF_bridgeVars(Tracker(s))
    /\ WF_bridgeVars(Restart)

-------------------------------------------------------------------------------
(* Properties. *)

\* A signal opens at most one position for each time its claim was free, through
\* replays, lost replies and crashes at any command.
OpenedOncePerClaim == \A s \in Ids : opens[s] <= claims[s]

\* Events and bookings match up: a CLOSE only after an OPEN, another CLOSE of the
\* same position only for an interruption in between, and no result is booked
\* more often than it was announced.
EventsMatch ==
    \A s \in Ids :
        /\ closes[s] <= opens[s] + faults + crashes
        /\ closes[s] > 0 => opens[s] > 0
        /\ books[s] <= closes[s]

\* A crash loses no position that is being tracked: until its result is booked
\* its key is in Redis.  (Once per claim: an expired claim may open the position
\* again while the first tracker is still cleaning up.)
TrackedIsPersisted ==
    \A s \in Ids :
        track[s] \in {"watch", "book", "forget"} /\ claims[s] = 1 => s \in persisted

\* What holds together behind the three.  Delivered names the signals the bridge
\* has seen.  Two who may still publish a CLOSE for s: the consumer that is opening
\* it, by starting a tracker, and the tracker it has or a restart will give it.
Delivered == {s \in Ids : s < unread}

StreamShape ==
    /\ unread <= Len(signals) + 1
    /\ pel \subseteq Delivered
    /\ todo \subseteq Delivered
    /\ persisted \subseteq Delivered

Opening(s) == pc \in {"persist", "slot"} /\ cur = s

Watching(s) ==
    \/ track[s] = "watch"
    \/ s \in persisted /\ track[s] \in {"none", "free", "cool"} /\ ~Opening(s)

ConsumerKnows ==
    /\ pc \in {"handle", "open", "persist", "slot", "ack"} => cur \in Delivered
    /\ pc \in {"open", "persist", "slot"} => signals[cur] # Reject
    /\ pc = "open" => opens[cur] < claims[cur]
    /\ pc \in {"persist", "slot"} => opens[cur] > 0
    /\ pc \in {"persist", "slot"} /\ claims[cur] = 1 => track[cur] = "none"
    /\ pc = "persist" /\ claims[cur] = 1 => cur \notin persisted
    /\ pc = "slot" /\ claims[cur] = 1 => cur \in persisted
    /\ pc = "respawn" => todo \subseteq persisted /\ \A s \in todo : track[s] = "none"
    /\ pc \in {"down", "scan"} => \A s \in Ids : track[s] = "none"

PositionKnows(s) ==
    /\ Opening(s) \/ Watching(s) => closes[s] < opens[s] + faults + crashes
    /\ Opening(s) /\ Watching(s) => closes[s] + 1 < opens[s] + faults + crashes
    /\ s \in persisted \/ track[s] # "none" => opens[s] > 0 /\ signals[s] # Reject
    /\ track[s] # "none" => s \in Delivered
    /\ track[s] = "book" => books[s] < closes[s]
    /\ track[s] = "forget" => books[s] > 0

BridgeInv ==
    /\ BridgeTypeOK
    /\ StreamShape
    /\ ConsumerKnows
    /\ \A s \in Ids : PositionKnows(s)
    /\ OpenedOncePerClaim
    /\ EventsMatch
    /\ TrackedIsPersisted

\* The key of a position is deleted only after its result went into the daily PnL.
ForgottenOnlyWhenBooked ==
    [][\A s \in persisted \ persisted' : books[s] > 0]_bridgeVars

\* While nothing fails, a slot is held only for the position of a tracker or of
\* the consumer: no slot leaks.
NoSlotLeaks ==
    faults + crashes = 0 =>
        \A x \in slots : \E s \in Ids :
            /\ s < unread /\ signals[s] = x
            /\ track[s] \notin {"none", "cool"}

\* A tracked position holds the slot of its ticker, if no other signal names that
\* ticker.
OwnSlotHeld ==
    \A s \in 1 .. unread - 1 :
        /\ track[s] \in {"watch", "book", "forget"}
        /\ \A u \in 1 .. Len(signals) \ {s} : signals[u] # signals[s]
        => signals[s] \in slots

\* The ticker set against the positions: nothing in it without a position while nothing
\* fails, and no position without its ticker while no other signal names it.
SlotsFollowPositions == NoSlotLeaks /\ OwnSlotHeld

\* What holds together behind the two.  Until something fails the bridge handles each
\* signal once: nothing is pending but the signal in its hands, nothing was persisted
\* before it started, and no signal is claimed twice.
HandledOnce ==
    faults + crashes = 0 =>
        /\ pc # "down" /\ todo = {} /\ pel \subseteq {cur}
        /\ pc \in {"scan", "respawn", "pel", "idle"} => pel = {}
        /\ pc \in {"scan", "respawn", "pel"} => persisted = {}
        /\ \A s \in Ids : claims[s] <= IF s < unread /\ ~(pc = "handle" /\ s = cur)
                                       THEN 1 ELSE 0

SlotsInv == HandledOnce /\ SlotsFollowPositions

\* Every persisted position is closed some day, through crashes of either service, unless
\* a command failed or the claim of its signal expired and it was opened again.  (There are
\* MaxSignals signals at most, so that some day no position is open.)
PositionsEnd == persisted # {} ~> persisted = {} \/ faults + expiries > 0

\* risk_manager.py: "SET with the tickers of the current open positions", read
\* without the assumption on tickers.
SlotsNameOpenPositions ==
    \A s \in 1 .. unread - 1 : track[s] = "watch" => signals[s] \in slots
===============================================================================
