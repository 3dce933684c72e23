----------------------------- MODULE CleanRestart ------------------------------
(***************************************************************************)
(* scripts/clean_redis_for_restart.py beside the services it cleans up     *)
(* for: the script's commands on streams and consumer groups, and the      *)
(* service of a group, which reads, acknowledges, stops and starts.  What  *)
(* the service does is reduced to what matters here: when it starts it     *)
(* makes its group if that is missing, and pending entries come back to    *)
(* it (ConsumerGroup has the details).                                     *)
(***************************************************************************)
EXTENDS Naturals

CONSTANTS
    Streams,            \* streams of _CONSUMER_GROUPS, each with its one group
    MaxEntries          \* bound: entries a stream ever gets

ASSUME CleanAssumption == Streams # {} /\ MaxEntries \in Nat

VARIABLES
    redis,              \* of each stream: entries ever added, entries in it, whether its
                        \* group exists, last-delivered-id, PEL
    running,            \* services that run
    handled,            \* history: entries handled and acknowledged, of each stream
    cleaner,             \* "off", "soft", "wipe" or "over"
    commands,               \* commands the script has yet to send
    before              \* what was pending and what was unread when it came to the group

cleanVars == <<redis, running, handled, cleaner, commands, before>>

Unread(s) == {m \in redis[s].entries : m > redis[s].last}

CleanTypeOK ==
    /\ \A s \in Streams : LET r == redis[s] IN
         /\ r.added \in 0 .. MaxEntries /\ r.entries \subseteq 1 .. r.added
         /\ r.last \in 0 .. r.added /\ r.group \in BOOLEAN
         /\ r.pel \subseteq 1 .. r.last /\ r.pel \cap handled[s] = {}
    /\ running \subseteq Streams /\ cleaner \in {"off", "soft", "wipe", "over"}
    /\ commands \subseteq {"group", "stream"} \X Streams /\ (commands # {}) = (cleaner \in {"soft", "wipe"})

CleanInit ==
    /\ redis = [s \in Streams |-> [added |-> 0, entries |-> {}, group |-> TRUE, last |-> 0, pel |-> {}]]
    /\ running = Streams /\ handled = [s \in Streams |-> {}]
    /\ cleaner = "off" /\ commands = {}
    /\ before = [s \in Streams |-> [pel |-> {}, unread |-> {}]]

-------------------------------------------------------------------------------
(* Producers and services. *)

Produce(s) ==
    /\ redis[s].added < MaxEntries
    /\ redis' = [redis EXCEPT ![s].added = @ + 1, ![s].entries = @ \cup {redis[s].added + 1}]
    /\ UNCHANGED <<running, handled, cleaner, commands, before>>

\* The next entry.  Without the group every read fails, as often as it is repeated.
Deliver(s) ==
    /\ s \in running /\ redis[s].group
    /\ \E m \in Unread(s) :
         /\ \A n \in Unread(s) : m <= n
         /\ redis' = [redis EXCEPT ![s].last = m, ![s].pel = @ \cup {m}]
    /\ UNCHANGED <<running, handled, cleaner, commands, before>>

\* The handler returned; until then the entry is pending, and comes back after a failure.
Acknowledge(s, m) ==
    /\ s \in running /\ m \in redis[s].pel
    /\ redis' = [redis EXCEPT ![s].pel = @ \ {m}]
    /\ handled' = [handled EXCEPT ![s] = @ \cup {m}]
    /\ UNCHANGED <<running, cleaner, commands, before>>

StopService(s) ==
    /\ s \in running /\ running' = running \ {s}
    /\ UNCHANGED <<redis, handled, cleaner, commands, before>>

\* XGROUP CREATE ... 0 MKSTREAM; an existing group stays as it is.
StartPosition(s) == IF redis[s].group THEN redis[s].last ELSE 0

StartService(s) ==
    /\ s \notin running /\ running' = running \cup {s}
    /\ redis' = [redis EXCEPT ![s].last = StartPosition(s), ![s].group = TRUE]
    /\ UNCHANGED <<handled, cleaner, commands, before>>

-------------------------------------------------------------------------------
(* The script. *)

\* One run.  All groups come before the first stream.
RunScript(mode) ==
    /\ cleaner = "off" /\ cleaner' = mode
    /\ commands' = {"group"} \X Streams \cup IF mode = "wipe" THEN {"stream"} \X Streams ELSE {}
    /\ UNCHANGED <<redis, running, handled, before>>

\* Mutant: the group is destroyed and made again.
SetIdRemade(s) == [redis[s] EXCEPT !.last = redis[s].added, !.pel = {}]

\* XGROUP SETID $: nothing is unread any more; pending entries stay pending.
SetId(s) == [redis[s] EXCEPT !.last = redis[s].added]

\* Step 2.  A stream that is not there, or a group, is skipped.
ResetGroup(s) ==
    IF redis[s].group
    THEN redis' = [redis EXCEPT ![s] = SetId(s)]
         /\ before' = [before EXCEPT ![s] = [pel |-> redis[s].pel, unread |-> Unread(s)]]
    ELSE UNCHANGED <<redis, before>>

\* Step 4: DEL of a stream takes its group and the PEL with it.
DeleteStream(s) ==
    /\ redis' = [redis EXCEPT ![s].entries = {}, ![s].group = FALSE, ![s].pel = {}]
    /\ UNCHANGED before

Command ==
    \E x \in commands :
        /\ commands' = commands \ {x} /\ cleaner' = IF commands' = {} THEN "over" ELSE cleaner
        /\ \/ x[1] = "group" /\ ResetGroup(x[2])
           \/ x[1] = "stream" /\ ({"group"} \X Streams) \cap commands = {} /\ DeleteStream(x[2])
        /\ UNCHANGED <<running, handled>>

CleanNext ==
    \/ \E s \in Streams : \/ Produce(s) \/ Deliver(s) \/ StopService(s) \/ StartService(s)
                          \/ \E m \in redis[s].pel : Acknowledge(s, m)
    \/ \E mode \in {"soft", "wipe"} : RunScript(mode)
    \/ Command

CleanSpec == CleanInit /\ [][CleanNext]_cleanVars

-------------------------------------------------------------------------------
(* Properties. *)

Deleted(s) == redis[s].entries # 1 .. redis[s].added

\* What was pending when the script came is pending until it is handled, as long as its
\* stream is left, and what was unread then is never handled.
SoftKeepsPending ==
    \A s \in Streams :
        /\ before[s].unread \cap (handled[s] \cup redis[s].pel) = {}
        /\ ~Deleted(s) => before[s].pel \subseteq redis[s].pel \cup handled[s]

\* After its stream was deleted a service skips nothing: what its group is past, it got.
WipeLosesNothingNew ==
    \A s \in Streams :
        Deleted(s) /\ redis[s].group =>
            {m \in redis[s].entries : m <= redis[s].last} \subseteq redis[s].pel \cup handled[s]

\* A soft clean costs what was unread and no more; a wipe costs nothing that comes later.
OnlyUnreadIsLost == SoftKeepsPending /\ WipeLosesNothingNew

-------------------------------------------------------------------------------
(* Why these hold: what the proofs in Checks_proofs carry along. *)

\* What the group, or the one made in its place, has yet to deliver.
ToCome(s) == IF redis[s].group THEN Unread(s) ELSE redis[s].entries

\* Sets of entries, and what is known of each stream.
CleanShape ==
    /\ redis \in [Streams -> [added: Nat, entries: SUBSET Nat, group: BOOLEAN, last: Nat, pel: SUBSET Nat]]
    /\ handled \in [Streams -> SUBSET Nat]
    /\ before \in [Streams -> [pel: SUBSET Nat, unread: SUBSET Nat]]

\* An entry still to come was never delivered, and none was unread when the script came
\* to its group; a deleted stream has no group command of the script before it any more.
CleanOrder ==
    \A s \in Streams :
        /\ ToCome(s) \cap (handled[s] \cup redis[s].pel \cup before[s].unread) = {}
        /\ handled[s] \cup before[s].pel \cup before[s].unread \subseteq 1 .. redis[s].added
        /\ ~redis[s].group => redis[s].pel = {}
        /\ Deleted(s) => cleaner # "off" /\ ({"group"} \X Streams) \cap commands = {}

CleanInv == CleanShape /\ CleanTypeOK /\ CleanOrder /\ OnlyUnreadIsLost
===============================================================================
