----------------------------- MODULE ConsumerGroup -----------------------------
(***************************************************************************)
(* One Redis consumer group as the services of the pipeline use it: the    *)
(* StreamConsumer tasks of one process (src/infra/consumer.py), the        *)
(* optional PelReclaimer task of the same process (src/infra/              *)
(* pel_reclaim.py), and the part of the Redis server they rely on: the     *)
(* stream, the group's last-delivered position and its pending entries     *)
(* list (PEL).                                                             *)
(*                                                                         *)
(* Stream entries are the numbers 1..MaxMsgs, in stream order.  What the   *)
(* handler does is left open here: it returns or it raises.  A module that *)
(* EXTENDS this one puts the steps of a real handler between "handle" and  *)
(* Return or Raise.                                                        *)
(*                                                                         *)
(* Every call to Redis may fail on the connection.  A failure before the   *)
(* command took effect and a reply lost after it took effect are different *)
(* outcomes; both cost one of MaxFaults.  A failed call that the code      *)
(* merely repeats (reset_pool, backoff, continue) changes nothing and is   *)
(* the stuttering step.                                                    *)
(***************************************************************************)
EXTENDS Naturals, FiniteSets

CONSTANTS
    MaxMsgs,        \* bound: number of entries ever added to the stream
    Poison,         \* the entries whose data does not decode into event_type
    Workers,        \* StreamConsumer tasks (consumer names of the group)
    Reclaimers,     \* PelReclaimer tasks: one in the enricher, none elsewhere
    ReadCount,      \* XREADGROUP COUNT, 10 in the code
    RecoverCount,   \* XPENDING COUNT of the startup recovery, 100 in the code
    ReclaimCount,   \* XAUTOCLAIM COUNT, 100 in the code
    MaxDeliveries,  \* max_deliveries, 4 in the code
    MaxFaults,      \* bound: connection failures explored
    MaxCrashes,     \* bound: process crashes explored
    NoTask          \* the owner of an entry that is not pending

Msgs  == 1 .. MaxMsgs
Tasks == Workers \cup Reclaimers
NoMsg == 0

ASSUME GroupAssumption ==
    /\ MaxMsgs \in Nat
    /\ Poison \subseteq Msgs
    /\ Workers \cap Reclaimers = {}
    /\ NoTask \notin Workers \cup Reclaimers
    /\ ReadCount \in Nat \ {0}
    /\ RecoverCount \in Nat \ {0}
    /\ ReclaimCount \in Nat \ {0}
    /\ MaxDeliveries \in Nat
    /\ MaxFaults \in Nat
    /\ MaxCrashes \in Nat

VARIABLES
    added,          \* entries 1..added are in the stream
    lastDelivered,  \* the group's last-delivered-id
    owner,          \* consumer holding each pending entry, NoTask otherwise
    deliveries,     \* times_delivered, saturating at MaxDeliveries + 1
    idle,           \* pending entries idle for at least min_idle_ms
    pc,             \* where each task is
    batch,          \* entries of the fetched batch a task has not reached yet
    cur,            \* the entry a task is working on
    more,           \* a recovery batch was full: ask for another one
    cursor,         \* XAUTOCLAIM cursor of a reclaimer, 0 for "0-0"
    done,           \* history: entries whose handler returned normally
    terminal,       \* entries the dlq_handler of the reclaimer published
    faults,         \* connection failures so far
    crashes         \* crashes so far

serverVars == <<added, lastDelivered, owner, deliveries, idle>>
taskVars   == <<pc, batch, cur, more, cursor>>
groupVars  == <<serverVars, taskVars, done, terminal, faults, crashes>>

GroupSteps == {"down", "recover", "claim", "read", "autoclaim", "next",
               "count", "terminal", "terminal_ack", "handle", "ack"}

GroupTypeOK ==
    /\ added \in 0 .. MaxMsgs
    /\ lastDelivered \in 0 .. MaxMsgs
    /\ owner \in [Msgs -> Tasks \cup {NoTask}]
    /\ deliveries \in [Msgs -> 0 .. MaxDeliveries + 1]
    /\ idle \subseteq Msgs
    /\ pc \in [Tasks -> GroupSteps]
    /\ batch \in [Tasks -> SUBSET Msgs]
    /\ cur \in [Tasks -> Msgs \cup {NoMsg}]
    /\ more \in [Tasks -> BOOLEAN]
    /\ cursor \in [Tasks -> 0 .. MaxMsgs]
    /\ done \subseteq Msgs
    /\ terminal \subseteq Msgs
    /\ faults \in 0 .. MaxFaults
    /\ crashes \in 0 .. MaxCrashes

-------------------------------------------------------------------------------
(* The Redis side. *)

Pel == {m \in Msgs : owner[m] # NoTask}

\* The group has handed the entry out and it is pending no longer.
Settled(m) == m <= lastDelivered /\ owner[m] = NoTask

\* The first n entries of S in stream order.
FirstOf(S, n) == {m \in S : Cardinality({k \in S : k < m}) < n}

\* XREADGROUP, XCLAIM and XAUTOCLAIM give S to consumer t: the delivery counter
\* goes up and the idle time starts again.
Deliver(S, t) ==
    /\ owner' = [m \in Msgs |-> IF m \in S THEN t ELSE owner[m]]
    /\ deliveries' = [m \in Msgs |->
                        IF m \in S /\ deliveries[m] <= MaxDeliveries
                        THEN deliveries[m] + 1 ELSE deliveries[m]]
    /\ idle' = idle \ S

\* XACK, whoever owns the entry.
Xack(m) ==
    /\ owner' = [owner EXCEPT ![m] = NoTask]
    /\ idle' = idle \ {m}

NoFault == UNCHANGED faults
Fault   == faults < MaxFaults /\ faults' = faults + 1

\* A producer adds the next entry.
Append ==
    /\ added < MaxMsgs
    /\ added' = added + 1
    /\ UNCHANGED <<lastDelivered, owner, deliveries, idle, taskVars,
                   done, terminal, faults, crashes>>

\* A pending entry reaches min_idle_ms.  One handler call is shorter than
\* min_idle_ms, so neither the entry under a task's hand nor one that is its
\* turn gets there; an entry waiting behind a handler call may.
BecomeIdle(m) ==
    /\ m \in Pel \ idle
    /\ \A t \in Tasks : cur[t] # m /\ (m \in batch[t] => cur[t] # NoMsg)
    /\ idle' = idle \cup {m}
    /\ UNCHANGED <<added, lastDelivered, owner, deliveries, taskVars,
                   done, terminal, faults, crashes>>

-------------------------------------------------------------------------------
(* StreamConsumer.run: recover the own PEL, then read new entries. *)

\* XPENDING ... consumername=self.
PendingOf(w) == {m \in Msgs : owner[m] = w}

\* The ids the worker wants back.
RecoverPending(w) ==
    /\ pc[w] = "recover"
    /\ LET mine == FirstOf(PendingOf(w), RecoverCount) IN
       \/ /\ mine = {}
          /\ pc' = [pc EXCEPT ![w] = "read"]
          /\ NoFault /\ UNCHANGED batch
       \/ /\ mine # {}
          /\ pc' = [pc EXCEPT ![w] = "claim"]
          /\ batch' = [batch EXCEPT ![w] = mine]
          /\ NoFault
       \/ /\ Fault          \* not a connection error: recovery gives up
          /\ pc' = [pc EXCEPT ![w] = "read"]
          /\ UNCHANGED batch
    /\ UNCHANGED <<serverVars, cur, more, cursor, done, terminal, crashes>>

\* Mutant: XCLAIM ... FORCE, which creates entries that are not pending.
ClaimForced(w) == batch[w]

\* XCLAIM min_idle_time=0 takes every listed id that is still pending, whoever
\* owns it by now.
Claimable(w) == batch[w] \cap Pel

\* Mutant: recovery ends only on an empty PEL.
FullBatchAlways(got) == TRUE

\* A full batch: there may be more to recover.
FullBatch(got) == Cardinality(got) >= RecoverCount

RecoverClaim(w) ==
    /\ pc[w] = "claim"
    /\ LET got == Claimable(w) IN
       \/ /\ got = {}
          /\ pc' = [pc EXCEPT ![w] = "read"]
          /\ batch' = [batch EXCEPT ![w] = {}]
          /\ NoFault /\ UNCHANGED <<owner, deliveries, idle, more>>
       \/ /\ got # {}
          /\ Deliver(got, w)
          /\ pc' = [pc EXCEPT ![w] = "next"]
          /\ batch' = [batch EXCEPT ![w] = got]
          /\ more' = [more EXCEPT ![w] = FullBatch(got)]
          /\ NoFault
       \/ /\ Fault          \* reply lost: reset the pool, ask again
          /\ Deliver(got, w)
          /\ pc' = [pc EXCEPT ![w] = "recover"]
          /\ batch' = [batch EXCEPT ![w] = {}]
          /\ UNCHANGED more
       \/ /\ Fault          \* not a connection error: recovery gives up
          /\ pc' = [pc EXCEPT ![w] = "read"]
          /\ batch' = [batch EXCEPT ![w] = {}]
          /\ UNCHANGED <<owner, deliveries, idle, more>>
    /\ UNCHANGED <<added, lastDelivered, cur, cursor, done, terminal, crashes>>

\* XREADGROUP ">" hands out up to ReadCount entries nobody has been given.
LastRead == IF lastDelivered + ReadCount < added THEN lastDelivered + ReadCount
                                                 ELSE added

Read(w) ==
    /\ pc[w] = "read"
    /\ lastDelivered < added
    /\ LET fresh == (lastDelivered + 1) .. LastRead IN
       /\ lastDelivered' = LastRead
       /\ Deliver(fresh, w)
       /\ \/ /\ pc' = [pc EXCEPT ![w] = "next"]
             /\ batch' = [batch EXCEPT ![w] = fresh]
             /\ NoFault
          \/ /\ Fault       \* reply lost: pending for w, unknown to w
             /\ UNCHANGED <<pc, batch>>
    /\ UNCHANGED <<added, cur, more, cursor, done, terminal, crashes>>

\* XREADGROUP returned after block_ms with nothing.
ReadNothing(w) ==
    /\ pc[w] = "read"
    /\ lastDelivered = added
    /\ UNCHANGED groupVars

\* The loop over a fetched batch.  An entry that does not decode raises inside
\* _handle before the handler is called; it stays pending.
NextOfBatch(t) ==
    /\ pc[t] = "next"
    /\ \E m \in batch[t] :
        /\ \A k \in batch[t] : m <= k
        /\ batch' = [batch EXCEPT ![t] = @ \ {m}]
        /\ IF t \in Workers /\ m \in Poison
           THEN UNCHANGED <<pc, cur>>
           ELSE /\ cur' = [cur EXCEPT ![t] = m]
                /\ pc' = [pc EXCEPT ![t] = IF t \in Workers THEN "handle"
                                                            ELSE "count"]
    /\ UNCHANGED <<serverVars, more, cursor, done, terminal, faults, crashes>>

\* The batch is finished: another recovery batch, the next read, or for the
\* reclaimer the next XAUTOCLAIM.
EndOfBatch(t) ==
    /\ pc[t] = "next"
    /\ batch[t] = {}
    /\ pc' = [pc EXCEPT ![t] = IF t \in Reclaimers THEN "autoclaim"
                               ELSE IF more[t] THEN "recover" ELSE "read"]
    /\ more' = [more EXCEPT ![t] = FALSE]
    /\ UNCHANGED <<serverVars, batch, cur, cursor, done, terminal,
                   faults, crashes>>

\* Mutant: the exception is logged and the entry acknowledged all the same.
RaiseAcks(t) ==
    /\ pc' = [pc EXCEPT ![t] = "ack"]
    /\ UNCHANGED cur

\* The handler's exception is logged and the entry is left pending.
Raise(t) ==
    /\ pc' = [pc EXCEPT ![t] = "next"]
    /\ cur' = [cur EXCEPT ![t] = NoMsg]

\* The handler came back: the entry is acknowledged next.
Return(t) ==
    /\ pc' = [pc EXCEPT ![t] = "ack"]
    /\ done' = done \cup {cur[t]}

\* XACK after the handler; a failure is caught by the same except clause.
Ack(t) ==
    /\ pc[t] = "ack"
    /\ Raise(t)
    /\ \/ Xack(cur[t]) /\ NoFault
       \/ Fault /\ UNCHANGED <<owner, idle>>
    /\ UNCHANGED <<added, lastDelivered, deliveries, batch, more, cursor,
                   done, terminal, crashes>>

-------------------------------------------------------------------------------
(* PelReclaimer._tick and _process_one. *)

\* Mutant: the cursor is computed as the id after the last one claimed.
NextCursorsByHand(due) == {m + 1 : m \in {k \in due : \A j \in due : j <= k}}

\* The cursor XAUTOCLAIM returns with due: the first pending entry after them, or
\* "0-0" at the end of the list.
NextCursors(due) ==
    LET after == {m \in Pel : \A k \in due : k < m} IN
    IF Cardinality(due) < ReclaimCount \/ after = {} THEN {0}
    ELSE {m \in after : \A k \in after : m <= k}

\* XAUTOCLAIM from the cursor: the next ReclaimCount idle entries.
AutoClaim(r) ==
    /\ pc[r] = "autoclaim"
    /\ LET due == FirstOf({m \in idle : m >= cursor[r]}, ReclaimCount) IN
       /\ due # {}
       /\ Deliver(due, r)
       /\ \E c \in NextCursors(due) :
            \/ /\ batch' = [batch EXCEPT ![r] = due]
               /\ cursor' = [cursor EXCEPT ![r] = c]
               /\ pc' = [pc EXCEPT ![r] = "next"]
               /\ NoFault
            \/ /\ Fault     \* reply lost: the tick is abandoned
               /\ cursor' = [cursor EXCEPT ![r] = 0]
               /\ UNCHANGED <<pc, batch>>
    /\ UNCHANGED <<added, lastDelivered, cur, more, done, terminal, crashes>>

\* Nothing is due behind the cursor: the tick ends and the next one starts over.
EndOfTick(r) ==
    /\ pc[r] = "autoclaim"
    /\ {m \in idle : m >= cursor[r]} = {}
    /\ cursor[r] # 0
    /\ cursor' = [cursor EXCEPT ![r] = 0]
    /\ UNCHANGED <<serverVars, pc, batch, cur, more, done, terminal,
                   faults, crashes>>

\* Mutant: the limit is never noticed.
OverLimitIgnored(n) == FALSE

OverLimit(n) == MaxDeliveries > 0 /\ n > MaxDeliveries

\* _get_delivery_count: 0 when the entry is no longer pending or the call fails.
\* An entry over the limit is given up, the others go to the handler.
CheckDeliveries(r) ==
    /\ pc[r] = "count"
    /\ \E n \in 0 .. MaxDeliveries + 1 :
        /\ \/ n = (IF cur[r] \in Pel THEN deliveries[cur[r]] ELSE 0) /\ NoFault
           \/ n = 0 /\ Fault
        /\ \/ /\ OverLimit(n)
              /\ pc' = [pc EXCEPT ![r] = "terminal"]
              /\ UNCHANGED cur
           \/ /\ ~OverLimit(n)
              /\ IF cur[r] \in Poison
                 THEN Raise(r)
                 ELSE pc' = [pc EXCEPT ![r] = "handle"] /\ UNCHANGED cur
    /\ UNCHANGED <<serverVars, batch, more, cursor, done, terminal, crashes>>

\* Mutant: no dlq_handler is wired.
TerminalDlqSkipped(r) ==
    /\ pc[r] = "terminal"
    /\ pc' = [pc EXCEPT ![r] = "terminal_ack"]
    /\ UNCHANGED <<serverVars, batch, cur, more, cursor, done, terminal,
                   faults, crashes>>

\* The dlq_handler publishes the entry; its exception is swallowed.
TerminalDlq(r) ==
    /\ pc[r] = "terminal"
    /\ pc' = [pc EXCEPT ![r] = "terminal_ack"]
    /\ \/ terminal' = terminal \cup {cur[r]} /\ NoFault
       \/ Fault /\ UNCHANGED terminal
    /\ UNCHANGED <<serverVars, batch, cur, more, cursor, done, crashes>>

\* "ack regardless to release the slot".
TerminalAck(r) ==
    /\ pc[r] = "terminal_ack"
    /\ Raise(r)
    /\ \/ Xack(cur[r]) /\ NoFault
       \/ Fault /\ UNCHANGED <<owner, idle>>
    /\ UNCHANGED <<added, lastDelivered, deliveries, batch, more, cursor,
                   done, terminal, crashes>>

-------------------------------------------------------------------------------
(* The process: all tasks live and die together. *)

Crash ==
    /\ crashes < MaxCrashes
    /\ \E t \in Tasks : pc[t] # "down"
    /\ crashes' = crashes + 1
    /\ pc' = [t \in Tasks |-> "down"]
    /\ batch' = [t \in Tasks |-> {}]
    /\ cur' = [t \in Tasks |-> NoMsg]
    /\ more' = [t \in Tasks |-> FALSE]
    /\ cursor' = [t \in Tasks |-> 0]
    /\ UNCHANGED <<serverVars, done, terminal, faults>>

\* The consumer names are the same after a restart.
FirstStep(t) == IF t \in Workers THEN "recover" ELSE "autoclaim"

Restart ==
    /\ \A t \in Tasks : pc[t] = "down"
    /\ pc' = [t \in Tasks |-> FirstStep(t)]
    /\ UNCHANGED <<serverVars, batch, cur, more, cursor, done, terminal,
                   faults, crashes>>

-------------------------------------------------------------------------------

GroupInit ==
    /\ added = 0
    /\ lastDelivered = 0
    /\ owner = [m \in Msgs |-> NoTask]
    /\ deliveries = [m \in Msgs |-> 0]
    /\ idle = {}
    /\ pc = [t \in Tasks |-> FirstStep(t)]
    /\ batch = [t \in Tasks |-> {}]
    /\ cur = [t \in Tasks |-> NoMsg]
    /\ more = [t \in Tasks |-> FALSE]
    /\ cursor = [t \in Tasks |-> 0]
    /\ done = {}
    /\ terminal = {}
    /\ faults = 0
    /\ crashes = 0

WorkerStep(w) ==
    \/ RecoverPending(w) \/ RecoverClaim(w) \/ Read(w) \/ ReadNothing(w)

ReclaimerStep(r) ==
    \/ AutoClaim(r) \/ EndOfTick(r) \/ CheckDeliveries(r)
    \/ TerminalDlq(r) \/ TerminalAck(r)

BatchStep(t) == NextOfBatch(t) \/ EndOfBatch(t) \/ Ack(t)

InfraNext ==
    \/ Append
    \/ \E m \in Msgs : BecomeIdle(m)
    \/ \E w \in Workers : WorkerStep(w)
    \/ \E r \in Reclaimers : ReclaimerStep(r)
    \/ \E t \in Tasks : BatchStep(t)
    \/ Crash
    \/ Restart

\* Any handler: it returns or it raises, and its own calls may fail too.
HandlerReturns(t) ==
    /\ pc[t] = "handle"
    /\ Return(t)
    /\ NoFault \/ Fault
    /\ UNCHANGED <<serverVars, batch, cur, more, cursor, terminal, crashes>>

HandlerRaises(t) ==
    /\ pc[t] = "handle"
    /\ Raise(t)
    /\ NoFault \/ Fault
    /\ UNCHANGED <<serverVars, batch, more, cursor, done, terminal, crashes>>

AnyHandler(t) == HandlerReturns(t) \/ HandlerRaises(t)

GroupNext == InfraNext \/ \E t \in Tasks : AnyHandler(t)

GroupSpec == GroupInit /\ [][GroupNext]_groupVars

(* The event loop runs every task that can run, an unacknowledged entry      *)
(* gets old, a crashed process is started again.  Nothing is promised of     *)
(* producers, faults or crashes.                                             *)
GroupFairness ==
    /\ \A w \in Workers : WF_groupVars(WorkerStep(w))
    /\ \A r \in Reclaimers : WF_groupVars(ReclaimerStep(r))
    /\ \A t \in Tasks : WF_groupVars(BatchStep(t)) /\ WF_groupVars(AnyHandler(t))
    /\ \A m \in Msgs : WF_groupVars(BecomeIdle(m))
    /\ WF_groupVars(Restart)

FairGroupSpec == GroupSpec /\ GroupFairness

-------------------------------------------------------------------------------
(* Properties. *)

\* An entry leaves the pending list for a reason only: its handler returned, or
\* the reclaimer saw it delivered more than max_deliveries times.  Thefts by
\* XCLAIM and XAUTOCLAIM, lost replies and crashes never acknowledge it.
SettledForAReason ==
    \A m \in Msgs : Settled(m) => m \in done \/ deliveries[m] > MaxDeliveries

\* An entry that cannot be decoded is acknowledged only after a record of it
\* went to the dead-letter stream, as long as no connection failed.
PoisonReachesDlq ==
    \A m \in Poison : Settled(m) /\ faults = 0 => m \in terminal

\* What holds together behind the two: who may be pending, and what a task
\* standing at a step knows about its entry.
PelShape ==
    /\ lastDelivered <= added
    /\ idle \subseteq Pel
    /\ \A m \in Pel : m <= lastDelivered

TaskKnows(t) ==
    /\ pc[t] \in {"count", "terminal", "terminal_ack", "handle", "ack"}
       => cur[t] \in Msgs
    /\ pc[t] \in {"handle", "ack"} => cur[t] \notin Poison
    /\ pc[t] = "ack" => cur[t] \in done
    /\ pc[t] \in {"terminal", "terminal_ack"} => deliveries[cur[t]] > MaxDeliveries
    /\ pc[t] = "terminal_ack" => cur[t] \in terminal \/ faults > 0

GroupInv ==
    /\ GroupTypeOK
    /\ PelShape
    /\ \A t \in Tasks : TaskKnows(t)
    /\ SettledForAReason
    /\ PoisonReachesDlq

\* What else holds of the tasks' hands, whatever fails.  A task between two
\* batches holds nothing, one between two entries has none under its hand, and
\* nobody holds an entry the group has not handed out.
InHand(t, m) == m \in batch[t] \/ cur[t] = m

TaskShape(t) ==
    /\ pc[t] \in {"down", "recover", "claim", "read", "autoclaim", "next"}
       => cur[t] = NoMsg
    /\ pc[t] \in {"down", "recover", "read", "autoclaim"} => batch[t] = {}
    /\ pc[t] \in {"down", "recover", "claim", "read"} => ~more[t]
    /\ pc[t] \in {"recover", "claim", "read"} => t \in Workers
    /\ pc[t] \in {"autoclaim", "count", "terminal", "terminal_ack"}
       => t \in Reclaimers
    /\ \A m \in Msgs : InHand(t, m) => m <= lastDelivered

\* An entry a recovering worker listed is on no other worker's list, and no
\* other worker got it in the meantime.
Listed(w, m) == pc[w] = "claim" /\ m \in batch[w]

ListedOnce ==
    \A w \in Workers, m \in Msgs :
        Listed(w, m) => /\ owner[m] \notin Workers \ {w}
                        /\ \A u \in Workers : Listed(u, m) => u = w

\* Until the first crash nobody has a PEL to recover, so nothing the reclaimer
\* took goes back to a worker.
FirstLife ==
    crashes = 0 =>
        /\ \A w \in Workers : /\ ~more[w] /\ pc[w] # "claim"
                              /\ pc[w] = "recover" => PendingOf(w) = {}
        /\ \A t \in Tasks : pc[t] # "down"
        /\ \A r \in Reclaimers, m \in Msgs : InHand(r, m) => owner[m] \notin Workers

HandsInv == (\A t \in Tasks : TaskShape(t)) /\ ListedOnce /\ FirstLife

\* An acknowledged entry never comes back into the pending list, although a
\* recovering worker claims ids it listed a while ago.
SettledForGood ==
    [][\A m \in Msgs : Settled(m) => Settled(m)']_groupVars

\* No two tasks run the handler on the same entry at the same time
\* (pel_reclaim.py: "so we never steal in-flight work from a still-running
\* consumer").
ExclusiveHandling ==
    \A t, u \in Tasks :
        pc[t] = "handle" /\ pc[u] = "handle" /\ cur[t] = cur[u] => t = u

\* A worker that starts gets to new entries once it went through its own PEL
\* (consumer.py: "Once PEL is drained, switches to '>' to read new messages").
RecoveryEnds ==
    \A w \in Workers : pc[w] = "recover" ~> pc[w] \in {"read", "down"}

\* Whatever the handler does, every entry in the stream is settled in the end.
EverythingSettles == \A m \in Msgs : added >= m ~> Settled(m)
===============================================================================
