------------------------- MODULE ConsumerGroup_proofs -------------------------
(***************************************************************************)
(* Proofs about ConsumerGroup, for every value of its constants.           *)
(***************************************************************************)
EXTENDS ConsumerGroup, TLAPS

\* Handing entries to a task keeps the types and never lowers a counter.
LEMMA DeliverFacts ==
    ASSUME GroupTypeOK, NEW S \in SUBSET Msgs, NEW t \in Tasks, Deliver(S, t)
    PROVE  /\ owner' \in [Msgs -> Tasks \cup {NoTask}]
           /\ deliveries' \in [Msgs -> 0 .. MaxDeliveries + 1]
           /\ idle' \subseteq Msgs
           /\ \A m \in Msgs : deliveries'[m] >= deliveries[m]
           /\ \A m \in S : owner'[m] = t
           /\ \A m \in Msgs \ S : owner'[m] = owner[m]
           /\ idle' = idle \ S
BY GroupAssumption DEF GroupTypeOK, Deliver, Tasks

\* Acknowledging an entry clears its owner and nothing else.
LEMMA XackFacts ==
    ASSUME GroupTypeOK, NEW m \in Msgs, Xack(m)
    PROVE  /\ owner' \in [Msgs -> Tasks \cup {NoTask}]
           /\ idle' \subseteq Msgs
           /\ owner'[m] = NoTask
           /\ \A k \in Msgs \ {m} : owner'[k] = owner[k]
           /\ idle' = idle \ {m}
BY DEF GroupTypeOK, Xack

\* The position XREADGROUP moves to lies between the old one and the end.
LEMMA LastReadFacts ==
    ASSUME GroupTypeOK, PelShape, lastDelivered < added
    PROVE  /\ LastRead \in lastDelivered + 1 .. added
           /\ LastRead \in 0 .. MaxMsgs
           /\ (lastDelivered + 1) .. LastRead \subseteq Msgs
BY GroupAssumption DEF GroupTypeOK, PelShape, LastRead, Msgs

\* The mark of an entry that is not pending is no consumer.
LEMMA NoTaskIsNoTask == \A t \in Tasks : t # NoTask
BY GroupAssumption DEF Tasks

\* The invariant holds for a fresh group.
LEMMA InitInv == GroupInit => GroupInv
BY GroupAssumption
   DEF GroupInit, GroupInv, GroupTypeOK, PelShape, TaskKnows, SettledForAReason,
       PoisonReachesDlq, Settled, Pel, FirstStep, GroupSteps, Msgs, NoMsg

-------------------------------------------------------------------------------
(* One lemma per action. *)

\* A producer adds an entry: nothing that is pending changes.
LEMMA AppendInv ==
    ASSUME GroupInv, Append
    PROVE  GroupInv'
<1> USE DEF GroupInv
<1>1. GroupTypeOK'
  BY GroupAssumption DEF GroupTypeOK, Append, taskVars, Msgs
<1>2. PelShape'
  BY GroupAssumption DEF GroupTypeOK, PelShape, Pel, Append, taskVars, Msgs
<1>3. ASSUME NEW t \in Tasks PROVE TaskKnows(t)'
  BY GroupAssumption DEF GroupTypeOK, TaskKnows, Append, taskVars, Msgs
<1>4. SettledForAReason' /\ PoisonReachesDlq'
  BY GroupAssumption
     DEF GroupTypeOK, PelShape, Pel, TaskKnows, SettledForAReason,
         PoisonReachesDlq, Settled, Append, taskVars, Msgs
<1>5. QED
  BY <1>1, <1>2, <1>3, <1>4

\* Only pending entries become idle.
LEMMA BecomeIdleInv ==
    ASSUME GroupInv, NEW m \in Msgs, BecomeIdle(m)
    PROVE  GroupInv'
<1> USE DEF GroupInv
<1>1. GroupTypeOK'
  BY GroupAssumption DEF GroupTypeOK, BecomeIdle, taskVars
<1>2. PelShape'
  BY DEF GroupTypeOK, PelShape, Pel, BecomeIdle, taskVars
<1>3. ASSUME NEW t \in Tasks PROVE TaskKnows(t)'
  BY DEF GroupTypeOK, TaskKnows, BecomeIdle, taskVars
<1>4. SettledForAReason' /\ PoisonReachesDlq'
  BY DEF GroupTypeOK, PelShape, Pel, TaskKnows, SettledForAReason,
         PoisonReachesDlq, Settled, BecomeIdle, taskVars
<1>5. QED
  BY <1>1, <1>2, <1>3, <1>4

\* Listing the own PEL moves the worker only.
LEMMA RecoverPendingInv ==
    ASSUME GroupInv, NEW w \in Workers, RecoverPending(w)
    PROVE  GroupInv'
<1> USE DEF GroupInv
<1>1. GroupTypeOK'
  <2> DEFINE mine == FirstOf(PendingOf(w), RecoverCount)
  <2>1. mine \subseteq Msgs /\ w \in Tasks
    BY DEF FirstOf, PendingOf, Tasks
  <2>2. pc' \in [Tasks -> GroupSteps] /\ batch' \in [Tasks -> SUBSET Msgs]
    BY <2>1 DEF GroupTypeOK, RecoverPending, GroupSteps
  <2>3. faults' \in 0 .. MaxFaults
    BY GroupAssumption DEF GroupTypeOK, RecoverPending, NoFault, Fault
  <2>4. QED
    BY <2>2, <2>3 DEF GroupTypeOK, RecoverPending, serverVars
<1>2. PelShape'
  BY DEF GroupTypeOK, PelShape, Pel, RecoverPending, serverVars, PendingOf,
         FirstOf, NoFault, Fault, GroupSteps, Tasks
<1>3. ASSUME NEW t \in Tasks PROVE TaskKnows(t)'
  BY DEF GroupTypeOK, TaskKnows, RecoverPending, serverVars, PendingOf,
         FirstOf, NoFault, Fault, GroupSteps, Tasks
<1>4. SettledForAReason' /\ PoisonReachesDlq'
  BY DEF GroupTypeOK, PelShape, Pel, TaskKnows, SettledForAReason,
         PoisonReachesDlq, Settled, RecoverPending, serverVars, PendingOf,
         FirstOf, NoFault, Fault, GroupSteps, Tasks
<1>5. QED
  BY <1>1, <1>2, <1>3, <1>4

\* XCLAIM takes pending entries only, so it settles and unsettles nothing.
LEMMA RecoverClaimInv ==
    ASSUME GroupInv, NEW w \in Workers, RecoverClaim(w)
    PROVE  GroupInv'
<1> USE DEF GroupInv
<1>1. GroupTypeOK'
  <2> DEFINE got == Claimable(w)
  <2>1. got \subseteq Msgs /\ w \in Tasks
    BY DEF Claimable, Pel, Tasks
  <2>2. /\ pc' \in [Tasks -> GroupSteps]
        /\ batch' \in [Tasks -> SUBSET Msgs]
        /\ more' \in [Tasks -> BOOLEAN]
    <3>1. pc' \in [Tasks -> GroupSteps] /\ batch' \in [Tasks -> SUBSET Msgs]
      BY <2>1 DEF GroupTypeOK, RecoverClaim, GroupSteps
    <3>2. FullBatch(got) \in BOOLEAN
      BY DEF FullBatch
    <3>3. more' = more \/ more' = [more EXCEPT ![w] = FullBatch(got)]
      BY DEF RecoverClaim
    <3>4. more' \in [Tasks -> BOOLEAN]
      BY <3>2, <3>3 DEF GroupTypeOK
    <3>5. QED
      BY <3>1, <3>4
  <2>3. /\ owner' \in [Msgs -> Tasks \cup {NoTask}]
        /\ deliveries' \in [Msgs -> 0 .. MaxDeliveries + 1]
        /\ idle' \subseteq Msgs
    <3>1. CASE Deliver(got, w)
      BY <2>1, <3>1, DeliverFacts
    <3>2. CASE UNCHANGED <<owner, deliveries, idle>>
      BY <3>2 DEF GroupTypeOK
    <3>3. QED
      BY <3>1, <3>2 DEF RecoverClaim
  <2>4. faults' \in 0 .. MaxFaults
    BY GroupAssumption DEF GroupTypeOK, RecoverClaim, NoFault, Fault
  <2>5. QED
    BY <2>2, <2>3, <2>4 DEF GroupTypeOK, RecoverClaim
<1>2. PelShape'
  BY GroupAssumption, NoTaskIsNoTask
     DEF Deliver, GroupTypeOK, PelShape, Pel, RecoverClaim, Claimable,
         FullBatch, NoFault, Fault, GroupSteps, Tasks, Pel
<1>3. ASSUME NEW t \in Tasks PROVE TaskKnows(t)'
  BY GroupAssumption, NoTaskIsNoTask
     DEF Deliver, GroupTypeOK, TaskKnows, RecoverClaim, Claimable, FullBatch,
         NoFault, Fault, GroupSteps, Tasks, Pel
<1>4. SettledForAReason' /\ PoisonReachesDlq'
  BY GroupAssumption, NoTaskIsNoTask
     DEF Deliver, GroupTypeOK, PelShape, Pel, TaskKnows, SettledForAReason,
         PoisonReachesDlq, Settled, RecoverClaim, Claimable, FullBatch,
         NoFault, Fault, GroupSteps, Tasks, Pel
<1>5. QED
  BY <1>1, <1>2, <1>3, <1>4

\* XREADGROUP hands out entries beyond the last delivered one.
LEMMA ReadInv ==
    ASSUME GroupInv, NEW w \in Workers, Read(w)
    PROVE  GroupInv'
<1> USE DEF GroupInv
<1> DEFINE fresh == (lastDelivered + 1) .. LastRead
<1>1. /\ fresh \subseteq Msgs
      /\ w \in Tasks
      /\ LastRead \in lastDelivered + 1 .. added
      /\ lastDelivered' = LastRead
      /\ LastRead \in 0 .. MaxMsgs
      /\ Deliver(fresh, w)
  BY LastReadFacts DEF Read, Tasks
<1>2. /\ owner' \in [Msgs -> Tasks \cup {NoTask}]
      /\ deliveries' \in [Msgs -> 0 .. MaxDeliveries + 1]
      /\ idle' \subseteq Msgs
      /\ \A m \in Msgs : deliveries'[m] >= deliveries[m]
      /\ \A m \in fresh : owner'[m] = w
      /\ \A m \in Msgs \ fresh : owner'[m] = owner[m]
      /\ idle' = idle \ fresh
  BY <1>1, DeliverFacts
<1>3. GroupTypeOK'
  <2>1. pc' \in [Tasks -> GroupSteps] /\ batch' \in [Tasks -> SUBSET Msgs]
    <3>1. \/ pc' = [pc EXCEPT ![w] = "next"] /\ batch' = [batch EXCEPT ![w] = fresh]
          \/ pc' = pc /\ batch' = batch
      BY DEF Read
    <3>2. pc \in [Tasks -> GroupSteps] /\ batch \in [Tasks -> SUBSET Msgs]
      BY DEF GroupTypeOK
    <3>3. "next" \in GroupSteps
      BY DEF GroupSteps
    <3>4. QED
      BY <1>1, <3>1, <3>2, <3>3
  <2>2. faults' \in 0 .. MaxFaults
    BY GroupAssumption DEF GroupTypeOK, Read, NoFault, Fault
  <2>3. QED
    BY <1>1, <1>2, <2>1, <2>2 DEF GroupTypeOK, Read
<1>4. PelShape'
  <2>1. lastDelivered' <= added'
    BY <1>1 DEF GroupTypeOK, Read
  <2>2. idle' \subseteq Pel'
    BY <1>2, NoTaskIsNoTask DEF PelShape, Pel, Msgs
  <2>3. \A m \in Pel' : m <= lastDelivered'
    BY <1>1, <1>2 DEF GroupTypeOK, PelShape, Pel, Msgs
  <2>4. QED
    BY <2>1, <2>2, <2>3 DEF PelShape
<1>5. ASSUME NEW t \in Tasks PROVE TaskKnows(t)'
  <2>1. pc'[t] # pc[t] => pc'[t] = "next"
    BY DEF GroupTypeOK, Read
  <2>2. cur'[t] = cur[t] /\ done' = done /\ terminal' = terminal /\ faults' >= faults
    BY GroupAssumption DEF GroupTypeOK, Read, NoFault, Fault
  <2>3. QED
    <3>1. TaskKnows(t)
      OBVIOUS
    <3>2. cur[t] \in Msgs => deliveries'[cur[t]] >= deliveries[cur[t]]
      BY <1>2
    <3>3. faults > 0 => faults' > 0
      BY <2>2, <1>3 DEF GroupTypeOK
    <3>4. CASE pc'[t] = "next"
      BY <3>4 DEF TaskKnows
    <3>5. CASE pc'[t] = pc[t]
      <4>1. cur[t] \in Msgs /\ deliveries[cur[t]] > MaxDeliveries
              => deliveries'[cur[t]] > MaxDeliveries
        BY <3>2, <1>3, GroupAssumption DEF GroupTypeOK
      <4>2. QED
        BY <2>2, <3>1, <3>3, <3>5, <4>1 DEF TaskKnows
    <3>6. QED
      BY <2>1, <3>4, <3>5
<1>6. SettledForAReason' /\ PoisonReachesDlq'
  <2>1. \A m \in Msgs : Settled(m)' => Settled(m)
    BY <1>1, <1>2, NoTaskIsNoTask DEF GroupTypeOK, Settled, Msgs
  <2>2. done' = done /\ terminal' = terminal /\ (faults' = 0 => faults = 0)
    BY DEF GroupTypeOK, Read, NoFault, Fault
  <2>3. QED
    BY <1>2, <2>1, <2>2, GroupAssumption
       DEF GroupTypeOK, SettledForAReason, PoisonReachesDlq
<1>7. QED
  BY <1>3, <1>4, <1>5, <1>6

\* A worker that reaches the handler has an entry that decodes.
LEMMA NextOfBatchInv ==
    ASSUME GroupInv, NEW u \in Tasks, NextOfBatch(u)
    PROVE  GroupInv'
<1> USE DEF GroupInv
<1>1. GroupTypeOK'
  BY GroupAssumption DEF GroupTypeOK, NextOfBatch, serverVars, GroupSteps
<1>2. PelShape'
  BY DEF GroupTypeOK, PelShape, Pel, NextOfBatch, serverVars, GroupSteps
<1>3. ASSUME NEW t \in Tasks PROVE TaskKnows(t)'
  BY DEF GroupTypeOK, TaskKnows, NextOfBatch, serverVars, GroupSteps
<1>4. SettledForAReason' /\ PoisonReachesDlq'
  BY DEF GroupTypeOK, PelShape, Pel, TaskKnows, SettledForAReason,
         PoisonReachesDlq, Settled, NextOfBatch, serverVars, GroupSteps
<1>5. QED
  BY <1>1, <1>2, <1>3, <1>4

\* The end of a batch moves the task only.
LEMMA EndOfBatchInv ==
    ASSUME GroupInv, NEW u \in Tasks, EndOfBatch(u)
    PROVE  GroupInv'
<1> USE DEF GroupInv
<1>1. GroupTypeOK'
  BY GroupAssumption DEF GroupTypeOK, EndOfBatch, serverVars, GroupSteps
<1>2. PelShape'
  BY DEF GroupTypeOK, PelShape, Pel, EndOfBatch, serverVars, GroupSteps
<1>3. ASSUME NEW t \in Tasks PROVE TaskKnows(t)'
  BY DEF GroupTypeOK, TaskKnows, EndOfBatch, serverVars, GroupSteps
<1>4. SettledForAReason' /\ PoisonReachesDlq'
  BY DEF GroupTypeOK, PelShape, Pel, TaskKnows, SettledForAReason,
         PoisonReachesDlq, Settled, EndOfBatch, serverVars, GroupSteps
<1>5. QED
  BY <1>1, <1>2, <1>3, <1>4

\* The XACK after the handler settles an entry whose handler returned.
LEMMA AckInv ==
    ASSUME GroupInv, NEW u \in Tasks, Ack(u)
    PROVE  GroupInv'
<1> USE DEF GroupInv
<1>1. GroupTypeOK'
  BY GroupAssumption
     DEF Xack, GroupTypeOK, Ack, Raise, NoFault, Fault, GroupSteps, NoMsg
<1>2. PelShape'
  BY GroupAssumption
     DEF Xack, GroupTypeOK, PelShape, Pel, Ack, Raise, NoFault, Fault,
         GroupSteps, NoMsg
<1>3. ASSUME NEW t \in Tasks PROVE TaskKnows(t)'
  BY GroupAssumption
     DEF Xack, GroupTypeOK, TaskKnows, Ack, Raise, NoFault, Fault, GroupSteps,
         NoMsg
<1>4. SettledForAReason' /\ PoisonReachesDlq'
  BY GroupAssumption
     DEF Xack, GroupTypeOK, PelShape, Pel, TaskKnows, SettledForAReason,
         PoisonReachesDlq, Settled, Ack, Raise, NoFault, Fault, GroupSteps,
         NoMsg
<1>5. QED
  BY <1>1, <1>2, <1>3, <1>4

\* XAUTOCLAIM takes idle, hence pending, entries.
LEMMA AutoClaimInv ==
    ASSUME GroupInv, NEW r \in Reclaimers, AutoClaim(r)
    PROVE  GroupInv'
<1> USE DEF GroupInv
<1>1. GroupTypeOK'
  <2> DEFINE due == FirstOf({m \in idle : m >= cursor[r]}, ReclaimCount)
  <2>1. due \subseteq Msgs /\ r \in Tasks /\ Deliver(due, r)
    BY DEF AutoClaim, FirstOf, GroupTypeOK, Tasks
  <2>2. /\ owner' \in [Msgs -> Tasks \cup {NoTask}]
        /\ deliveries' \in [Msgs -> 0 .. MaxDeliveries + 1]
        /\ idle' \subseteq Msgs
    BY <2>1, DeliverFacts
  <2>3. pc' \in [Tasks -> GroupSteps] /\ batch' \in [Tasks -> SUBSET Msgs]
    BY <2>1 DEF GroupTypeOK, AutoClaim, GroupSteps
  <2>4. cursor' \in [Tasks -> 0 .. MaxMsgs]
    <3>1. PICK c \in NextCursors(due) :
             \/ cursor' = [cursor EXCEPT ![r] = c]
             \/ cursor' = [cursor EXCEPT ![r] = 0]
      BY DEF AutoClaim
    <3>2. c \in 0 .. MaxMsgs
      BY <3>1, GroupAssumption DEF NextCursors, Pel, Msgs
    <3>3. QED
      BY <3>1, <3>2, GroupAssumption DEF GroupTypeOK
  <2>5. faults' \in 0 .. MaxFaults
    BY GroupAssumption DEF GroupTypeOK, AutoClaim, NoFault, Fault
  <2>6. QED
    BY <2>2, <2>3, <2>4, <2>5 DEF GroupTypeOK, AutoClaim
<1>2. PelShape'
  BY GroupAssumption, NoTaskIsNoTask
     DEF Deliver, GroupTypeOK, PelShape, Pel, AutoClaim, FirstOf, NoFault,
         Fault, GroupSteps, Tasks, Pel, Msgs
<1>3. ASSUME NEW t \in Tasks PROVE TaskKnows(t)'
  BY GroupAssumption, NoTaskIsNoTask
     DEF Deliver, GroupTypeOK, TaskKnows, AutoClaim, FirstOf, NoFault, Fault,
         GroupSteps, Tasks, Pel, Msgs
<1>4. SettledForAReason' /\ PoisonReachesDlq'
  BY GroupAssumption, NoTaskIsNoTask
     DEF Deliver, GroupTypeOK, PelShape, Pel, TaskKnows, SettledForAReason,
         PoisonReachesDlq, Settled, AutoClaim, FirstOf, NoFault, Fault,
         GroupSteps, Tasks, Pel, Msgs
<1>5. QED
  BY <1>1, <1>2, <1>3, <1>4

\* The end of a tick moves the cursor only.
LEMMA EndOfTickInv ==
    ASSUME GroupInv, NEW r \in Reclaimers, EndOfTick(r)
    PROVE  GroupInv'
<1> USE DEF GroupInv
<1>1. GroupTypeOK'
  BY GroupAssumption DEF GroupTypeOK, EndOfTick, serverVars, GroupSteps, Tasks
<1>2. PelShape'
  BY DEF GroupTypeOK, PelShape, Pel, EndOfTick, serverVars, GroupSteps, Tasks
<1>3. ASSUME NEW t \in Tasks PROVE TaskKnows(t)'
  BY DEF GroupTypeOK, TaskKnows, EndOfTick, serverVars, GroupSteps, Tasks
<1>4. SettledForAReason' /\ PoisonReachesDlq'
  BY DEF GroupTypeOK, PelShape, Pel, TaskKnows, SettledForAReason,
         PoisonReachesDlq, Settled, EndOfTick, serverVars, GroupSteps, Tasks
<1>5. QED
  BY <1>1, <1>2, <1>3, <1>4

\* The reclaimer gives up only what was delivered too often.
LEMMA CheckDeliveriesInv ==
    ASSUME GroupInv, NEW r \in Reclaimers, CheckDeliveries(r)
    PROVE  GroupInv'
<1> USE DEF GroupInv
<1>1. GroupTypeOK'
  BY GroupAssumption
     DEF GroupTypeOK, CheckDeliveries, OverLimit, Raise, serverVars, NoFault,
         Fault, GroupSteps, Tasks, NoMsg, Pel
<1>2. PelShape'
  BY GroupAssumption
     DEF GroupTypeOK, PelShape, Pel, CheckDeliveries, OverLimit, Raise,
         serverVars, NoFault, Fault, GroupSteps, Tasks, NoMsg, Pel
<1>3. ASSUME NEW t \in Tasks PROVE TaskKnows(t)'
  BY GroupAssumption
     DEF GroupTypeOK, TaskKnows, CheckDeliveries, OverLimit, Raise, serverVars,
         NoFault, Fault, GroupSteps, Tasks, NoMsg, Pel
<1>4. SettledForAReason' /\ PoisonReachesDlq'
  BY GroupAssumption
     DEF GroupTypeOK, PelShape, Pel, TaskKnows, SettledForAReason,
         PoisonReachesDlq, Settled, CheckDeliveries, OverLimit, Raise,
         serverVars, NoFault, Fault, GroupSteps, Tasks, NoMsg, Pel
<1>5. QED
  BY <1>1, <1>2, <1>3, <1>4

\* The terminal record is written, or a failure is on record.
LEMMA TerminalDlqInv ==
    ASSUME GroupInv, NEW r \in Reclaimers, TerminalDlq(r)
    PROVE  GroupInv'
<1> USE DEF GroupInv
<1>1. GroupTypeOK'
  BY GroupAssumption
     DEF GroupTypeOK, TaskKnows, TerminalDlq, serverVars, NoFault, Fault,
     GroupSteps, Tasks
<1>2. PelShape'
  BY GroupAssumption
     DEF GroupTypeOK, PelShape, Pel, TerminalDlq, serverVars, NoFault, Fault,
         GroupSteps, Tasks
<1>3. ASSUME NEW t \in Tasks PROVE TaskKnows(t)'
  BY GroupAssumption
     DEF GroupTypeOK, TaskKnows, TerminalDlq, serverVars, NoFault, Fault,
         GroupSteps, Tasks
<1>4. SettledForAReason' /\ PoisonReachesDlq'
  BY GroupAssumption
     DEF GroupTypeOK, PelShape, Pel, TaskKnows, SettledForAReason,
         PoisonReachesDlq, Settled, TerminalDlq, serverVars, NoFault, Fault,
         GroupSteps, Tasks
<1>5. QED
  BY <1>1, <1>2, <1>3, <1>4

\* The terminal XACK settles an entry that was delivered too often.
LEMMA TerminalAckInv ==
    ASSUME GroupInv, NEW r \in Reclaimers, TerminalAck(r)
    PROVE  GroupInv'
<1> USE DEF GroupInv
<1>1. GroupTypeOK'
  BY GroupAssumption
     DEF Xack, GroupTypeOK, TerminalAck, Raise, NoFault, Fault, GroupSteps,
         Tasks, NoMsg
<1>2. PelShape'
  BY GroupAssumption
     DEF Xack, GroupTypeOK, PelShape, Pel, TerminalAck, Raise, NoFault, Fault,
         GroupSteps, Tasks, NoMsg
<1>3. ASSUME NEW t \in Tasks PROVE TaskKnows(t)'
  BY GroupAssumption
     DEF Xack, GroupTypeOK, TaskKnows, TerminalAck, Raise, NoFault, Fault,
         GroupSteps, Tasks, NoMsg
<1>4. SettledForAReason' /\ PoisonReachesDlq'
  BY GroupAssumption
     DEF Xack, GroupTypeOK, PelShape, Pel, TaskKnows, SettledForAReason,
         PoisonReachesDlq, Settled, TerminalAck, Raise, NoFault, Fault,
         GroupSteps, Tasks, NoMsg
<1>5. QED
  BY <1>1, <1>2, <1>3, <1>4

\* A crash forgets what the tasks knew, not what the server keeps.
LEMMA CrashInv ==
    ASSUME GroupInv, Crash
    PROVE  GroupInv'
<1> USE DEF GroupInv
<1>1. GroupTypeOK'
  BY GroupAssumption DEF GroupTypeOK, Crash, serverVars, GroupSteps, NoMsg
<1>2. PelShape'
  BY GroupAssumption
     DEF GroupTypeOK, PelShape, Pel, Crash, serverVars, GroupSteps, NoMsg
<1>3. ASSUME NEW t \in Tasks PROVE TaskKnows(t)'
  BY GroupAssumption
     DEF GroupTypeOK, TaskKnows, Crash, serverVars, GroupSteps, NoMsg
<1>4. SettledForAReason' /\ PoisonReachesDlq'
  BY GroupAssumption
     DEF GroupTypeOK, PelShape, Pel, TaskKnows, SettledForAReason,
         PoisonReachesDlq, Settled, Crash, serverVars, GroupSteps, NoMsg
<1>5. QED
  BY <1>1, <1>2, <1>3, <1>4

\* Restarted tasks know nothing.
LEMMA RestartInv ==
    ASSUME GroupInv, Restart
    PROVE  GroupInv'
<1> USE DEF GroupInv
<1>1. GroupTypeOK'
  BY GroupAssumption DEF GroupTypeOK, Restart, FirstStep, serverVars, GroupSteps
<1>2. PelShape'
  BY DEF GroupTypeOK, PelShape, Pel, Restart, FirstStep, serverVars, GroupSteps
<1>3. ASSUME NEW t \in Tasks PROVE TaskKnows(t)'
  BY DEF GroupTypeOK, TaskKnows, Restart, FirstStep, serverVars, GroupSteps
<1>4. SettledForAReason' /\ PoisonReachesDlq'
  BY DEF GroupTypeOK, PelShape, Pel, TaskKnows, SettledForAReason,
         PoisonReachesDlq, Settled, Restart, FirstStep, serverVars, GroupSteps
<1>5. QED
  BY <1>1, <1>2, <1>3, <1>4

\* A handler that returns is on record before the XACK.
LEMMA HandlerReturnsInv ==
    ASSUME GroupInv, NEW u \in Tasks, HandlerReturns(u)
    PROVE  GroupInv'
<1> USE DEF GroupInv
<1>1. GroupTypeOK'
  BY GroupAssumption
     DEF GroupTypeOK, TaskKnows, HandlerReturns, Return, NoFault, Fault,
         serverVars, GroupSteps
<1>2. PelShape'
  BY DEF GroupTypeOK, PelShape, Pel, HandlerReturns, Return, NoFault, Fault,
         serverVars, GroupSteps
<1>3. ASSUME NEW t \in Tasks PROVE TaskKnows(t)'
  BY DEF GroupTypeOK, TaskKnows, HandlerReturns, Return, NoFault, Fault,
         serverVars, GroupSteps
<1>4. SettledForAReason' /\ PoisonReachesDlq'
  BY DEF GroupTypeOK, PelShape, Pel, TaskKnows, SettledForAReason,
         PoisonReachesDlq, Settled, HandlerReturns, Return, NoFault, Fault,
         serverVars, GroupSteps
<1>5. QED
  BY <1>1, <1>2, <1>3, <1>4

\* A handler that raises leaves its entry pending.
LEMMA HandlerRaisesInv ==
    ASSUME GroupInv, NEW u \in Tasks, HandlerRaises(u)
    PROVE  GroupInv'
<1> USE DEF GroupInv
<1>1. GroupTypeOK'
  BY GroupAssumption
     DEF GroupTypeOK, HandlerRaises, Raise, NoFault, Fault, serverVars,
         GroupSteps, NoMsg
<1>2. PelShape'
  BY DEF GroupTypeOK, PelShape, Pel, HandlerRaises, Raise, NoFault, Fault,
         serverVars, GroupSteps, NoMsg
<1>3. ASSUME NEW t \in Tasks PROVE TaskKnows(t)'
  BY DEF GroupTypeOK, TaskKnows, HandlerRaises, Raise, NoFault, Fault,
         serverVars, GroupSteps, NoMsg
<1>4. SettledForAReason' /\ PoisonReachesDlq'
  BY DEF GroupTypeOK, PelShape, Pel, TaskKnows, SettledForAReason,
         PoisonReachesDlq, Settled, HandlerRaises, Raise, NoFault, Fault,
         serverVars, GroupSteps, NoMsg
<1>5. QED
  BY <1>1, <1>2, <1>3, <1>4

-------------------------------------------------------------------------------
(* The inductive step, and the invariant. *)

\* Every step of the group keeps the invariant.
LEMMA NextInv == GroupInv /\ [GroupNext]_groupVars => GroupInv'
<1> SUFFICES ASSUME GroupInv, [GroupNext]_groupVars PROVE GroupInv'
  OBVIOUS
<1>1. ASSUME NEW w \in Workers, WorkerStep(w) PROVE GroupInv'
  <2>1. CASE ReadNothing(w)
    BY <2>1
       DEF ReadNothing, groupVars, serverVars, taskVars, GroupInv, GroupTypeOK,
       PelShape, TaskKnows, SettledForAReason, PoisonReachesDlq, Settled, Pel
  <2>2. QED
    BY <1>1, <2>1, RecoverPendingInv, RecoverClaimInv, ReadInv DEF WorkerStep
<1>2. ASSUME NEW r \in Reclaimers, ReclaimerStep(r) PROVE GroupInv'
  BY <1>2, AutoClaimInv, EndOfTickInv, CheckDeliveriesInv, TerminalDlqInv,
     TerminalAckInv DEF ReclaimerStep
<1>3. ASSUME NEW t \in Tasks, BatchStep(t) \/ AnyHandler(t) PROVE GroupInv'
  BY <1>3, NextOfBatchInv, EndOfBatchInv, AckInv, HandlerReturnsInv,
     HandlerRaisesInv DEF BatchStep, AnyHandler
<1>4. CASE UNCHANGED groupVars
  BY <1>4 DEF groupVars, serverVars, taskVars, GroupInv, GroupTypeOK, PelShape,
     TaskKnows, SettledForAReason, PoisonReachesDlq, Settled, Pel
<1>5. QED
  BY <1>1, <1>2, <1>3, <1>4, AppendInv, BecomeIdleInv, CrashInv, RestartInv
     DEF GroupNext, InfraNext

\* The types, the shape of the pending list, what each task knows, and with them
\* SettledForAReason and PoisonReachesDlq hold in every reachable state, for any
\* number of entries, workers, crashes and connection failures.
THEOREM GroupInvariant == GroupSpec => []GroupInv
<1>1. GroupInit => GroupInv
  BY InitInv
<1>2. GroupInv /\ [GroupNext]_groupVars => GroupInv'
  BY NextInv
<1>3. QED
  BY <1>1, <1>2, PTL DEF GroupSpec

\* The types hold: no counter leaves its range, whatever fails.
THEOREM GroupTypeOKHolds == GroupSpec => []GroupTypeOK
<1>1. GroupInv => GroupTypeOK
  BY DEF GroupInv
<1>2. QED
  BY <1>1, GroupInvariant, PTL

\* An entry is acknowledged only after its handler returned or after more than
\* max_deliveries deliveries.
THEOREM SettledForAReasonHolds == GroupSpec => []SettledForAReason
<1>1. GroupInv => SettledForAReason
  BY DEF GroupInv
<1>2. QED
  BY <1>1, GroupInvariant, PTL

\* While no connection fails, an entry that does not decode is acknowledged only
\* with a record of it in the dead-letter stream.
THEOREM PoisonReachesDlqHolds == GroupSpec => []PoisonReachesDlq
<1>1. GroupInv => PoisonReachesDlq
  BY DEF GroupInv
<1>2. QED
  BY <1>1, GroupInvariant, PTL

-------------------------------------------------------------------------------
(* Acknowledged for good. *)

\* A delivery that takes pending or new entries leaves settled ones alone.
LEMMA DeliverKeepsSettled ==
    ASSUME GroupInv, NEW S \in SUBSET Msgs, NEW t \in Tasks, Deliver(S, t),
           \A m \in S : ~Settled(m),
           lastDelivered' \in Nat, lastDelivered' >= lastDelivered,
           NEW m \in Msgs, Settled(m)
    PROVE  Settled(m)'
<1>1. m \in Msgs \ S
  OBVIOUS
<1>2. owner'[m] = owner[m]
  BY <1>1 DEF Deliver
<1>3. m <= lastDelivered'
  BY DEF GroupInv, GroupTypeOK, Settled, Msgs
<1>4. QED
  BY <1>2, <1>3 DEF Settled

\* No step takes an acknowledged entry back into the pending list.
LEMMA StepKeepsSettled ==
    ASSUME GroupInv, [GroupNext]_groupVars, NEW m \in Msgs, Settled(m)
    PROVE  Settled(m)'
<1> USE DEF GroupInv
<1>1. ASSUME NEW w \in Workers, RecoverClaim(w) PROVE Settled(m)'
  <2>1. w \in Tasks /\ Claimable(w) \subseteq Pel /\ Claimable(w) \subseteq Msgs
    BY DEF Claimable, Pel, Tasks
  <2>2. \A k \in Claimable(w) : ~Settled(k)
    BY <2>1 DEF Settled, Pel
  <2>3. CASE Deliver(Claimable(w), w)
    BY <1>1, <2>1, <2>2, <2>3, DeliverKeepsSettled DEF RecoverClaim, GroupTypeOK
  <2>4. CASE UNCHANGED <<owner, deliveries, idle>>
    BY <1>1, <2>4 DEF RecoverClaim, Settled
  <2>5. QED
    BY <1>1, <2>3, <2>4 DEF RecoverClaim
<1>2. ASSUME NEW w \in Workers, Read(w) PROVE Settled(m)'
  <2> DEFINE fresh == (lastDelivered + 1) .. LastRead
  <2>1. /\ w \in Tasks /\ fresh \subseteq Msgs /\ Deliver(fresh, w)
        /\ lastDelivered' = LastRead /\ LastRead \in Nat /\ LastRead >= lastDelivered
    BY <1>2, LastReadFacts DEF Read, Tasks, GroupTypeOK
  <2>2. \A k \in fresh : ~Settled(k)
    BY DEF Settled, GroupTypeOK
  <2>3. QED
    BY <2>1, <2>2, DeliverKeepsSettled
<1>3. ASSUME NEW r \in Reclaimers, AutoClaim(r) PROVE Settled(m)'
  <2> DEFINE due == FirstOf({k \in idle : k >= cursor[r]}, ReclaimCount)
  <2>1. r \in Tasks /\ due \subseteq Msgs /\ due \subseteq Pel /\ Deliver(due, r)
    BY <1>3 DEF AutoClaim, FirstOf, GroupTypeOK, PelShape, Tasks
  <2>2. \A k \in due : ~Settled(k)
    BY <2>1 DEF Settled, Pel
  <2>3. QED
    BY <1>3, <2>1, <2>2, DeliverKeepsSettled DEF AutoClaim, GroupTypeOK
<1>4. ASSUME NEW t \in Tasks, Ack(t) \/ (t \in Reclaimers /\ TerminalAck(t))
      PROVE  Settled(m)'
  BY <1>4 DEF Ack, TerminalAck, Xack, Settled, GroupTypeOK
<1>5. CASE lastDelivered' = lastDelivered /\ owner' = owner
  BY <1>5 DEF Settled
<1>6. QED
  BY <1>1, <1>2, <1>3, <1>4, <1>5
     DEF GroupNext, InfraNext, WorkerStep, ReclaimerStep, BatchStep, AnyHandler,
         Append, BecomeIdle, RecoverPending, ReadNothing, NextOfBatch, EndOfBatch,
         EndOfTick, CheckDeliveries, TerminalDlq, Crash, Restart, HandlerReturns,
         HandlerRaises, groupVars, serverVars, Tasks

\* An acknowledged entry never becomes pending again.
THEOREM SettledForGoodHolds == GroupSpec => SettledForGood
<1>1. GroupInv /\ [GroupNext]_groupVars
      => [\A m \in Msgs : Settled(m) => Settled(m)']_groupVars
  BY StepKeepsSettled
<1>2. QED
  BY <1>1, GroupInvariant, PTL DEF GroupSpec, SettledForGood

-------------------------------------------------------------------------------
(* Without a reclaimer no entry is ever in two hands. *)

\* What a worker holds, it owns: the batch it goes through (or listed for XCLAIM)
\* and the entry under its hand, which is no longer part of the batch.
Holds(t) ==
    /\ \A m \in batch[t] : owner[m] = t /\ m # cur[t]
    /\ cur[t] # NoMsg => owner[cur[t]] = t
    /\ pc[t] \in {"handle", "ack"} <=> cur[t] # NoMsg
    /\ pc[t] \in {"recover", "read", "down"} => batch[t] = {}
    /\ pc[t] \in {"recover", "claim", "read", "next", "handle", "ack", "down"}

ExclusiveInv == GroupInv /\ \A t \in Tasks : Holds(t)

\* Every step of a group without reclaimers keeps what Holds says.
LEMMA ExclusiveStep ==
    ASSUME Reclaimers = {}, ExclusiveInv, [GroupNext]_groupVars
    PROVE  ExclusiveInv'
<1> USE DEF ExclusiveInv
<1>1. GroupInv'
  BY NextInv
<1>2. Tasks = Workers
  BY DEF Tasks
<1>3. ASSUME NEW t \in Tasks PROVE Holds(t)'
  <2> USE <1>2, GroupAssumption DEF GroupInv, GroupTypeOK
  <2>1. ASSUME NEW w \in Workers, RecoverPending(w) PROVE Holds(t)'
    <3> DEFINE mine == FirstOf(PendingOf(w), RecoverCount)
    <3>1. /\ Holds(w) /\ Holds(t)
          /\ pc[w] = "recover" /\ cur' = cur /\ owner' = owner
      BY <2>1 DEF RecoverPending, serverVars
    <3>2. cur[w] = NoMsg /\ batch[w] = {}
      BY <3>1 DEF Holds
    <3>3. \A m \in mine : owner[m] = w /\ m # NoMsg
      BY DEF FirstOf, PendingOf, Msgs, NoMsg
    <3>4. \/ pc' = [pc EXCEPT ![w] = "read"] /\ batch' = batch
          \/ pc' = [pc EXCEPT ![w] = "claim"] /\ batch' = [batch EXCEPT ![w] = mine]
      BY <2>1 DEF RecoverPending
    <3>5. QED
      BY <3>1, <3>2, <3>3, <3>4 DEF Holds
  <2>2. ASSUME NEW w \in Workers, RecoverClaim(w) PROVE Holds(t)'
    BY <2>2, NoTaskIsNoTask
       DEF RecoverClaim, Claimable, Deliver, Pel, Holds, NoMsg
  <2>3. ASSUME NEW w \in Workers, Read(w) PROVE Holds(t)'
    <3> DEFINE fresh == (lastDelivered + 1) .. LastRead
    <3>1. fresh \subseteq Msgs /\ w \in Tasks /\ Deliver(fresh, w)
      BY <2>3, LastReadFacts DEF Read, Tasks
    <3>2. /\ \A m \in fresh : owner'[m] = w
          /\ \A m \in Msgs \ fresh : owner'[m] = owner[m]
      BY <3>1, DeliverFacts
    <3>3. \A m \in Pel : m \notin fresh
      BY DEF PelShape, Pel, Msgs
    <3>4. \A m \in Msgs : owner[m] \in Tasks => owner'[m] = owner[m]
      BY <3>2, <3>3, NoTaskIsNoTask DEF Pel
    <3>5. pc[w] = "read" /\ cur' = cur /\ Holds(w) /\ Holds(t)
      BY <2>3 DEF Read
    <3>6. \/ pc' = [pc EXCEPT ![w] = "next"] /\ batch' = [batch EXCEPT ![w] = fresh]
          \/ UNCHANGED <<pc, batch>>
      BY <2>3 DEF Read
    <3>7. cur[w] = NoMsg /\ \A m \in fresh : m # NoMsg
      BY <3>1, <3>5 DEF Holds, NoMsg, Msgs
    <3>8. \A m \in batch'[t] : owner'[m] = t /\ m # cur'[t]
      <4>1. CASE t = w /\ batch'[t] = fresh
        BY <3>2, <3>5, <3>7, <4>1
      <4>2. CASE batch'[t] = batch[t]
        <5>1. \A m \in batch[t] : m \in Msgs /\ owner[m] = t /\ m # cur[t]
          BY <3>5 DEF Holds
        <5>2. QED
          BY <3>4, <3>5, <4>2, <5>1
      <4>3. QED
        BY <3>6, <4>1, <4>2
    <3>9. cur'[t] # NoMsg => owner'[cur'[t]] = t
      BY <3>4, <3>5 DEF Holds, NoMsg
    <3>10. QED
      BY <3>5, <3>6, <3>7, <3>8, <3>9 DEF Holds
  <2>4. ASSUME NEW u \in Tasks, NextOfBatch(u) PROVE Holds(t)'
    BY <2>4 DEF NextOfBatch, serverVars, Holds, NoMsg, Msgs
  <2>5. ASSUME NEW u \in Tasks, EndOfBatch(u) PROVE Holds(t)'
    BY <2>5 DEF EndOfBatch, serverVars, Holds
  <2>6. ASSUME NEW u \in Tasks, Ack(u) PROVE Holds(t)'
    <3>1. /\ Holds(u) /\ Holds(t) /\ pc[u] = "ack" /\ batch' = batch
          /\ pc' = [pc EXCEPT ![u] = "next"] /\ cur' = [cur EXCEPT ![u] = NoMsg]
      BY <2>6 DEF Ack, Raise
    <3>2. cur[u] # NoMsg /\ cur[u] \in Msgs /\ owner[cur[u]] = u
      BY <3>1 DEF Holds, Msgs, NoMsg
    <3>3. \A m \in Msgs : m # cur[u] => owner'[m] = owner[m]
      BY <2>6, <3>2 DEF Ack, Xack
    <3>4. \A m \in batch[t] : m \in Msgs /\ owner[m] = t /\ m # cur[t] /\ m # NoMsg
      BY <3>1 DEF Holds, Msgs, NoMsg
    <3>5. CASE t = u
      <4>1. \A m \in batch'[t] : owner'[m] = t /\ m # NoMsg
        BY <3>1, <3>3, <3>4, <3>5
      <4>2. cur'[t] = NoMsg /\ pc'[t] = "next"
        BY <3>1, <3>5
      <4>3. QED
        BY <4>1, <4>2 DEF Holds
    <3>6. CASE t # u
      <4>1. cur'[t] = cur[t] /\ pc'[t] = pc[t] /\ batch'[t] = batch[t]
        BY <3>1, <3>6
      <4>2. \A m \in Msgs : owner[m] = t => owner'[m] = t
        BY <3>2, <3>3, <3>6
      <4>3. cur[t] # NoMsg => cur[t] \in Msgs
        BY DEF Msgs, NoMsg
      <4>4. QED
        BY <3>1, <3>4, <4>1, <4>2, <4>3 DEF Holds
    <3>7. QED
      BY <3>5, <3>6
  <2>7. ASSUME NEW u \in Tasks, AnyHandler(u) PROVE Holds(t)'
    <3>1. CASE HandlerReturns(u)
      BY <3>1 DEF HandlerReturns, Return, serverVars, Holds
    <3>2. CASE HandlerRaises(u)
      BY <3>2 DEF HandlerRaises, Raise, serverVars, Holds, NoMsg, Msgs
    <3>3. QED
      BY <2>7, <3>1, <3>2 DEF AnyHandler
  <2>8. CASE Append \/ (\E m \in Msgs : BecomeIdle(m))
    BY <2>8 DEF Append, BecomeIdle, taskVars, Holds
  <2>9. CASE Crash \/ Restart
    BY <2>9 DEF Crash, Restart, FirstStep, serverVars, Holds
  <2>10. CASE UNCHANGED groupVars
    BY <2>10 DEF groupVars, serverVars, taskVars, Holds
  <2>11. QED
    BY <2>1, <2>2, <2>3, <2>4, <2>5, <2>6, <2>7, <2>8, <2>9, <2>10
       DEF GroupNext, InfraNext, WorkerStep, BatchStep, ReadNothing
<1>4. QED
  BY <1>1, <1>3

\* Without a reclaimer (predictor, decision and bridge run none) no entry is
\* handled by two workers at once, whatever crashes and whatever replies get lost.
THEOREM ExclusiveWithoutReclaimer ==
    ASSUME Reclaimers = {}
    PROVE  GroupSpec => []ExclusiveHandling
<1>1. GroupInit => ExclusiveInv
  BY InitInv, GroupAssumption
     DEF GroupInit, ExclusiveInv, Holds, FirstStep, Tasks, NoMsg
<1>2. ExclusiveInv /\ [GroupNext]_groupVars => ExclusiveInv'
  BY ExclusiveStep
<1>3. ExclusiveInv => ExclusiveHandling
  BY DEF ExclusiveInv, Holds, ExclusiveHandling
<1>4. QED
  BY <1>1, <1>2, <1>3, PTL DEF GroupSpec
(* Hands and lists. *)

\* Lists that get no longer stay disjoint, as long as no worker but the one with
\* the list gets one of its entries.
LEMMA ListsShrink ==
    ASSUME ListedOnce,
           \A w \in Workers, m \in Msgs :
               Listed(w, m)' => /\ Listed(w, m)
                                /\ \/ owner'[m] = owner[m]
                                   \/ owner'[m] \notin Workers \ {w}
    PROVE  ListedOnce'
<1>1. ASSUME NEW w \in Workers, NEW m \in Msgs, Listed(w, m)'
      PROVE  owner'[m] \notin Workers \ {w}
  BY <1>1 DEF ListedOnce
<1>2. ASSUME NEW w \in Workers, NEW m \in Msgs, Listed(w, m)',
             NEW u \in Workers, Listed(u, m)'
      PROVE  u = w
  BY <1>2 DEF ListedOnce
<1>3. QED
  BY <1>1, <1>2 DEF ListedOnce

\* A step that puts nobody into recovery, or into the reclaimer's hands what a
\* worker gets, keeps the shape of the first life.
LEMMA LifeGoesOn ==
    ASSUME FirstLife, crashes' = crashes,
           \A w \in Workers : /\ more'[w] = more[w]
                              /\ pc'[w] \in {"claim", "recover"} => pc'[w] = pc[w]
                              /\ PendingOf(w)' \subseteq PendingOf(w),
           \A t \in Tasks : pc'[t] = "down" => pc[t] = "down",
           \A r \in Reclaimers, m \in Msgs :
               InHand(r, m)' => /\ InHand(r, m)
                                /\ owner'[m] = owner[m] \/ owner'[m] \notin Workers
    PROVE  FirstLife'
<1> SUFFICES ASSUME crashes = 0
             PROVE  FirstLife'
  BY DEF FirstLife
<1>1. ASSUME NEW w \in Workers
      PROVE  /\ ~more'[w] /\ pc'[w] # "claim"
             /\ pc'[w] = "recover" => PendingOf(w)' = {}
  <2>1. more'[w] = more[w] /\ (pc'[w] \in {"claim", "recover"} => pc'[w] = pc[w])
    OBVIOUS
  <2>2. PendingOf(w)' \subseteq PendingOf(w)
    BY DEF PendingOf
  <2>3. ~more[w] /\ pc[w] # "claim" /\ (pc[w] = "recover" => PendingOf(w) = {})
    BY DEF FirstLife
  <2>4. QED
    BY <2>1, <2>2, <2>3
<1>2. \A t \in Tasks : pc'[t] # "down"
  BY DEF FirstLife
<1>3. \A r \in Reclaimers, m \in Msgs : InHand(r, m)' => owner'[m] \notin Workers
  BY DEF FirstLife
<1>4. QED
  BY <1>1, <1>2, <1>3 DEF FirstLife

\* Every step keeps what the tasks' hands and lists say.
LEMMA HandsStep ==
    ASSUME GroupInv, HandsInv, [GroupNext]_groupVars
    PROVE  HandsInv'
<1> USE GroupAssumption, NoTaskIsNoTask
    DEF HandsInv, GroupInv, GroupTypeOK, Tasks, serverVars, taskVars, NoFault,
        Fault, Msgs, NoMsg
<1>1. ASSUME NEW w \in Workers, RecoverPending(w) PROVE HandsInv'
  <2> DEFINE mine == FirstOf(PendingOf(w), RecoverCount)
  <2>1. \A m \in mine : m \in PendingOf(w) /\ m \in Msgs /\ owner[m] = w /\ m <= lastDelivered
    BY DEF PelShape, Pel, PendingOf, FirstOf
  <2>2. \/ pc' = [pc EXCEPT ![w] = "read"] /\ batch' = batch
        \/ pc' = [pc EXCEPT ![w] = "claim"] /\ batch' = [batch EXCEPT ![w] = mine] /\ mine # {}
    BY <1>1 DEF RecoverPending
  <2>3. /\ pc[w] = "recover" /\ w \in Tasks
        /\ UNCHANGED <<lastDelivered, owner, cur, more, crashes>>
    BY <1>1 DEF RecoverPending
  <2> HIDE DEF mine
  <2>4. ASSUME NEW t \in Tasks PROVE TaskShape(t)'
    BY <2>1, <2>2, <2>3 DEF TaskShape, InHand
  <2>5. ListedOnce'
    <3>1. \A u \in Workers, m \in Msgs :
            Listed(u, m)' => Listed(u, m) \/ (u = w /\ m \in mine)
      BY <2>2, <2>3 DEF Listed
    <3>2. \A u \in Workers, m \in mine : Listed(u, m) => u = w
      BY <2>1, <2>3 DEF ListedOnce
    <3>3. QED
      BY <2>1, <2>3, <3>1, <3>2 DEF ListedOnce
  <2>6. FirstLife'
    <3> SUFFICES ASSUME crashes = 0
                 PROVE  FirstLife'
      BY <2>3 DEF FirstLife
    <3>1. mine = {}
      BY <2>1, <2>3 DEF FirstLife
    <3>2. QED
      BY <2>2, <2>3, <3>1 DEF FirstLife, InHand, PendingOf
  <2>7. QED
    BY <2>4, <2>5, <2>6
<1>2. ASSUME NEW w \in Workers, RecoverClaim(w) PROVE HandsInv'
  <2> DEFINE got == Claimable(w)
  <2>1. /\ pc[w] = "claim" /\ w \in Tasks /\ UNCHANGED <<lastDelivered, cur, crashes>>
        /\ got \subseteq batch[w] /\ got \subseteq Msgs
        /\ \A m \in got : m <= lastDelivered
    BY <1>2 DEF RecoverClaim, Claimable, PelShape, Pel
  <2>2. \/ /\ pc' = [pc EXCEPT ![w] = "read"] /\ batch' = [batch EXCEPT ![w] = {}]
           /\ UNCHANGED <<owner, more>>
        \/ /\ Deliver(got, w) /\ batch' = [batch EXCEPT ![w] = got]
           /\ pc' = [pc EXCEPT ![w] = "next"]
           /\ more' = [more EXCEPT ![w] = FullBatch(got)]
        \/ /\ Deliver(got, w) /\ batch' = [batch EXCEPT ![w] = {}]
           /\ pc' = [pc EXCEPT ![w] = "recover"] /\ UNCHANGED more
    BY <1>2 DEF RecoverClaim
  <2>3. FullBatch(got) \in BOOLEAN
    BY DEF FullBatch
  <2>4. \A m \in Msgs : owner'[m] = owner[m] \/ (m \in got /\ owner'[m] = w)
    BY <2>1, <2>2 DEF Deliver
  <2> HIDE DEF got
  <2>5. ASSUME NEW t \in Tasks PROVE TaskShape(t)'
    <3>1. CASE t = w
      <4>1. TaskShape(w)
        OBVIOUS
      <4>2. cur[w] = NoMsg /\ ~more[w]
        BY <2>1, <4>1 DEF TaskShape
      <4>3. \A m \in Msgs : ~(m \in batch'[w] /\ m \notin got)
        BY <2>2
      <4>4. QED
        BY <2>1, <2>2, <2>3, <3>1, <4>1, <4>2, <4>3 DEF TaskShape, InHand
    <3>2. CASE t # w
      <4>1. /\ pc'[t] = pc[t] /\ batch'[t] = batch[t] /\ more'[t] = more[t]
            /\ cur'[t] = cur[t] /\ lastDelivered' = lastDelivered
        BY <2>1, <2>2, <3>2
      <4>2. TaskShape(t)
        OBVIOUS
      <4>3. QED
        BY <4>1, <4>2 DEF TaskShape, InHand
    <3>3. QED
      BY <3>1, <3>2
  <2>6. ListedOnce'
    <3>1. \A u \in Workers, m \in Msgs : Listed(u, m)' => u # w /\ Listed(u, m)
      BY <2>1, <2>2 DEF Listed
    <3>2. \A m \in got : Listed(w, m)
      BY <2>1 DEF Listed
    <3>3. \A u \in Workers, m \in Msgs : Listed(u, m)' => m \notin got
      BY <2>1, <3>1, <3>2 DEF ListedOnce
    <3>4. QED
      BY <2>4, <3>1, <3>3, ListsShrink
  <2>7. FirstLife'
    BY <2>1 DEF FirstLife
  <2>8. QED
    BY <2>5, <2>6, <2>7
<1>3. ASSUME NEW w \in Workers, Read(w) PROVE HandsInv'
  <2> DEFINE fresh == (lastDelivered + 1) .. LastRead
  <2>1. /\ pc[w] = "read" /\ w \in Tasks /\ UNCHANGED <<cur, more, crashes>>
        /\ lastDelivered' = LastRead /\ fresh \subseteq Msgs /\ Deliver(fresh, w)
        /\ LastRead \in Nat /\ lastDelivered \in Nat /\ LastRead > lastDelivered
    BY <1>3, LastReadFacts DEF Read
  <2>2. \/ pc' = [pc EXCEPT ![w] = "next"] /\ batch' = [batch EXCEPT ![w] = fresh]
        \/ UNCHANGED <<pc, batch>>
    BY <1>3 DEF Read
  <2>3. /\ \A m \in Msgs : m <= lastDelivered => m \notin fresh /\ owner'[m] = owner[m]
        /\ \A m \in Msgs : m \in fresh => m <= lastDelivered' /\ owner'[m] = w
        /\ \A m \in Msgs : owner'[m] = owner[m] \/ owner'[m] = w
    BY <2>1 DEF Deliver
  <2> HIDE DEF fresh
  <2>4. ASSUME NEW t \in Tasks PROVE TaskShape(t)'
    <3>1. \A m \in Msgs : m <= lastDelivered => m <= lastDelivered'
      BY <2>1
    <3>2. QED
      BY <2>1, <2>2, <2>3, <3>1 DEF TaskShape, InHand
  <2>5. ListedOnce'
    <3>1. ASSUME NEW u \in Workers, NEW m \in Msgs, Listed(u, m)'
          PROVE  Listed(u, m) /\ owner'[m] = owner[m]
      <4>1. u \in Tasks /\ pc'[u] = pc[u] /\ batch'[u] = batch[u]
        BY <2>1, <2>2, <3>1 DEF Listed
      <4>2. Listed(u, m) /\ m <= lastDelivered
        BY <3>1, <4>1 DEF Listed, TaskShape, InHand
      <4>3. QED
        BY <2>3, <4>2
    <3>2. QED
      BY <3>1 DEF ListedOnce
  <2>6. FirstLife'
    <3> SUFFICES ASSUME crashes = 0
                 PROVE  FirstLife'
      BY <2>1 DEF FirstLife
    <3>1. ASSUME NEW u \in Workers, pc'[u] = "recover" PROVE PendingOf(u)' = {}
      <4>1. u # w /\ pc[u] = "recover"
        BY <2>1, <2>2, <3>1
      <4>2. PendingOf(u) = {}
        BY <4>1 DEF FirstLife
      <4>3. QED
        BY <2>3, <4>1, <4>2 DEF PendingOf
    <3>2. ASSUME NEW r \in Reclaimers, NEW m \in Msgs, InHand(r, m)'
          PROVE  owner'[m] \notin Workers
      <4>1. InHand(r, m)
        BY <2>1, <2>2, <3>2 DEF InHand
      <4>2. owner'[m] = owner[m]
        BY <2>3, <4>1 DEF TaskShape
      <4>3. QED
        BY <4>1, <4>2 DEF FirstLife
    <3>3. QED
      BY <2>1, <2>2, <3>1, <3>2 DEF FirstLife
  <2>7. QED
    BY <2>4, <2>5, <2>6
<1>4. ASSUME NEW r \in Reclaimers, AutoClaim(r) PROVE HandsInv'
  <2> DEFINE due == FirstOf({m \in idle : m >= cursor[r]}, ReclaimCount)
  <2>1. /\ pc[r] = "autoclaim" /\ r \in Tasks /\ r \notin Workers
        /\ UNCHANGED <<lastDelivered, cur, more, crashes>>
        /\ due \subseteq Msgs /\ Deliver(due, r)
        /\ \A m \in due : m <= lastDelivered
    BY <1>4 DEF AutoClaim, FirstOf, PelShape, Pel
  <2>2. \/ pc' = [pc EXCEPT ![r] = "next"] /\ batch' = [batch EXCEPT ![r] = due]
        \/ UNCHANGED <<pc, batch>>
    BY <1>4 DEF AutoClaim
  <2>3. /\ \A m \in Msgs : owner'[m] = owner[m] \/ owner'[m] = r
        /\ \A m \in due : owner'[m] = r
    BY <2>1 DEF Deliver
  <2> HIDE DEF due
  <2>4. ASSUME NEW t \in Tasks PROVE TaskShape(t)'
    BY <2>1, <2>2 DEF TaskShape, InHand
  <2>5. ListedOnce'
    <3>1. \A u \in Workers, m \in Msgs : Listed(u, m)' => Listed(u, m)
      BY <2>1, <2>2 DEF Listed
    <3>2. QED
      BY <2>1, <2>3, <3>1, ListsShrink
  <2>6. FirstLife'
    <3>1. \A u \in Workers : u \in Tasks /\ pc'[u] = pc[u]
      BY <2>1, <2>2
    <3>2. \A u \in Workers : PendingOf(u)' \subseteq PendingOf(u)
      BY <2>1, <2>3 DEF PendingOf
    <3>3. \A q \in Reclaimers, m \in Msgs : InHand(q, m)' => InHand(q, m) \/ m \in due
      BY <2>1, <2>2 DEF InHand
    <3>4. \A t \in Tasks : pc'[t] = pc[t] \/ pc'[t] = "next"
      BY <2>2
    <3>5. ASSUME FirstLife, crashes = 0, NEW q \in Reclaimers, NEW m \in Msgs, InHand(q, m)'
          PROVE  owner'[m] \notin Workers
      BY <2>1, <2>3, <3>3, <3>5 DEF FirstLife
    <3>6. QED
      BY <2>1, <3>1, <3>2, <3>4, <3>5 DEF FirstLife
  <2>7. QED
    BY <2>4, <2>5, <2>6
<1>5. ASSUME NEW r \in Reclaimers, EndOfTick(r) PROVE HandsInv'
  <2>1. \A t \in Tasks : TaskShape(t)'
    BY <1>5 DEF EndOfTick, TaskShape, InHand
  <2>2. ListedOnce'
    BY <1>5 DEF EndOfTick, ListedOnce, Listed
  <2>3. FirstLife'
    BY <1>5 DEF EndOfTick, FirstLife, InHand, PendingOf, TaskShape
  <2>4. QED
    BY <2>1, <2>2, <2>3
<1>6. ASSUME NEW r \in Reclaimers, CheckDeliveries(r) PROVE HandsInv'
  <2>1. \A t \in Tasks : TaskShape(t)'
    BY <1>6 DEF CheckDeliveries, Raise, TaskShape, InHand
  <2>2. ListedOnce'
    BY <1>6 DEF CheckDeliveries, Raise, ListedOnce, Listed
  <2>3. FirstLife'
    <3>1. crashes' = crashes /\ more' = more /\ batch' = batch
      BY <1>6 DEF CheckDeliveries
    <3>2. /\ \A w \in Workers : /\ pc'[w] \in {"claim", "recover"} => pc'[w] = pc[w]
                                /\ PendingOf(w)' \subseteq PendingOf(w)
          /\ \A t \in Tasks : pc'[t] = "down" => pc[t] = "down"
      BY <1>6, NoTaskIsNoTask DEF CheckDeliveries, Raise, PendingOf
    <3>3. \A t \in Tasks, m \in Msgs : InHand(t, m)' => InHand(t, m)
      BY <1>6 DEF CheckDeliveries, Raise, InHand
    <3>4. \A m \in Msgs : owner'[m] = owner[m] \/ owner'[m] \notin Workers
      BY <1>6 DEF CheckDeliveries, Raise
    <3>5. QED
      BY <3>1, <3>2, <3>3, <3>4, LifeGoesOn
  <2>4. QED
    BY <2>1, <2>2, <2>3
<1>7. ASSUME NEW r \in Reclaimers, TerminalDlq(r) PROVE HandsInv'
  <2>1. \A t \in Tasks : TaskShape(t)'
    BY <1>7 DEF TerminalDlq, TaskShape, InHand
  <2>2. ListedOnce'
    BY <1>7 DEF TerminalDlq, ListedOnce, Listed
  <2>3. FirstLife'
    BY <1>7 DEF TerminalDlq, FirstLife, InHand, PendingOf, TaskShape
  <2>4. QED
    BY <2>1, <2>2, <2>3
<1>8. ASSUME NEW r \in Reclaimers, TerminalAck(r) PROVE HandsInv'
  <2>1. \A t \in Tasks : TaskShape(t)'
    BY <1>8 DEF TerminalAck, Raise, Xack, TaskShape, InHand
  <2>2. ListedOnce'
    <3>1. \A w \in Workers, m \in Msgs : Listed(w, m)' => Listed(w, m)
      BY <1>8 DEF TerminalAck, Raise, Xack, Listed
    <3>2. \A m \in Msgs : owner'[m] = owner[m] \/ owner'[m] \notin Workers
      BY <1>8 DEF TerminalAck, Raise, Xack
    <3>3. QED
      BY <3>1, <3>2, ListsShrink
  <2>3. FirstLife'
    <3>1. crashes' = crashes /\ more' = more /\ batch' = batch
      BY <1>8 DEF TerminalAck
    <3>2. /\ \A w \in Workers : /\ pc'[w] \in {"claim", "recover"} => pc'[w] = pc[w]
                                /\ PendingOf(w)' \subseteq PendingOf(w)
          /\ \A t \in Tasks : pc'[t] = "down" => pc[t] = "down"
      BY <1>8, NoTaskIsNoTask DEF TerminalAck, Raise, Xack, PendingOf
    <3>3. \A t \in Tasks, m \in Msgs : InHand(t, m)' => InHand(t, m)
      BY <1>8 DEF TerminalAck, Raise, Xack, InHand
    <3>4. \A m \in Msgs : owner'[m] = owner[m] \/ owner'[m] \notin Workers
      BY <1>8 DEF TerminalAck, Raise, Xack
    <3>5. QED
      BY <3>1, <3>2, <3>3, <3>4, LifeGoesOn
  <2>4. QED
    BY <2>1, <2>2, <2>3
<1>9. ASSUME NEW u \in Tasks, NextOfBatch(u) PROVE HandsInv'
  <2>1. \A t \in Tasks : TaskShape(t)'
    BY <1>9 DEF NextOfBatch, TaskShape, InHand
  <2>2. ListedOnce'
    BY <1>9 DEF NextOfBatch, ListedOnce, Listed
  <2>3. FirstLife'
    <3>1. UNCHANGED <<owner, more, crashes>>
      BY <1>9 DEF NextOfBatch
    <3>2. \A t \in Tasks : pc'[t] = pc[t] \/ pc'[t] \in {"handle", "count"}
      BY <1>9 DEF NextOfBatch
    <3>3. \A t \in Tasks, m \in Msgs : InHand(t, m)' => InHand(t, m)
      BY <1>9 DEF NextOfBatch, InHand
    <3>4. \A w \in Workers : PendingOf(w)' \subseteq PendingOf(w)
      BY <3>1 DEF PendingOf
    <3>5. QED
      BY <3>1, <3>2, <3>3, <3>4, LifeGoesOn
  <2>4. QED
    BY <2>1, <2>2, <2>3
<1>10. ASSUME NEW u \in Tasks, EndOfBatch(u) PROVE HandsInv'
  <2>1. \A t \in Tasks : TaskShape(t)'
    BY <1>10 DEF EndOfBatch, TaskShape, InHand
  <2>2. ListedOnce'
    BY <1>10 DEF EndOfBatch, ListedOnce, Listed
  <2>3. FirstLife'
    <3> SUFFICES ASSUME crashes = 0
                 PROVE  FirstLife'
      BY <1>10 DEF EndOfBatch, FirstLife
    <3>1. /\ UNCHANGED <<owner, batch, cur, crashes>>
          /\ \A t \in Tasks : more'[t] => more[t]
          /\ pc' = [pc EXCEPT ![u] = IF u \in Reclaimers THEN "autoclaim"
                                     ELSE IF more[u] THEN "recover" ELSE "read"]
      BY <1>10 DEF EndOfBatch
    <3>2. \A w \in Workers : ~more[w]
      BY DEF FirstLife
    <3>3. \A t \in Tasks : pc'[t] = pc[t] \/ pc'[t] \in {"autoclaim", "read"}
      BY <3>1, <3>2
    <3>4. QED
      BY <3>1, <3>2, <3>3 DEF FirstLife, InHand, PendingOf
  <2>4. QED
    BY <2>1, <2>2, <2>3
<1>11. ASSUME NEW u \in Tasks, Ack(u) PROVE HandsInv'
  <2>1. \A t \in Tasks : TaskShape(t)'
    BY <1>11 DEF Ack, Raise, Xack, TaskShape, InHand
  <2>2. ListedOnce'
    <3>1. \A w \in Workers, m \in Msgs : Listed(w, m)' => Listed(w, m)
      BY <1>11 DEF Ack, Raise, Xack, Listed
    <3>2. \A m \in Msgs : owner'[m] = owner[m] \/ owner'[m] \notin Workers
      BY <1>11 DEF Ack, Raise, Xack
    <3>3. QED
      BY <3>1, <3>2, ListsShrink
  <2>3. FirstLife'
    <3>1. crashes' = crashes /\ more' = more /\ batch' = batch
      BY <1>11 DEF Ack
    <3>2. /\ \A w \in Workers : /\ pc'[w] \in {"claim", "recover"} => pc'[w] = pc[w]
                                /\ PendingOf(w)' \subseteq PendingOf(w)
          /\ \A t \in Tasks : pc'[t] = "down" => pc[t] = "down"
      BY <1>11, NoTaskIsNoTask DEF Ack, Raise, Xack, PendingOf
    <3>3. \A t \in Tasks, m \in Msgs : InHand(t, m)' => InHand(t, m)
      BY <1>11 DEF Ack, Raise, Xack, InHand
    <3>4. \A m \in Msgs : owner'[m] = owner[m] \/ owner'[m] \notin Workers
      BY <1>11 DEF Ack, Raise, Xack
    <3>5. QED
      BY <3>1, <3>2, <3>3, <3>4, LifeGoesOn
  <2>4. QED
    BY <2>1, <2>2, <2>3
<1>12. ASSUME NEW u \in Tasks, HandlerReturns(u) PROVE HandsInv'
  <2>1. \A t \in Tasks : TaskShape(t)'
    BY <1>12 DEF HandlerReturns, Return, TaskShape, InHand
  <2>2. ListedOnce'
    BY <1>12 DEF HandlerReturns, Return, ListedOnce, Listed
  <2>3. FirstLife'
    <3>1. crashes' = crashes /\ more' = more /\ batch' = batch
      BY <1>12 DEF HandlerReturns
    <3>2. /\ \A w \in Workers : /\ pc'[w] \in {"claim", "recover"} => pc'[w] = pc[w]
                                /\ PendingOf(w)' \subseteq PendingOf(w)
          /\ \A t \in Tasks : pc'[t] = "down" => pc[t] = "down"
      BY <1>12, NoTaskIsNoTask DEF HandlerReturns, Return, PendingOf
    <3>3. \A t \in Tasks, m \in Msgs : InHand(t, m)' => InHand(t, m)
      BY <1>12 DEF HandlerReturns, Return, InHand
    <3>4. \A m \in Msgs : owner'[m] = owner[m] \/ owner'[m] \notin Workers
      BY <1>12 DEF HandlerReturns, Return
    <3>5. QED
      BY <3>1, <3>2, <3>3, <3>4, LifeGoesOn
  <2>4. QED
    BY <2>1, <2>2, <2>3
<1>13. ASSUME NEW u \in Tasks, HandlerRaises(u) PROVE HandsInv'
  <2>1. \A t \in Tasks : TaskShape(t)'
    BY <1>13 DEF HandlerRaises, Raise, TaskShape, InHand
  <2>2. ListedOnce'
    BY <1>13 DEF HandlerRaises, Raise, ListedOnce, Listed
  <2>3. FirstLife'
    <3>1. crashes' = crashes /\ more' = more /\ batch' = batch
      BY <1>13 DEF HandlerRaises
    <3>2. /\ \A w \in Workers : /\ pc'[w] \in {"claim", "recover"} => pc'[w] = pc[w]
                                /\ PendingOf(w)' \subseteq PendingOf(w)
          /\ \A t \in Tasks : pc'[t] = "down" => pc[t] = "down"
      BY <1>13, NoTaskIsNoTask DEF HandlerRaises, Raise, PendingOf
    <3>3. \A t \in Tasks, m \in Msgs : InHand(t, m)' => InHand(t, m)
      BY <1>13 DEF HandlerRaises, Raise, InHand
    <3>4. \A m \in Msgs : owner'[m] = owner[m] \/ owner'[m] \notin Workers
      BY <1>13 DEF HandlerRaises, Raise
    <3>5. QED
      BY <3>1, <3>2, <3>3, <3>4, LifeGoesOn
  <2>4. QED
    BY <2>1, <2>2, <2>3
<1>14. CASE Append \/ \E m \in Msgs : BecomeIdle(m)
  <2>1. UNCHANGED <<lastDelivered, owner, pc, batch, cur, more, crashes>>
    BY <1>14 DEF Append, BecomeIdle
  <2>2. QED
    BY <2>1 DEF TaskShape, InHand, ListedOnce, Listed, FirstLife, PendingOf
<1>15. CASE Crash
  BY <1>15 DEF Crash, TaskShape, InHand, ListedOnce, Listed, FirstLife
<1>16. CASE Restart
  <2>1. /\ \A t \in Tasks : pc[t] = "down" /\ pc'[t] = FirstStep(t)
        /\ UNCHANGED <<lastDelivered, owner, batch, cur, more, crashes>>
    BY <1>16 DEF Restart
  <2>2. ASSUME NEW t \in Tasks PROVE TaskShape(t)'
    BY <2>1 DEF TaskShape, InHand, FirstStep, FirstLife
  <2>3. ListedOnce'
    BY <2>1 DEF ListedOnce, Listed, FirstStep
  <2>4. FirstLife'
    BY <2>1 DEF FirstLife
  <2>5. QED
    BY <2>2, <2>3, <2>4
<1>17. CASE UNCHANGED groupVars
  BY <1>17 DEF groupVars, TaskShape, InHand, ListedOnce, Listed, FirstLife, PendingOf
<1>18. QED
  BY <1>1, <1>2, <1>3, <1>4, <1>5, <1>6, <1>7, <1>8, <1>9, <1>10, <1>11, <1>12, <1>13,
     <1>14, <1>15, <1>16, <1>17
     DEF GroupNext, InfraNext, WorkerStep, ReclaimerStep, BatchStep, AnyHandler, ReadNothing

\* The tasks' hands and lists keep their shape, whatever fails: what a recovering
\* worker listed is on one list only, and nobody holds two batches.
THEOREM HandsInvariant == GroupSpec => [](GroupInv /\ HandsInv)
<1>1. GroupInit => HandsInv
  BY GroupAssumption, NoTaskIsNoTask
     DEF GroupInit, HandsInv, TaskShape, InHand, ListedOnce, Listed, FirstLife,
         FirstStep, PendingOf, Tasks, Msgs, NoMsg
<1>2. GroupInv /\ HandsInv /\ [GroupNext]_groupVars => HandsInv'
  BY HandsStep
<1>3. QED
  BY <1>1, <1>2, GroupInvariant, PTL DEF GroupSpec
===============================================================================
