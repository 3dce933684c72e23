------------------------- MODULE EnricherGroup_proofs -------------------------
(***************************************************************************)
(* Proofs about EnricherGroup, for every value of its constants: it        *)
(* implements a consumer group with some handler, so what is proved of     *)
(* the group (ConsumerGroup_proofs) holds of the enricher, and with that   *)
(* the promises of the pipeline itself.                                    *)
(***************************************************************************)
EXTENDS EnricherGroup, TLAPS

GroupFacts == INSTANCE ConsumerGroup_proofs WITH pc <- GroupPc

\* Every task is at a step of the group or of the pipeline.
PcOK == pc \in [Tasks -> GroupSteps \cup PipeSteps]

-------------------------------------------------------------------------------
(* The enricher implements the group. *)

\* Seen from the group, a task that goes to a step of the pipeline handles its
\* entry, and one that goes to any other step is there.
LEMMA OneTaskMoves ==
    ASSUME PcOK, NEW t \in Tasks, NEW s \in GroupSteps \cup PipeSteps,
           pc' = [pc EXCEPT ![t] = s]
    PROVE  /\ GroupPc' = [GroupPc EXCEPT ![t] = IF s \in PipeSteps THEN "handle" ELSE s]
           /\ PcOK'
<1>1. PcOK'
  BY DEF PcOK
<1>2. GroupPc \in [Tasks -> GroupSteps]
  BY DEF PcOK, GroupPc, GroupSteps
<1>3. ASSUME NEW u \in Tasks
      PROVE  GroupPc'[u] = [GroupPc EXCEPT ![t] = IF s \in PipeSteps THEN "handle" ELSE s][u]
  BY <1>2 DEF PcOK, GroupPc
<1>4. QED
  BY <1>1, <1>2, <1>3 DEF GroupPc

\* What the group computes of everything but the tasks' steps, the enricher
\* computes too.
LEMMA SameOperators ==
    /\ Group!Msgs = Msgs /\ Group!Tasks = Tasks /\ Group!NoMsg = NoMsg
    /\ Group!Pel = Pel /\ Group!LastRead = LastRead
    /\ \A w : Group!PendingOf(w) = PendingOf(w) /\ Group!Claimable(w) = Claimable(w)
    /\ \A S, n : Group!FirstOf(S, n) = FirstOf(S, n)
    /\ \A S : Group!FullBatch(S) = FullBatch(S) /\ Group!NextCursors(S) = NextCursors(S)
    /\ \A n : Group!OverLimit(n) = OverLimit(n)
    /\ \A t : Group!FirstStep(t) = FirstStep(t)
    /\ \A S, t : Group!Deliver(S, t) <=> Deliver(S, t)
    /\ \A m : Group!Xack(m) <=> Xack(m)
    /\ (Group!NoFault <=> NoFault) /\ (Group!Fault <=> Fault)
<1> USE DEF Group!Msgs, Msgs, Group!Tasks, Tasks, Group!NoMsg, NoMsg
<1>1. /\ Group!Pel = Pel /\ Group!LastRead = LastRead
      /\ \A w : Group!PendingOf(w) = PendingOf(w)
  BY DEF Group!Pel, Pel, Group!LastRead, LastRead, Group!PendingOf, PendingOf
<1>2. \A w : Group!Claimable(w) = Claimable(w)
  BY <1>1 DEF Group!Claimable, Claimable
<1>3. \A S : Group!Cardinality(S) = Cardinality(S)
  BY DEF Group!Cardinality, Cardinality
<1>4. \A S, n : Group!FirstOf(S, n) = FirstOf(S, n)
  BY <1>3 DEF Group!FirstOf, FirstOf
<1>5. \A S : Group!FullBatch(S) = FullBatch(S) /\ Group!NextCursors(S) = NextCursors(S)
  BY <1>1, <1>3 DEF Group!FullBatch, FullBatch, Group!NextCursors, NextCursors
<1>6. /\ \A n : Group!OverLimit(n) = OverLimit(n)
      /\ \A t : Group!FirstStep(t) = FirstStep(t)
  BY DEF Group!OverLimit, OverLimit, Group!FirstStep, FirstStep
<1>7. /\ \A S, t : Group!Deliver(S, t) <=> Deliver(S, t)
      /\ \A m : Group!Xack(m) <=> Xack(m)
      /\ (Group!NoFault <=> NoFault) /\ (Group!Fault <=> Fault)
  BY DEF Group!Deliver, Deliver, Group!Xack, Xack, Group!NoFault, NoFault, Group!Fault, Fault
<1>8. QED
  BY <1>1, <1>2, <1>4, <1>5, <1>6, <1>7

\* A step of the group's own code, with the pipeline at rest, is that step of
\* the group.
LEMMA InfraRefines ==
    ASSUME PcOK, InfraNext
    PROVE  Group!InfraNext /\ PcOK'
<1> USE SameOperators
    DEF Group!serverVars, serverVars, Group!taskVars, taskVars
<1>1. ASSUME NEW t \in Tasks, NEW s \in GroupSteps, pc' = [pc EXCEPT ![t] = s]
      PROVE  GroupPc' = [GroupPc EXCEPT ![t] = s] /\ PcOK'
  BY <1>1, OneTaskMoves DEF GroupSteps, PipeSteps
<1>2. ASSUME NEW t \in Tasks, NEW s \in GroupSteps \ {"handle"}, pc[t] = s
      PROVE  GroupPc[t] = s
  BY <1>2 DEF GroupPc, GroupSteps, PipeSteps
<1>3. ASSUME pc' = pc PROVE GroupPc' = GroupPc /\ PcOK'
  BY <1>3 DEF GroupPc, PcOK
<1>4. ASSUME NEW w \in Workers, RecoverPending(w) PROVE Group!RecoverPending(w) /\ PcOK'
  BY <1>1, <1>2, <1>3, <1>4 DEF Group!RecoverPending, RecoverPending, GroupSteps, Tasks
<1>5. ASSUME NEW w \in Workers, RecoverClaim(w) PROVE Group!RecoverClaim(w) /\ PcOK'
  BY <1>1, <1>2, <1>3, <1>5 DEF Group!RecoverClaim, RecoverClaim, GroupSteps, Tasks
<1>6. ASSUME NEW w \in Workers, Read(w) PROVE Group!Read(w) /\ PcOK'
  BY <1>1, <1>2, <1>3, <1>6 DEF Group!Read, Read, GroupSteps, Tasks
<1>7. ASSUME NEW w \in Workers, ReadNothing(w) PROVE Group!ReadNothing(w) /\ PcOK'
  BY <1>1, <1>2, <1>3, <1>7 DEF Group!ReadNothing, ReadNothing, Group!groupVars, groupVars, GroupSteps, Tasks
<1>8. ASSUME NEW r \in Reclaimers, AutoClaim(r) PROVE Group!AutoClaim(r) /\ PcOK'
  BY <1>1, <1>2, <1>3, <1>8 DEF Group!AutoClaim, AutoClaim, GroupSteps, Tasks
<1>9. ASSUME NEW r \in Reclaimers, EndOfTick(r) PROVE Group!EndOfTick(r) /\ PcOK'
  BY <1>1, <1>2, <1>3, <1>9 DEF Group!EndOfTick, EndOfTick, GroupSteps, Tasks
<1>10. ASSUME NEW r \in Reclaimers, CheckDeliveries(r) PROVE Group!CheckDeliveries(r) /\ PcOK'
  BY <1>1, <1>2, <1>3, <1>10 DEF Group!CheckDeliveries, CheckDeliveries, Group!Raise, Raise, GroupSteps, Tasks
<1>11. ASSUME NEW r \in Reclaimers, TerminalDlq(r) PROVE Group!TerminalDlq(r) /\ PcOK'
  BY <1>1, <1>2, <1>3, <1>11 DEF Group!TerminalDlq, TerminalDlq, GroupSteps, Tasks
<1>12. ASSUME NEW r \in Reclaimers, TerminalAck(r) PROVE Group!TerminalAck(r) /\ PcOK'
  BY <1>1, <1>2, <1>3, <1>12 DEF Group!TerminalAck, TerminalAck, Group!Raise, Raise, GroupSteps, Tasks
<1>13. ASSUME NEW t \in Tasks, NextOfBatch(t) PROVE Group!NextOfBatch(t) /\ PcOK'
  BY <1>1, <1>2, <1>3, <1>13 DEF Group!NextOfBatch, NextOfBatch, GroupSteps, Tasks
<1>14. ASSUME NEW t \in Tasks, EndOfBatch(t) PROVE Group!EndOfBatch(t) /\ PcOK'
  BY <1>1, <1>2, <1>3, <1>14 DEF Group!EndOfBatch, EndOfBatch, GroupSteps, Tasks
<1>15. ASSUME NEW t \in Tasks, Ack(t) PROVE Group!Ack(t) /\ PcOK'
  BY <1>1, <1>2, <1>3, <1>15 DEF Group!Ack, Ack, Group!Raise, Raise, GroupSteps, Tasks
<1>16. ASSUME Append PROVE Group!Append /\ PcOK'
  BY <1>3, <1>16 DEF Append, Group!Append
<1>17. ASSUME NEW m \in Msgs, BecomeIdle(m) PROVE Group!BecomeIdle(m) /\ PcOK'
  BY <1>3, <1>17 DEF BecomeIdle, Group!BecomeIdle
<1>18. ASSUME Crash PROVE Group!Crash /\ PcOK'
  BY <1>18 DEF Crash, Group!Crash, PcOK, GroupPc, GroupSteps, PipeSteps
<1>19. ASSUME Restart PROVE Group!Restart /\ PcOK'
  BY <1>19 DEF Restart, Group!Restart, FirstStep, Group!FirstStep, PcOK, GroupPc, GroupSteps, PipeSteps
<1>20. QED
  BY <1>4, <1>5, <1>6, <1>7, <1>8, <1>9, <1>10, <1>11, <1>12, <1>13, <1>14, <1>15, <1>16, <1>17, <1>18, <1>19
     DEF Group!InfraNext, InfraNext, Group!WorkerStep, WorkerStep, Group!ReclaimerStep,
         ReclaimerStep, Group!BatchStep, BatchStep

\* A step of the pipeline is one the group does not see, or the end of the
\* handler: it returns or it raises.
LEMMA PipelineRefines ==
    ASSUME PcOK, NEW t \in Tasks, PipelineStep(t)
    PROVE  (Group!AnyHandler(t) \/ UNCHANGED Group!groupVars) /\ PcOK'
<1>1. pc[t] \in PipeSteps \cup {"handle"} /\ GroupPc[t] = "handle"
  BY DEF PipelineStep, Claim, Enrich, PublishEnriched, CacheEnriched, PublishDlq,
         PipeSteps, PcOK, GroupPc
<1>2. UNCHANGED <<serverVars, batch, more, cursor, terminal, crashes>>
  BY DEF PipelineStep, Claim, Enrich, PublishEnriched, CacheEnriched, PublishDlq, GroupRest
<1>3. \/ /\ \E s \in PipeSteps : SetStep(t, s)
         /\ NoFault
      \/ Return(t) /\ UNCHANGED cur /\ (NoFault \/ Fault)
      \/ Raise(t) /\ UNCHANGED done /\ (NoFault \/ Fault)
  BY DEF PipelineStep, Claim, Enrich, PublishEnriched, CacheEnriched, PublishDlq,
         PipeSteps, NoFault
<1>4. CASE (\E s \in PipeSteps : SetStep(t, s)) /\ NoFault
  <2>1. PICK s \in PipeSteps : pc' = [pc EXCEPT ![t] = s] /\ UNCHANGED <<cur, done>>
    BY <1>4 DEF SetStep
  <2>2. GroupPc' = [GroupPc EXCEPT ![t] = "handle"] /\ PcOK'
    BY <2>1, OneTaskMoves
  <2>3. GroupPc' = GroupPc
    BY <1>1, <2>2 DEF GroupPc
  <2>4. QED
    BY <1>2, <1>4, <2>1, <2>2, <2>3
       DEF NoFault, Group!groupVars, Group!serverVars, Group!taskVars, serverVars
<1>5. CASE Return(t) /\ UNCHANGED cur /\ (NoFault \/ Fault)
  <2>1. GroupPc' = [GroupPc EXCEPT ![t] = "ack"] /\ PcOK'
    BY <1>5, OneTaskMoves DEF Return, GroupSteps, PipeSteps
  <2>2. Group!HandlerReturns(t)
    BY <1>1, <1>2, <1>5, <2>1, SameOperators
       DEF Return, Group!HandlerReturns, Group!Return, Group!serverVars, serverVars
  <2>3. QED
    BY <2>1, <2>2 DEF Group!AnyHandler
<1>6. CASE Raise(t) /\ UNCHANGED done /\ (NoFault \/ Fault)
  <2>1. GroupPc' = [GroupPc EXCEPT ![t] = "next"] /\ PcOK'
    BY <1>6, OneTaskMoves DEF Raise, GroupSteps, PipeSteps
  <2>2. Group!HandlerRaises(t)
    BY <1>1, <1>2, <1>6, <2>1, SameOperators
       DEF Raise, Group!HandlerRaises, Group!Raise, Group!serverVars, serverVars
  <2>3. QED
    BY <2>1, <2>2 DEF Group!AnyHandler
<1>7. QED
  BY <1>3, <1>4, <1>5, <1>6

\* A fresh enricher is a fresh group.
LEMMA InitRefines == Init => Group!GroupInit /\ PcOK
BY SameOperators
   DEF Init, GroupInit, Group!GroupInit, PcOK, GroupPc, FirstStep, GroupSteps, PipeSteps

\* Every step of the enricher is a step of the group, or none.
LEMMA NextRefines ==
    ASSUME PcOK, [Next]_vars
    PROVE  [Group!GroupNext]_Group!groupVars /\ PcOK'
<1>1. CASE InfraNext /\ UNCHANGED pipeVars
  BY <1>1, InfraRefines DEF Group!GroupNext
<1>2. CASE \E t \in Tasks : PipelineStep(t)
  BY <1>2, PipelineRefines, SameOperators DEF Group!GroupNext
<1>3. CASE (\E m \in Msgs : ClaimExpires(m)) \/ UNCHANGED vars
  <2>1. UNCHANGED groupVars
    BY <1>3 DEF ClaimExpires, vars
  <2>2. QED
    BY <2>1 DEF groupVars, serverVars, taskVars, Group!groupVars, Group!serverVars,
                Group!taskVars, GroupPc, PcOK
<1>4. QED
  BY <1>1, <1>2, <1>3 DEF Next

\* The pipeline keeps the contract of a stream handler: with its steps hidden,
\* the enricher is a consumer group whose handler returns or raises.
THEOREM ImplementsGroupHolds == Spec => ImplementsGroup
<1>1. Init => Group!GroupInit /\ PcOK
  BY InitRefines
<1>2. PcOK /\ [Next]_vars => [Group!GroupNext]_Group!groupVars /\ PcOK'
  BY NextRefines
<1>3. QED
  BY <1>1, <1>2, PTL DEF Spec, ImplementsGroup, Group!GroupSpec
-------------------------------------------------------------------------------
(* What the proofs about the group say of the enricher. *)

\* The two instances of the group are one.
LEMMA SameGroup == Group!GroupSpec => GroupFacts!GroupSpec
<1>1. Group!GroupInit => GroupFacts!GroupInit
  BY DEF Group!GroupInit, GroupFacts!GroupInit, Group!Msgs, GroupFacts!Msgs,
         Group!Tasks, GroupFacts!Tasks, Group!NoMsg, GroupFacts!NoMsg,
         Group!FirstStep, GroupFacts!FirstStep
<1>2. Group!groupVars = GroupFacts!groupVars
  BY DEF Group!groupVars, GroupFacts!groupVars, Group!serverVars, GroupFacts!serverVars,
         Group!taskVars, GroupFacts!taskVars
<1>3. Group!groupVars' = GroupFacts!groupVars'
  BY DEF Group!groupVars, GroupFacts!groupVars, Group!serverVars, GroupFacts!serverVars,
         Group!taskVars, GroupFacts!taskVars
<1>4. Group!GroupNext => GroupFacts!GroupNext
  BY DEF Group!Msgs, GroupFacts!Msgs, Group!Tasks, GroupFacts!Tasks, Group!NoMsg,
         GroupFacts!NoMsg, Group!serverVars, GroupFacts!serverVars, Group!taskVars,
         GroupFacts!taskVars, Group!Cardinality, GroupFacts!Cardinality, Group!Pel,
         GroupFacts!Pel, Group!FirstOf, GroupFacts!FirstOf, Group!Deliver,
         GroupFacts!Deliver, Group!Xack, GroupFacts!Xack, Group!NoFault,
         GroupFacts!NoFault, Group!Fault, GroupFacts!Fault, Group!Append,
         GroupFacts!Append, Group!BecomeIdle, GroupFacts!BecomeIdle,
         Group!PendingOf, GroupFacts!PendingOf, Group!RecoverPending,
         GroupFacts!RecoverPending, Group!Claimable, GroupFacts!Claimable,
         Group!FullBatch, GroupFacts!FullBatch, Group!RecoverClaim,
         GroupFacts!RecoverClaim, Group!LastRead, GroupFacts!LastRead, Group!Read,
         GroupFacts!Read, Group!ReadNothing, GroupFacts!ReadNothing,
         Group!NextOfBatch, GroupFacts!NextOfBatch, Group!EndOfBatch,
         GroupFacts!EndOfBatch, Group!Raise, GroupFacts!Raise, Group!Return,
         GroupFacts!Return, Group!Ack, GroupFacts!Ack, Group!NextCursors,
         GroupFacts!NextCursors, Group!AutoClaim, GroupFacts!AutoClaim,
         Group!EndOfTick, GroupFacts!EndOfTick, Group!OverLimit,
         GroupFacts!OverLimit, Group!CheckDeliveries, GroupFacts!CheckDeliveries,
         Group!TerminalDlq, GroupFacts!TerminalDlq, Group!TerminalAck,
         GroupFacts!TerminalAck, Group!Crash, GroupFacts!Crash, Group!FirstStep,
         GroupFacts!FirstStep, Group!Restart, GroupFacts!Restart, Group!WorkerStep,
         GroupFacts!WorkerStep, Group!ReclaimerStep, GroupFacts!ReclaimerStep,
         Group!BatchStep, GroupFacts!BatchStep, Group!InfraNext,
         GroupFacts!InfraNext, Group!HandlerReturns, GroupFacts!HandlerReturns,
         Group!HandlerRaises, GroupFacts!HandlerRaises, Group!AnyHandler,
         GroupFacts!AnyHandler, Group!GroupNext, GroupFacts!GroupNext,
         Group!groupVars, GroupFacts!groupVars
<1>5. [Group!GroupNext]_Group!groupVars => [GroupFacts!GroupNext]_GroupFacts!groupVars
  BY <1>2, <1>3, <1>4
<1>6. QED
  BY <1>1, <1>5, PTL DEF Group!GroupSpec, GroupFacts!GroupSpec

\* The invariants of the group, read in the enricher's own state.
GroupView ==
    /\ PcOK
    /\ added \in 0 .. MaxMsgs
    /\ lastDelivered \in 0 .. MaxMsgs
    /\ owner \in [Msgs -> Tasks \cup {NoTask}]
    /\ deliveries \in [Msgs -> 0 .. MaxDeliveries + 1]
    /\ idle \subseteq Msgs
    /\ batch \in [Tasks -> SUBSET Msgs]
    /\ cur \in [Tasks -> Msgs \cup {NoMsg}]
    /\ more \in [Tasks -> BOOLEAN]
    /\ cursor \in [Tasks -> 0 .. MaxMsgs]
    /\ done \subseteq Msgs
    /\ terminal \subseteq Msgs
    /\ faults \in 0 .. MaxFaults
    /\ crashes \in 0 .. MaxCrashes
    /\ PelShape
    /\ SettledForAReason
    /\ HandsInv
    /\ \A t \in Tasks : /\ TaskKnows(t)
                        /\ pc[t] \in PipeSteps => cur[t] \in Msgs \ Poison

LEMMA GroupViewHolds == Spec => []GroupView
<1>1. PcOK /\ GroupFacts!GroupInv /\ GroupFacts!HandsInv => GroupView
  <2> SUFFICES ASSUME PcOK, GroupFacts!GroupInv, GroupFacts!HandsInv
               PROVE  GroupView
    OBVIOUS
  <2> USE DEF GroupFacts!Msgs, Msgs, GroupFacts!Tasks, Tasks, GroupFacts!NoMsg, NoMsg
  <2>1. \A t \in Tasks : /\ pc[t] \in PipeSteps => GroupPc[t] = "handle"
                         /\ pc[t] \notin PipeSteps => GroupPc[t] = pc[t]
    BY DEF GroupPc
  <2>2. SettledForAReason
    BY DEF GroupFacts!GroupInv, GroupFacts!SettledForAReason, SettledForAReason,
           GroupFacts!Settled, Settled
  <2>3. PelShape
    BY DEF GroupFacts!GroupInv, GroupFacts!PelShape, PelShape, GroupFacts!Pel, Pel
  <2>4. ASSUME NEW t \in Tasks
        PROVE  TaskKnows(t) /\ (pc[t] \in PipeSteps => cur[t] \in Msgs \ Poison)
    BY <2>1 DEF GroupFacts!GroupInv, GroupFacts!TaskKnows, TaskKnows, PipeSteps
  <2>5. HandsInv
    <3>1. ASSUME NEW t \in Tasks PROVE TaskShape(t)
      BY <2>1 DEF GroupFacts!HandsInv, GroupFacts!TaskShape, TaskShape,
                  GroupFacts!InHand, InHand, PipeSteps
    <3>2. \A w \in Workers, m \in Msgs : GroupFacts!Listed(w, m) <=> Listed(w, m)
      BY <2>1 DEF GroupFacts!Listed, Listed, PipeSteps
    <3>3. ListedOnce
      BY <3>2 DEF GroupFacts!HandsInv, GroupFacts!ListedOnce, ListedOnce
    <3>4. FirstLife
      BY <2>1 DEF GroupFacts!HandsInv, GroupFacts!FirstLife, FirstLife,
                  GroupFacts!PendingOf, PendingOf, GroupFacts!InHand, InHand, PipeSteps
    <3>5. QED
      BY <3>1, <3>3, <3>4 DEF HandsInv
  <2>6. QED
    BY <2>2, <2>3, <2>4, <2>5
       DEF GroupView, GroupFacts!GroupInv, GroupFacts!GroupTypeOK
<1>2. Init => PcOK
  BY InitRefines
<1>3. PcOK /\ [Next]_vars => PcOK'
  BY NextRefines
<1>4. Group!GroupSpec => [](GroupFacts!GroupInv /\ GroupFacts!HandsInv)
  BY SameGroup, GroupFacts!HandsInvariant, GroupAssumption DEF Msgs, GroupFacts!Msgs
<1>5. Spec => Group!GroupSpec
  BY ImplementsGroupHolds DEF ImplementsGroup
<1>6. QED
  BY <1>1, <1>2, <1>3, <1>4, <1>5, PTL DEF Spec
-------------------------------------------------------------------------------
(* One claim, one output. *)

PipeTypes ==
    /\ claimed \subseteq Msgs
    /\ claims \in [Msgs -> Nat]
    /\ enriched \in [Msgs -> Nat]
    /\ rejected \in [Msgs -> Nat]
    /\ cached \subseteq Msgs
    /\ raised \subseteq Msgs
    /\ expiries \in 0 .. MaxExpiries

PipeInv == PipeTypes /\ PipeShape /\ AtMostOncePerClaim

\* The group's own steps start no step of the pipeline and interrupt one only by
\* a crash.
LEMMA InfraLeavesPipe ==
    ASSUME GroupView, InfraNext
    PROVE  /\ \A t \in Tasks : pc'[t] \in PipeSteps => pc'[t] = pc[t] /\ cur'[t] = cur[t]
           /\ \/ crashes' = crashes + 1
              \/ /\ crashes' = crashes
                 /\ \A t \in Tasks : pc[t] \in PipeSteps => pc'[t] = pc[t]
<1> USE DEF GroupView, PcOK, PipeSteps, Tasks, serverVars, taskVars
<1>1. ASSUME NEW w \in Workers, WorkerStep(w)
      PROVE  /\ \A t \in Tasks : pc'[t] \in PipeSteps => pc'[t] = pc[t] /\ cur'[t] = cur[t]
             /\ crashes' = crashes
             /\ \A t \in Tasks : pc[t] \in PipeSteps => pc'[t] = pc[t]
  BY <1>1 DEF WorkerStep, RecoverPending, RecoverClaim, Read, ReadNothing, groupVars
<1>2. ASSUME NEW r \in Reclaimers, ReclaimerStep(r)
      PROVE  /\ \A t \in Tasks : pc'[t] \in PipeSteps => pc'[t] = pc[t] /\ cur'[t] = cur[t]
             /\ crashes' = crashes
             /\ \A t \in Tasks : pc[t] \in PipeSteps => pc'[t] = pc[t]
  <2>1. CASE AutoClaim(r) \/ EndOfTick(r) \/ TerminalDlq(r)
    BY <2>1 DEF AutoClaim, EndOfTick, TerminalDlq
  <2>2. CASE CheckDeliveries(r) \/ TerminalAck(r)
    <3>1. /\ pc[r] \in {"count", "terminal_ack"} /\ crashes' = crashes
          /\ \E s \in {"terminal", "next", "handle"} : pc' = [pc EXCEPT ![r] = s]
          /\ cur' = cur \/ cur' = [cur EXCEPT ![r] = NoMsg]
      BY <2>2 DEF CheckDeliveries, TerminalAck, Raise
    <3>2. QED
      BY <3>1
  <2>3. QED
    BY <1>2, <2>1, <2>2 DEF ReclaimerStep
<1>3. ASSUME NEW u \in Tasks, BatchStep(u)
      PROVE  /\ \A t \in Tasks : pc'[t] \in PipeSteps => pc'[t] = pc[t] /\ cur'[t] = cur[t]
             /\ crashes' = crashes
             /\ \A t \in Tasks : pc[t] \in PipeSteps => pc'[t] = pc[t]
  <2>1. /\ pc[u] \in {"next", "ack"} /\ crashes' = crashes
        /\ \/ pc' = pc
           \/ \E s \in {"handle", "count", "autoclaim", "recover", "read", "next"} :
                  pc' = [pc EXCEPT ![u] = s]
        /\ \/ cur' = cur
           \/ \E e \in Msgs \cup {NoMsg} : cur' = [cur EXCEPT ![u] = e]
    <3>1. CASE NextOfBatch(u)
      BY <3>1 DEF NextOfBatch
    <3>2. CASE EndOfBatch(u)
      BY <3>2 DEF EndOfBatch
    <3>3. CASE Ack(u)
      BY <3>3 DEF Ack, Raise
    <3>4. QED
      BY <1>3, <3>1, <3>2, <3>3 DEF BatchStep
  <2>2. QED
    BY <2>1
<1>4. CASE Append \/ \E m \in Msgs : BecomeIdle(m)
  BY <1>4 DEF Append, BecomeIdle
<1>5. CASE Crash
  BY <1>5 DEF Crash
<1>6. CASE Restart
  BY <1>6 DEF Restart, FirstStep
<1>7. QED
  BY <1>1, <1>2, <1>3, <1>4, <1>5, <1>6 DEF InfraNext

\* The group's own steps take no event into flight and publish nothing.
LEMMA InfraPipeInv ==
    ASSUME GroupView, GroupView', PipeInv, InfraNext, UNCHANGED pipeVars
    PROVE  PipeInv'
<1>1. \A t \in Tasks : pc'[t] \in PipeSteps => pc'[t] = pc[t] /\ cur'[t] = cur[t]
  BY InfraLeavesPipe
<1>2. \A m \in Msgs : InFlight(m)' \subseteq InFlight(m)
  BY <1>1 DEF InFlight, PipeSteps
<1>3. PipeTypes' /\ AtMostOncePerClaim'
  BY DEF PipeInv, PipeTypes, pipeVars, AtMostOncePerClaim, Outputs
<1>4. PipeShape'
  <2>1. \A t \in Tasks : /\ pc'[t] \in {"llm", "publish", "dlq"} => cur'[t] \in claimed'
                         /\ pc'[t] = "cache" => Outputs(cur[t]) > 0 /\ cur'[t] = cur[t]
    BY <1>1 DEF PipeInv, PipeShape, PipeSteps, pipeVars
  <2>2. \A m \in Msgs : Outputs(m)' = Outputs(m) /\ claims'[m] = claims[m]
    BY DEF Outputs, pipeVars
  <2>3. \A t \in Tasks : pc'[t] = "cache" => Outputs(cur[t])' > 0
    BY <1>1, <2>1, <2>2 DEF PipeSteps, PipeInv, PipeShape
  <2>4. QED
    BY <1>2, <2>1, <2>2, <2>3 DEF PipeInv, PipeShape, GroupView, pipeVars
<1>5. QED
  BY <1>3, <1>4 DEF PipeInv

\* A step of the pipeline moves one task and touches one event.
LEMMA OneHandlerMoves ==
    ASSUME GroupView, NEW t \in Tasks, PipelineStep(t), NEW e \in Msgs \cup {NoMsg},
           e = cur[t]
    PROVE  /\ e \in Msgs \ Poison
           /\ UNCHANGED <<serverVars, batch, more, cursor, terminal, crashes>>
           /\ \A u \in Tasks \ {t} : pc'[u] = pc[u] /\ cur'[u] = cur[u]
           /\ pc[t] \in PipeSteps \cup {"handle"}
           /\ \/ pc'[t] \in PipeSteps \cup {"ack"} /\ cur'[t] = cur[t]
              \/ pc'[t] = "next" /\ cur'[t] = NoMsg
           /\ \A m \in Msgs \ {e} : InFlight(m)' = InFlight(m)
           /\ \A u \in Tasks \ {t} : u \in InFlight(e)' <=> u \in InFlight(e)
           /\ t \in InFlight(e) <=> pc[t] \in {"llm", "publish", "dlq"}
           /\ t \in InFlight(e)' <=> pc'[t] \in {"llm", "publish", "dlq"}
<1>1. pc[t] \in PipeSteps \cup {"handle"} /\ cur[t] \in Msgs \ Poison
  BY DEF PipelineStep, Claim, Enrich, PublishEnriched, CacheEnriched, PublishDlq,
         PipeSteps, GroupView, TaskKnows
<1>2. UNCHANGED <<serverVars, batch, more, cursor, terminal, crashes>>
  BY DEF PipelineStep, Claim, Enrich, PublishEnriched, CacheEnriched, PublishDlq, GroupRest
<1>3. \/ \E s \in PipeSteps \cup {"ack"} : pc' = [pc EXCEPT ![t] = s] /\ cur' = cur
      \/ pc' = [pc EXCEPT ![t] = "next"] /\ cur' = [cur EXCEPT ![t] = NoMsg]
  BY DEF PipelineStep, Claim, Enrich, PublishEnriched, CacheEnriched, PublishDlq,
         PipeSteps, SetStep, Return, Raise
<1>4. /\ \A u \in Tasks \ {t} : pc'[u] = pc[u] /\ cur'[u] = cur[u]
      /\ \/ pc'[t] \in PipeSteps \cup {"ack"} /\ cur'[t] = cur[t]
         \/ pc'[t] = "next" /\ cur'[t] = NoMsg
  BY <1>3 DEF GroupView, PcOK
<1>5. /\ \A u \in Tasks \ {t} : u \in InFlight(e)' <=> u \in InFlight(e)
      /\ t \in InFlight(e) <=> pc[t] \in {"llm", "publish", "dlq"}
      /\ t \in InFlight(e)' <=> pc'[t] \in {"llm", "publish", "dlq"}
  BY <1>4 DEF InFlight, PipeSteps
<1>6. ASSUME NEW m \in Msgs \ {e} PROVE InFlight(m)' = InFlight(m)
  <2>1. \A u \in Tasks : u \in InFlight(m)' <=> u \in InFlight(m)
    BY <1>4 DEF InFlight, Msgs, NoMsg
  <2>2. QED
    BY <2>1 DEF InFlight
<1>7. QED
  BY <1>1, <1>2, <1>4, <1>5, <1>6

\* SET NX starts at most one flight per claim.
LEMMA ClaimPipeInv ==
    ASSUME GroupView, PipeInv, NEW t \in Tasks, Claim(t)
    PROVE  PipeInv'
<1> PICK e \in Msgs \cup {NoMsg} : e = cur[t]
  BY DEF GroupView
<1>1. PipelineStep(t)
  BY DEF PipelineStep
<1> USE OneHandlerMoves, <1>1 DEF PipeInv
<1>2. /\ pc[t] = "handle" /\ UNCHANGED <<enriched, rejected, cached, raised, expiries>>
      /\ \/ e \notin claimed /\ SetNx(e) /\ pc'[t] = "llm"
         \/ /\ SetNx(e) \/ UNCHANGED <<claimed, claims>>
            /\ pc'[t] \in {"ack", "next"}
  BY DEF Claim, ClaimedFirst, SetStep, Return, Raise, GroupView, PcOK
<1>3. /\ claimed \subseteq claimed' /\ claimed' \subseteq Msgs
      /\ claims' \in [Msgs -> Nat]
      /\ \A m \in Msgs : claims'[m] >= claims[m] /\ (m \in claimed' => claims'[m] > 0)
  BY <1>2 DEF SetNx, PipeTypes, PipeShape
<1>4. \A m \in Msgs : Outputs(m)' = Outputs(m) /\ Outputs(m) \in Nat
  BY <1>2 DEF Outputs, PipeTypes
<1>5. PipeTypes' /\ AtMostOncePerClaim'
  BY <1>2, <1>3, <1>4 DEF PipeTypes, AtMostOncePerClaim
<1>6. CASE e \notin claimed /\ SetNx(e) /\ pc'[t] = "llm"
  <2>1. InFlight(e) = {} /\ e \in claimed' /\ claims'[e] = claims[e] + 1
    BY <1>6 DEF SetNx, PipeShape, InFlight, PipeTypes
  <2>2. InFlight(e)' = {t}
    BY <1>6, <2>1 DEF InFlight
  <2>3. Outputs(e) < claims'[e]
    BY <1>4, <2>1 DEF AtMostOncePerClaim, PipeTypes
  <2>4. QED
    BY <1>3, <1>4, <1>5, <1>6, <2>1, <2>2, <2>3 DEF PipeShape, PipeTypes, PipeSteps
<1>7. CASE pc'[t] \in {"ack", "next"}
  <2>1. \A m \in Msgs : InFlight(m)' = InFlight(m)
    BY <1>2, <1>7 DEF InFlight
  <2>2. QED
    BY <1>3, <1>4, <1>5, <1>7, <2>1 DEF PipeShape, PipeTypes, PipeSteps
<1>8. QED
  BY <1>2, <1>6, <1>7

\* The LLM's answer changes nobody's claim.
LEMMA EnrichPipeInv ==
    ASSUME GroupView, PipeInv, NEW t \in Tasks, Enrich(t)
    PROVE  PipeInv'
<1> PICK e \in Msgs \cup {NoMsg} : e = cur[t]
  BY DEF GroupView
<1>1. PipelineStep(t)
  BY DEF PipelineStep
<1> USE OneHandlerMoves, <1>1 DEF PipeInv
<1>2. /\ pc[t] = "llm" /\ pc'[t] \in {"publish", "dlq", "next"}
      /\ UNCHANGED <<claimed, claims, enriched, rejected, cached, expiries>>
      /\ raised' \subseteq Msgs
  BY DEF Enrich, SetStep, Raise, GroupView, PcOK, PipeTypes
<1>3. \A m \in Msgs : InFlight(m)' \subseteq InFlight(m)
  BY <1>2 DEF InFlight
<1>4. \A m \in Msgs : Outputs(m)' = Outputs(m)
  BY <1>2 DEF Outputs
<1>5. PipeTypes' /\ AtMostOncePerClaim'
  BY <1>2, <1>4 DEF PipeTypes, AtMostOncePerClaim
<1>6. PipeShape'
  BY <1>2, <1>3, <1>4 DEF PipeShape, PipeSteps
<1>7. QED
  BY <1>5, <1>6

\* What leaves the flight with one output more: the claim was not spent yet.
LEMMA OutputPipeInv ==
    ASSUME GroupView, PipeInv, NEW t \in Tasks, PipelineStep(t),
           pc[t] \in {"publish", "dlq"}, pc'[t] \in {"cache", "ack", "next"},
           PipeTypes', UNCHANGED claimed, UNCHANGED claims,
           NEW e \in Msgs, e = cur[t],
           \A m \in Msgs \ {e} : Outputs(m)' = Outputs(m),
           Outputs(e)' \in {Outputs(e), Outputs(e) + 1},
           pc'[t] = "cache" => Outputs(e)' = Outputs(e) + 1
    PROVE  PipeInv'
<1> USE OneHandlerMoves DEF PipeInv
<1>1. \A m \in Msgs : Outputs(m) \in Nat /\ claims[m] \in Nat
  BY DEF Outputs, PipeTypes
<1>2. t \in InFlight(e) /\ Outputs(e) < claims[e]
  BY DEF PipeShape
<1>3. InFlight(e)' = {}
  BY <1>2 DEF PipeShape, InFlight
<1>4. AtMostOncePerClaim'
  BY <1>1, <1>2 DEF AtMostOncePerClaim
<1>5. PipeShape'
  <2>1. ASSUME NEW u \in Tasks, pc'[u] = "cache" PROVE Outputs(cur[u])' > 0
    <3>1. PICK k \in Msgs : k = cur'[u]
      BY <2>1 DEF PipeShape, PipeSteps
    <3>2. CASE u = t
      <4>1. k = e /\ Outputs(e)' > 0
        BY <1>1, <2>1, <3>1, <3>2
      <4>2. QED
        BY <3>1, <4>1 DEF Outputs
    <3>3. CASE u # t
      <4>1. pc[u] = "cache" /\ cur[u] = k
        BY <2>1, <3>1, <3>3
      <4>2. Outputs(k) > 0
        BY <4>1 DEF PipeShape
      <4>3. Outputs(k)' > 0
        BY <1>1, <4>2
      <4>4. QED
        BY <3>1, <4>3 DEF Outputs
    <3>4. QED
      BY <3>2, <3>3
  <2>2. \A u \in Tasks : pc'[u] \in PipeSteps => cur'[u] \in Msgs \ Poison
    BY DEF PipeShape, PipeSteps
  <2>3. QED
    BY <1>1, <1>3, <2>1, <2>2 DEF PipeShape, PipeSteps
<1>6. QED
  BY <1>4, <1>5

LEMMA PublishEnrichedPipeInv ==
    ASSUME GroupView, PipeInv, NEW t \in Tasks, PublishEnriched(t)
    PROVE  PipeInv'
<1> PICK e \in Msgs \cup {NoMsg} : e = cur[t]
  BY DEF GroupView
<1>1. PipelineStep(t)
  BY DEF PipelineStep
<1>2. /\ pc[t] = "publish" /\ e \in Msgs
      /\ UNCHANGED <<claimed, claims, rejected, cached, raised, expiries>>
      /\ \/ enriched' = [enriched EXCEPT ![e] = @ + 1] /\ pc'[t] \in {"cache", "next"}
         \/ UNCHANGED enriched /\ pc'[t] = "next"
  BY <1>1, OneHandlerMoves DEF PublishEnriched, SetStep, Raise, GroupView, PcOK
<1>3. PipeTypes'
  BY <1>2 DEF PipeInv, PipeTypes
<1>4. QED
  BY <1>1, <1>2, <1>3, OutputPipeInv DEF PipeInv, PipeTypes, Outputs

\* Setting the cache publishes nothing.
LEMMA CacheEnrichedPipeInv ==
    ASSUME GroupView, PipeInv, NEW t \in Tasks, CacheEnriched(t)
    PROVE  PipeInv'
<1> PICK e \in Msgs \cup {NoMsg} : e = cur[t]
  BY DEF GroupView
<1>1. PipelineStep(t)
  BY DEF PipelineStep
<1> USE OneHandlerMoves, <1>1 DEF PipeInv
<1>2. /\ pc[t] = "cache" /\ pc'[t] = "ack"
      /\ UNCHANGED <<claimed, claims, enriched, rejected, raised, expiries>>
      /\ cached' \subseteq Msgs
  BY DEF CacheEnriched, Return, GroupView, PcOK, PipeTypes
<1>3. \A m \in Msgs : InFlight(m)' = InFlight(m)
  BY <1>2 DEF InFlight
<1>4. \A m \in Msgs : Outputs(m)' = Outputs(m)
  BY <1>2 DEF Outputs
<1>5. PipeTypes' /\ AtMostOncePerClaim'
  BY <1>2, <1>4 DEF PipeTypes, AtMostOncePerClaim
<1>6. PipeShape'
  BY <1>2, <1>3, <1>4 DEF PipeShape, PipeSteps
<1>7. QED
  BY <1>5, <1>6

LEMMA PublishDlqPipeInv ==
    ASSUME GroupView, PipeInv, NEW t \in Tasks, PublishDlq(t)
    PROVE  PipeInv'
<1> PICK e \in Msgs \cup {NoMsg} : e = cur[t]
  BY DEF GroupView
<1>1. PipelineStep(t)
  BY DEF PipelineStep
<1>2. /\ pc[t] = "dlq" /\ e \in Msgs /\ pc'[t] \in {"ack", "next"}
      /\ UNCHANGED <<claimed, claims, enriched, cached, raised, expiries>>
      /\ \/ rejected' = [rejected EXCEPT ![e] = @ + 1]
         \/ UNCHANGED rejected
  BY <1>1, OneHandlerMoves DEF PublishDlq, Return, Raise, GroupView, PcOK
<1>3. PipeTypes'
  BY <1>2 DEF PipeInv, PipeTypes
<1>4. QED
  BY <1>1, <1>2, <1>3, OutputPipeInv DEF PipeInv, PipeTypes, Outputs

\* A key expires only when nobody is in flight on it.
LEMMA ExpiryPipeInv ==
    ASSUME GroupView, PipeInv, NEW m \in Msgs, ClaimExpires(m)
    PROVE  PipeInv'
<1>1. /\ UNCHANGED <<groupVars, claims, enriched, rejected, cached, raised>>
      /\ claimed' = claimed \ {m} /\ InFlight(m) = {}
  BY DEF ClaimExpires
<1>2. UNCHANGED <<pc, cur>>
  BY <1>1 DEF groupVars, taskVars
<1>3. PipeTypes'
  BY EnricherAssumption DEF PipeInv, PipeTypes, ClaimExpires
<1>4. AtMostOncePerClaim' /\ PipeShape'
  BY <1>1, <1>2 DEF PipeInv, PipeShape, AtMostOncePerClaim, Outputs, InFlight
<1>5. QED
  BY <1>3, <1>4 DEF PipeInv

LEMMA NextPipeInv ==
    ASSUME GroupView, GroupView', PipeInv, [Next]_vars
    PROVE  PipeInv'
<1>1. CASE UNCHANGED vars
  BY <1>1 DEF vars, groupVars, taskVars, pipeVars, PipeInv, PipeTypes, PipeShape,
              AtMostOncePerClaim, Outputs, InFlight
<1>2. QED
  BY <1>1, InfraPipeInv, ClaimPipeInv, EnrichPipeInv, PublishEnrichedPipeInv,
     CacheEnrichedPipeInv, PublishDlqPipeInv, ExpiryPipeInv
     DEF Next, PipelineStep

LEMMA PipeInvariant == Spec => []PipeInv
<1>1. Init => PipeInv
  BY EnricherAssumption
     DEF Init, GroupInit, PipeInv, PipeTypes, PipeShape, AtMostOncePerClaim, Outputs,
         InFlight, FirstStep, PipeSteps
<1>2. GroupView /\ GroupView' /\ PipeInv /\ [Next]_vars => PipeInv'
  BY NextPipeInv
<1>3. QED
  BY <1>1, <1>2, GroupViewHolds, PTL DEF Spec

\* The types hold: no step of the pipeline leaves a counter's range.
THEOREM TypeOKHolds == Spec => []TypeOK
<1>1. GroupView /\ PipeInv => TypeOK
  BY DEF GroupView, PcOK, PipeInv, PipeTypes, TypeOK
<1>2. QED
  BY <1>1, GroupViewHolds, PipeInvariant, PTL

\* However often an entry is redelivered, stolen or replayed after a crash, one
\* successful SET NX buys at most one enriched event or one DLQ record.
THEOREM AtMostOncePerClaimHolds == Spec => []AtMostOncePerClaim
<1>1. PipeInv => AtMostOncePerClaim
  BY DEF PipeInv
<1>2. QED
  BY <1>1, PipeInvariant, PTL
-------------------------------------------------------------------------------
(* What failed before an event was lost. *)

\* The enricher runs one reclaimer.
OneReclaimer == \A q, r \in Reclaimers : q = r

CleanInv == \A m \in Msgs \ Poison : Unfailed(m) => CleanSoFar(m)

\* Failures are never forgotten.
LEMMA FailuresGrow ==
    ASSUME GroupView, PipeInv, [Next]_vars
    PROVE  /\ faults' \in {faults, faults + 1}
           /\ crashes' \in {crashes, crashes + 1}
           /\ raised \subseteq raised'
<1> USE DEF NoFault, Fault
<1>1. ASSUME InfraNext, UNCHANGED pipeVars
      PROVE  /\ faults' \in {faults, faults + 1}
             /\ crashes' \in {crashes, crashes + 1}
             /\ raised \subseteq raised'
  BY <1>1 DEF InfraNext, WorkerStep, ReclaimerStep, BatchStep, pipeVars, groupVars,
              RecoverPending, RecoverClaim, Read, ReadNothing, AutoClaim, EndOfTick,
              CheckDeliveries, TerminalDlq, TerminalAck, NextOfBatch, EndOfBatch, Ack,
              Append, BecomeIdle, Crash, Restart
<1>2. ASSUME NEW t \in Tasks, PipelineStep(t)
      PROVE  /\ faults' \in {faults, faults + 1}
             /\ crashes' \in {crashes, crashes + 1}
             /\ raised \subseteq raised'
  BY <1>2 DEF PipelineStep, Claim, Enrich, PublishEnriched, CacheEnriched, PublishDlq,
              GroupRest
<1>3. CASE (\E m \in Msgs : ClaimExpires(m)) \/ UNCHANGED vars
  BY <1>3 DEF ClaimExpires, vars, groupVars, pipeVars
<1>4. QED
  BY <1>1, <1>2, <1>3 DEF Next

\* An entry nothing failed for yet had no failure before either.
LEMMA StillUnfailed ==
    ASSUME GroupView, PipeInv, [Next]_vars, NEW m \in Msgs, Unfailed(m)'
    PROVE  Unfailed(m) /\ faults' = faults /\ crashes' = crashes
BY FailuresGrow DEF Unfailed, GroupView

\* What a step must leave alone for an entry to stay clean.
LEMMA KeptClean ==
    ASSUME NEW m \in Msgs, CleanSoFar(m),
           owner'[m] = owner[m] \/ owner'[m] = NoTask,
           deliveries'[m] = deliveries[m], lastDelivered' = lastDelivered,
           \A r \in Reclaimers : InHand(r, m) => InHand(r, m)',
           claims'[m] > 0 \/ m \in done' => Outputs(m)' > 0 \/ InFlight(m)' # {}
    PROVE  CleanSoFar(m)'
BY GroupAssumption DEF CleanSoFar, InHand

\* The group's own steps: what is handed out is read once and stolen once.
LEMMA InfraClean ==
    ASSUME OneReclaimer, MaxDeliveries >= 2, GroupView, GroupView', PipeInv,
           InfraNext, UNCHANGED pipeVars,
           NEW m \in Msgs \ Poison, Unfailed(m), Unfailed(m)', CleanSoFar(m)
    PROVE  CleanSoFar(m)'
<1> USE GroupAssumption DEF GroupView
<1>1. crashes = 0 /\ crashes' = 0 /\ faults = 0 /\ faults' = 0
  BY DEF Unfailed
<1>2. FirstLife /\ \A t \in Tasks : TaskShape(t)
  BY DEF HandsInv
<1>3. claims'[m] > 0 \/ m \in done' => Outputs(m)' > 0 \/ InFlight(m)' # {}
  <2>1. \A t \in Tasks : pc[t] \in PipeSteps => pc'[t] = pc[t] /\ cur'[t] = cur[t]
    BY <1>1, InfraLeavesPipe
  <2>2. InFlight(m) \subseteq InFlight(m)'
    BY <2>1 DEF InFlight, PipeSteps
  <2>3. UNCHANGED <<claims, done, enriched, rejected>>
    BY DEF InfraNext, WorkerStep, ReclaimerStep, BatchStep, pipeVars, groupVars,
           RecoverPending, RecoverClaim, Read, ReadNothing, AutoClaim, EndOfTick,
           CheckDeliveries, TerminalDlq, TerminalAck, NextOfBatch, EndOfBatch, Ack,
           Append, BecomeIdle, Crash, Restart
  <2>4. QED
    BY <2>2, <2>3 DEF CleanSoFar, Outputs
<1>4. ASSUME NEW w \in Workers, RecoverPending(w) PROVE CleanSoFar(m)'
  <2>1. \A r \in Reclaimers : InHand(r, m) => InHand(r, m)'
    BY <1>4 DEF RecoverPending, InHand, Tasks
  <2>2. QED
    BY <1>3, <1>4, <2>1, KeptClean DEF RecoverPending, serverVars
<1>5. ASSUME NEW w \in Workers, RecoverClaim(w) PROVE CleanSoFar(m)'
  BY <1>1, <1>2, <1>5 DEF RecoverClaim, FirstLife
<1>6. ASSUME NEW w \in Workers, Read(w) PROVE CleanSoFar(m)'
  <2>1. /\ lastDelivered' = LastRead /\ LastRead \in Nat /\ lastDelivered \in Nat
        /\ LastRead > lastDelivered
    BY <1>6 DEF Read, LastRead
  <2>2. \A r \in Reclaimers : InHand(r, m) => InHand(r, m)'
    BY <1>6 DEF Read, InHand, Tasks
  <2>3. CASE m \in (lastDelivered + 1) .. LastRead
    <3>1. deliveries[m] = 0 /\ owner'[m] = w /\ deliveries'[m] = 1
      BY <1>6, <2>1, <2>3 DEF CleanSoFar, Read, Deliver, Msgs
    <3>2. ~(m > lastDelivered') /\ w \notin Reclaimers
      BY <2>1, <2>3
    <3>3. QED
      BY <1>3, <3>1, <3>2 DEF CleanSoFar
  <2>4. CASE m \notin (lastDelivered + 1) .. LastRead
    <3>1. owner'[m] = owner[m] /\ deliveries'[m] = deliveries[m]
      BY <1>6, <2>4 DEF Read, Deliver
    <3>2. m > lastDelivered' => m > lastDelivered
      BY <2>1 DEF Msgs
    <3>3. QED
      BY <1>3, <2>2, <3>1, <3>2 DEF CleanSoFar, InHand
  <2>5. QED
    BY <2>3, <2>4
<1>7. ASSUME NEW r \in Reclaimers, AutoClaim(r) PROVE CleanSoFar(m)'
  <2> DEFINE due == FirstOf({k \in idle : k >= cursor[r]}, ReclaimCount)
  <2>1. /\ pc[r] = "autoclaim" /\ r \in Tasks /\ UNCHANGED <<lastDelivered, cur>>
        /\ due \subseteq Pel /\ Deliver(due, r) /\ batch' = [batch EXCEPT ![r] = due]
    <3>1. due \subseteq Pel
      BY DEF FirstOf, PelShape
    <3>2. /\ pc[r] = "autoclaim" /\ UNCHANGED <<lastDelivered, cur>> /\ Deliver(due, r)
          /\ batch' = [batch EXCEPT ![r] = due]
      BY <1>1, <1>7 DEF AutoClaim, Fault
    <3>3. QED
      BY <3>1, <3>2 DEF Tasks
  <2>2. ~InHand(r, m)
    BY <1>2, <2>1 DEF TaskShape, InHand, Msgs, NoMsg
  <2>3. owner[m] \notin Reclaimers
    BY <2>2 DEF CleanSoFar, OneReclaimer
  <2>4. CASE m \in due
    <3>1. owner[m] \in Workers
      BY <2>1, <2>3, <2>4 DEF Pel, Tasks
    <3>2. deliveries[m] <= 1 /\ owner'[m] = r
      BY <2>1, <2>4, <3>1 DEF CleanSoFar, Deliver
    <3>3. deliveries'[m] <= 2
      BY <2>1, <3>2 DEF Deliver
    <3>4. InHand(r, m)'
      BY <2>1, <2>4 DEF InHand
    <3>5. m <= lastDelivered'
      BY <2>1, <2>4 DEF PelShape
    <3>6. owner'[m] \in Reclaimers => InHand(owner[m], m)'
      BY <3>2, <3>4 DEF InHand
    <3>7. owner'[m] \notin Workers /\ ~(m > lastDelivered')
      BY <2>1, <3>2, <3>5 DEF Msgs
    <3>8. QED
      BY <1>3, <3>3, <3>6, <3>7 DEF CleanSoFar
  <2>5. CASE m \notin due
    <3>1. owner'[m] = owner[m] /\ deliveries'[m] = deliveries[m]
      BY <2>1, <2>5 DEF Deliver
    <3>2. QED
      BY <1>3, <2>1, <2>3, <3>1 DEF CleanSoFar
  <2>6. QED
    BY <2>4, <2>5
<1>8. ASSUME NEW r \in Reclaimers, CheckDeliveries(r) PROVE CleanSoFar(m)'
  <2>1. \A q \in Reclaimers : InHand(q, m) => InHand(q, m)'
    <3>1. cur[r] \in Msgs
      BY <1>8 DEF CheckDeliveries, TaskKnows, Tasks
    <3>2. batch' = batch /\ (cur' = cur \/ (cur[r] \in Poison /\ cur' = [cur EXCEPT ![r] = NoMsg]))
      BY <1>8 DEF CheckDeliveries, Raise
    <3>3. QED
      BY <3>1, <3>2 DEF InHand, Tasks
  <2>2. QED
    BY <1>3, <1>8, <2>1, KeptClean DEF CheckDeliveries, serverVars
<1>9. ASSUME NEW r \in Reclaimers, EndOfTick(r) \/ TerminalDlq(r) PROVE CleanSoFar(m)'
  <2>1. UNCHANGED <<owner, deliveries, lastDelivered, batch, cur>>
    BY <1>9 DEF EndOfTick, TerminalDlq, serverVars
  <2>2. QED
    BY <1>3, <2>1, KeptClean DEF InHand
<1>10. ASSUME NEW r \in Reclaimers, TerminalAck(r) PROVE CleanSoFar(m)'
  <2>1. cur[r] # m
    BY <1>10 DEF TerminalAck, TaskKnows, CleanSoFar, Tasks
  <2>2. /\ UNCHANGED <<deliveries, lastDelivered, batch>>
        /\ owner'[m] = owner[m] /\ cur' = [cur EXCEPT ![r] = NoMsg]
    BY <1>10, <2>1 DEF TerminalAck, Raise, Xack
  <2>3. \A q \in Reclaimers : InHand(q, m) => InHand(q, m)'
    BY <2>1, <2>2 DEF InHand, Tasks
  <2>4. QED
    BY <1>3, <2>2, <2>3, KeptClean
<1>11. ASSUME NEW t \in Tasks, NextOfBatch(t) PROVE CleanSoFar(m)'
  <2>1. \A q \in Reclaimers : InHand(q, m) => InHand(q, m)'
    <3>1. pc[t] = "next" /\ cur[t] = NoMsg
      BY <1>2, <1>11 DEF NextOfBatch, TaskShape
    <3>2. PICK k \in batch[t] :
            /\ batch' = [batch EXCEPT ![t] = @ \ {k}]
            /\ t \in Reclaimers => cur' = [cur EXCEPT ![t] = k]
            /\ cur' = cur \/ cur' = [cur EXCEPT ![t] = k]
      BY <1>11 DEF NextOfBatch
    <3>3. QED
      BY <3>1, <3>2 DEF InHand, Tasks, Msgs, NoMsg
  <2>2. QED
    BY <1>3, <1>11, <2>1, KeptClean DEF NextOfBatch, serverVars
<1>12. ASSUME NEW t \in Tasks, EndOfBatch(t) PROVE CleanSoFar(m)'
  <2>1. UNCHANGED <<owner, deliveries, lastDelivered, batch, cur>>
    BY <1>12 DEF EndOfBatch, serverVars
  <2>2. QED
    BY <1>3, <2>1, KeptClean DEF InHand
<1>13. ASSUME NEW t \in Tasks, Ack(t) PROVE CleanSoFar(m)'
  <2>1. /\ UNCHANGED <<deliveries, lastDelivered, batch>>
        /\ cur' = [cur EXCEPT ![t] = NoMsg] /\ Xack(cur[t])
    BY <1>1, <1>13 DEF Ack, Raise, Fault
  <2>2. CASE cur[t] = m
    <3>1. owner'[m] = NoTask
      BY <2>1, <2>2 DEF Xack
    <3>2. QED
      BY <1>3, <2>1, <3>1 DEF CleanSoFar
  <2>3. CASE cur[t] # m
    <3>1. owner'[m] = owner[m]
      BY <2>1, <2>3 DEF Xack
    <3>2. \A q \in Reclaimers : InHand(q, m) => InHand(q, m)'
      BY <2>1, <2>3 DEF InHand, Tasks
    <3>3. QED
      BY <1>3, <2>1, <3>1, <3>2, KeptClean
  <2>4. QED
    BY <2>2, <2>3
<1>14. CASE Append \/ (\E k \in Msgs : BecomeIdle(k)) \/ Restart
  <2>1. UNCHANGED <<owner, deliveries, lastDelivered, batch, cur>>
    BY <1>14 DEF Append, BecomeIdle, Restart, taskVars, serverVars
  <2>2. QED
    BY <1>3, <2>1, KeptClean DEF InHand
<1>15. CASE Crash
  BY <1>1, <1>15 DEF Crash
<1>16. CASE \E w \in Workers : ReadNothing(w)
  <2>1. UNCHANGED <<owner, deliveries, lastDelivered, batch, cur>>
    BY <1>16 DEF ReadNothing, groupVars, taskVars, serverVars
  <2>2. QED
    BY <1>3, <2>1, KeptClean DEF InHand
<1>17. QED
  BY <1>4, <1>5, <1>6, <1>7, <1>8, <1>9, <1>10, <1>11, <1>12, <1>13, <1>14, <1>15, <1>16
     DEF InfraNext, WorkerStep, ReclaimerStep, BatchStep

\* The pipeline: a step that neither fails nor gives the event up takes it on.
LEMMA PipelineClean ==
    ASSUME GroupView, GroupView', PipeInv, PipeInv', NEW t \in Tasks, PipelineStep(t),
           NEW m \in Msgs \ Poison, Unfailed(m), Unfailed(m)', CleanSoFar(m)
    PROVE  CleanSoFar(m)'
<1> PICK e \in Msgs \cup {NoMsg} : e = cur[t]
  BY DEF GroupView
<1> USE OneHandlerMoves
<1>1. faults' = faults /\ m \notin raised' /\ faults \in Nat
  BY DEF Unfailed, GroupView
<1>2. UNCHANGED <<owner, deliveries, lastDelivered, batch>>
  BY DEF serverVars
<1>3. pc'[t] = "next" => e # m
  BY <1>1 DEF PipelineStep, Claim, Enrich, PublishEnriched, CacheEnriched, PublishDlq,
              SetStep, Return, Raise, Fault, GroupView, PcOK
<1>4. \A r \in Reclaimers : InHand(r, m) => InHand(r, m)'
  BY <1>2, <1>3 DEF InHand, Tasks
<1>5. claims'[m] > 0 \/ m \in done' => Outputs(m)' > 0 \/ InFlight(m)' # {}
  <2> USE DEF CleanSoFar
  <2>1. CASE e # m
    <3>1. claims'[m] = claims[m] /\ Outputs(m)' = Outputs(m) /\ (m \in done' <=> m \in done)
      BY <2>1 DEF PipelineStep, Claim, Enrich, PublishEnriched, CacheEnriched, PublishDlq,
                  SetStep, SetNx, Return, Raise, Outputs, PipeInv, PipeTypes
    <3>2. QED
      BY <2>1, <3>1
  <2>2. CASE e = m
    <3>1. pc'[t] \in {"llm", "publish", "dlq"} => InFlight(m)' # {}
      <4>1. pc'[t] \in {"llm", "publish", "dlq"} => t \in InFlight(e)'
        OBVIOUS
      <4>2. QED
        BY <2>2, <4>1
    <3>2. Outputs(m) \in Nat
      BY DEF PipeInv, PipeTypes, Outputs
    <3>3. CASE Claim(t)
      <4>1. /\ pc[t] = "handle" /\ UNCHANGED <<enriched, rejected>>
            /\ pc'[t] = "llm" \/ (m \in claimed /\ claims' = claims)
        BY <1>1, <1>3, <2>2, <3>3
           DEF Claim, SetNx, ClaimedFirst, SetStep, Return, Raise, Fault, GroupView, PcOK
      <4>2. pc'[t] # "llm" => claims[m] > 0
        BY <4>1 DEF PipeInv, PipeShape
      <4>3. pc'[t] # "llm" => InFlight(m)' = InFlight(m)
        <5>1. ASSUME pc'[t] # "llm" PROVE \A u \in Tasks : u \in InFlight(m)' <=> u \in InFlight(m)
          BY <2>2, <3>3, <4>1, <5>1
             DEF Claim, SetStep, Return, Raise, GroupView, PcOK
        <5>2. QED
          BY <5>1 DEF InFlight
      <4>4. Outputs(m)' = Outputs(m)
        BY <4>1 DEF Outputs
      <4>5. QED
        BY <3>1, <4>2, <4>3, <4>4
    <3>4. CASE Enrich(t)
      <4>1. pc'[t] \in {"publish", "dlq"}
        BY <1>3, <2>2, <3>4 DEF Enrich, SetStep, Raise, GroupView, PcOK
      <4>2. QED
        BY <3>1, <4>1
    <3>5. CASE PublishEnriched(t) \/ PublishDlq(t)
      <4>1. Outputs(m)' = Outputs(m) + 1
        BY <1>1, <2>2, <3>5 DEF PublishEnriched, PublishDlq, Fault, Outputs, PipeInv, PipeTypes
      <4>2. QED
        BY <3>2, <4>1
    <3>6. CASE CacheEnriched(t)
      <4>1. Outputs(m)' = Outputs(m) /\ pc[t] = "cache"
        BY <3>6 DEF CacheEnriched, Outputs
      <4>2. Outputs(m) > 0
        BY <2>2, <4>1 DEF PipeInv, PipeShape
      <4>3. QED
        BY <4>1, <4>2
    <3>7. QED
      BY <3>3, <3>4, <3>5, <3>6 DEF PipelineStep
  <2>3. QED
    BY <2>1, <2>2
<1>6. QED
  BY <1>2, <1>4, <1>5, KeptClean

LEMMA NextClean ==
    ASSUME OneReclaimer, MaxDeliveries >= 2, GroupView, GroupView', PipeInv, PipeInv',
           CleanInv, [Next]_vars
    PROVE  CleanInv'
<1> SUFFICES ASSUME NEW m \in Msgs \ Poison, Unfailed(m)'
             PROVE  CleanSoFar(m)'
  BY DEF CleanInv, Msgs
<1>1. Unfailed(m) /\ CleanSoFar(m)
  BY StillUnfailed DEF CleanInv
<1>2. CASE (\E k \in Msgs : ClaimExpires(k)) \/ UNCHANGED vars
  <2>1. UNCHANGED <<owner, deliveries, lastDelivered, batch, cur, pc, done, claims,
                    enriched, rejected>>
    BY <1>2 DEF ClaimExpires, vars, groupVars, serverVars, taskVars, pipeVars
  <2>2. QED
    BY <1>1, <2>1 DEF CleanSoFar, InHand, Outputs, InFlight
<1>3. QED
  BY <1>1, <1>2, InfraClean, PipelineClean DEF Next

\* The entry whose loss is to be explained: settled, nobody in flight on it, and
\* nothing published.
THEOREM LossNeedsFailureHolds ==
    ASSUME OneReclaimer, MaxDeliveries >= 2
    PROVE  Spec => []LossNeedsFailure
<1>1. Init => CleanInv
  BY GroupAssumption
     DEF Init, GroupInit, CleanInv, CleanSoFar, Tasks, Msgs
<1>2. GroupView /\ GroupView' /\ PipeInv /\ PipeInv' /\ CleanInv /\ [Next]_vars => CleanInv'
  BY NextClean
<1>3. GroupView /\ CleanInv => LossNeedsFailure
  <2> SUFFICES ASSUME GroupView, CleanInv, NEW m \in Msgs \ Poison, Settled(m),
                      InFlight(m) = {}, Outputs(m) = 0, Unfailed(m)
               PROVE  FALSE
    BY GroupAssumption DEF LossNeedsFailure, Unfailed, GroupView
  <2>1. CleanSoFar(m)
    BY DEF CleanInv
  <2>2. m \in done \/ deliveries[m] > MaxDeliveries
    BY DEF GroupView, SettledForAReason
  <2>3. QED
    BY <2>1, <2>2, GroupAssumption DEF CleanSoFar, GroupView
<1>4. QED
  BY <1>1, <1>2, <1>3, GroupViewHolds, PipeInvariant, PTL DEF Spec
-------------------------------------------------------------------------------
(* Every delivery is explained. *)

DeliveryInv ==
    /\ \A m \in Msgs : m > lastDelivered => deliveries[m] = 0
    /\ \A m \in Msgs \ Poison : DeliveriesExplained(m)
    /\ GiveUpNeedsFailures

\* A failed call or an expired key costs one delivery, a crash one or two.
LEMMA CostFacts ==
    ASSUME GroupView, PipeInv
    PROVE  /\ FailureCost \in Nat
           /\ \A i, j \in Nat : faults' = faults + i /\ expiries' = expiries + j /\ crashes' = crashes
                                => FailureCost' = FailureCost + i + j
           /\ faults' = faults /\ expiries' = expiries /\ crashes' = crashes + 1
              => FailureCost' = FailureCost + (IF crashes = 0 THEN 1 ELSE 2)
<1> faults \in Nat /\ crashes \in Nat /\ expiries \in Nat
  BY GroupAssumption, EnricherAssumption DEF GroupView, PipeInv, PipeTypes
<1> QED
  BY DEF FailureCost

\* The three possible deliveries are zero or one.
LEMMA MayFacts ==
    ASSUME NEW m \in Msgs
    PROVE  /\ MayReclaim(m) \in {0, 1} /\ MayRecover(m) \in {0, 1} /\ MayFail(m) \in {0, 1}
           /\ MayReclaim(m)' \in {0, 1} /\ MayRecover(m)' \in {0, 1} /\ MayFail(m)' \in {0, 1}
BY DEF MayReclaim, MayRecover, MayFail

\* The account of an entry: the step's deliveries and hopes for more stay within
\* what it added to the cost of the failures.
LEMMA KeptExplained ==
    ASSUME GroupView, PipeInv, NEW m \in Msgs, DeliveriesExplained(m),
           NEW d \in Nat, NEW c \in Nat,
           deliveries'[m] \in Nat, deliveries'[m] <= deliveries[m] + d,
           FailureCost' = FailureCost + c,
           d <= c \/ owner'[m] # NoTask,
           owner'[m] # NoTask =>
               /\ owner[m] # NoTask
               /\ MayReclaim(m)' + MayRecover(m)' + MayFail(m)' + d
                  <= MayReclaim(m) + MayRecover(m) + MayFail(m) + c
    PROVE  DeliveriesExplained(m)'
<1>1. FailureCost \in Nat /\ deliveries[m] \in Nat
  BY CostFacts, GroupAssumption DEF GroupView
<1>2. /\ MayReclaim(m) \in {0, 1} /\ MayRecover(m) \in {0, 1} /\ MayFail(m) \in {0, 1}
      /\ MayReclaim(m)' \in {0, 1} /\ MayRecover(m)' \in {0, 1} /\ MayFail(m)' \in {0, 1}
  BY MayFacts
<1>3. deliveries'[m] <= FailureCost' + 3
  BY <1>1, <1>2 DEF DeliveriesExplained
<1>4. owner'[m] # NoTask
      => deliveries'[m] + MayReclaim(m)' + MayRecover(m)' + MayFail(m)' <= FailureCost' + 3
  BY <1>1, <1>2 DEF DeliveriesExplained
<1>5. QED
  BY <1>3, <1>4 DEF DeliveriesExplained

\* The same for a step that delivers nothing.
LEMMA KeptCount ==
    ASSUME GroupView, PipeInv, NEW m \in Msgs, DeliveriesExplained(m),
           NEW c \in {0, 1, 2}, FailureCost' = FailureCost + c,
           deliveries'[m] = deliveries[m],
           owner'[m] # NoTask =>
               /\ owner[m] # NoTask
               /\ MayReclaim(m)' + MayRecover(m)' + MayFail(m)'
                  <= MayReclaim(m) + MayRecover(m) + MayFail(m) + c
    PROVE  DeliveriesExplained(m)'
<1>1. deliveries[m] \in Nat /\ deliveries'[m] \in Nat
  BY GroupAssumption DEF GroupView
<1>2. owner'[m] # NoTask =>
         /\ owner[m] # NoTask
         /\ MayReclaim(m)' + MayRecover(m)' + MayFail(m)' + 0
            <= MayReclaim(m) + MayRecover(m) + MayFail(m) + c
  BY MayFacts
<1>3. QED
  BY <1>1, <1>2, KeptExplained

\* The group's own steps make no LLM failure possible that was not.
LEMMA InfraMayFail ==
    ASSUME GroupView, InfraNext, UNCHANGED pipeVars, NEW m \in Msgs
    PROVE  MayFail(m)' <= MayFail(m)
<1>1. \A t \in Tasks : pc'[t] = "llm" => pc[t] = "llm" /\ cur'[t] = cur[t]
  BY InfraLeavesPipe DEF PipeSteps
<1>2. QED
  BY <1>1 DEF MayFail, pipeVars

\* What no hand lets go stays out of the reclaimer's reach, and what no worker
\* is going to recover stays so.
LEMMA HoldsOn ==
    ASSUME NEW m \in Msgs,
           \A r \in Reclaimers : InHand(r, m) => InHand(r, m)',
           \A w \in Workers : Recovers(w, m)' => Recovers(w, m)
    PROVE  MayReclaim(m)' <= MayReclaim(m) /\ MayRecover(m)' <= MayRecover(m)
BY DEF MayReclaim, MayRecover

\* An entry no hand lets go of, and nobody delivers: its account only gains.
LEMMA KeptHold ==
    ASSUME GroupView, GroupView', PipeInv, NEW m \in Msgs, DeliveriesExplained(m),
           NEW c \in Nat, FailureCost' = FailureCost + c,
           deliveries'[m] = deliveries[m], owner'[m] = owner[m],
           MayFail(m)' <= MayFail(m),
           \A r \in Reclaimers : InHand(r, m) => InHand(r, m)',
           \A w \in Workers : Recovers(w, m)' => Recovers(w, m)
    PROVE  DeliveriesExplained(m)'
<1>1. MayReclaim(m)' <= MayReclaim(m) /\ MayRecover(m)' <= MayRecover(m)
  BY HoldsOn
<1>2. deliveries[m] \in Nat /\ deliveries'[m] \in Nat
  BY GroupAssumption DEF GroupView
<1>3. MayReclaim(m)' + MayRecover(m)' + MayFail(m)' + 0
      <= MayReclaim(m) + MayRecover(m) + MayFail(m) + c
  BY <1>1, MayFacts
<1>4. QED
  BY <1>2, <1>3, KeptExplained

\* One task lets go of an entry: the reclaimer may come back for it or the worker
\* may recover it, not both.
LEMMA LetGo ==
    ASSUME GroupView, NEW t \in Tasks, NEW m \in Msgs,
           owner'[m] = owner[m], UNCHANGED <<batch, more>>,
           \A u \in Tasks \ {t} : pc'[u] = pc[u] /\ cur'[u] = cur[u],
           pc[t] \notin {"down", "recover", "claim"}, pc'[t] \notin {"down", "recover", "claim"}
    PROVE  /\ MayReclaim(m)' + MayRecover(m)' <= MayReclaim(m) + MayRecover(m) + 1
           /\ cur[t] # m \/ cur'[t] = cur[t]
              => MayReclaim(m)' <= MayReclaim(m) /\ MayRecover(m)' <= MayRecover(m)
<1> USE MayFacts
<1>1. \A u \in Tasks \ {t} : /\ InHand(u, m)' <=> InHand(u, m)
                             /\ Recovers(u, m)' <=> Recovers(u, m)
  BY DEF InHand, Recovers, Listed
<1>2. CASE t \in Reclaimers
  <2>1. \A w \in Workers : Recovers(w, m)' => Recovers(w, m)
    BY <1>1, <1>2, GroupAssumption DEF Tasks
  <2>2. MayRecover(m)' <= MayRecover(m)
    BY <2>1 DEF MayRecover
  <2>3. (cur[t] = m /\ cur'[t] # cur[t]) \/ \A r \in Reclaimers : InHand(r, m) => InHand(r, m)'
    BY <1>1 DEF InHand, Tasks
  <2>4. QED
    BY <2>1, <2>2, <2>3, HoldsOn
<1>3. CASE t \in Workers
  <2>1. \A r \in Reclaimers : InHand(r, m) => InHand(r, m)'
    BY <1>1, <1>3, GroupAssumption DEF Tasks
  <2>2. MayReclaim(m)' <= MayReclaim(m)
    BY <2>1 DEF MayReclaim
  <2>3. (cur[t] = m /\ cur'[t] # cur[t]) \/ \A w \in Workers : Recovers(w, m)' => Recovers(w, m)
    BY <1>1 DEF Recovers, Listed, InHand, Tasks
  <2>4. QED
    BY <2>1, <2>2, <2>3, HoldsOn
<1>4. QED
  BY <1>2, <1>3 DEF Tasks

\* The cost of a step of the group that is no crash.
LEMMA InfraCost ==
    ASSUME GroupView, PipeInv, UNCHANGED pipeVars, crashes' = crashes, NoFault \/ Fault
    PROVE  \E c \in {0, 1} : /\ FailureCost' = FailureCost + c
                             /\ NoFault \/ c = 1
<1>1. faults \in Nat /\ FailureCost \in Nat
  BY CostFacts, GroupAssumption DEF GroupView
<1>2. expiries' = expiries
  BY DEF pipeVars
<1>3. CASE NoFault
  <2>1. FailureCost' = FailureCost + 0
    BY <1>1, <1>2, <1>3 DEF FailureCost, NoFault
  <2>2. QED
    BY <1>3, <2>1
<1>4. CASE Fault
  <2>1. FailureCost' = FailureCost + 1
    <3>1. crashes \in Nat /\ expiries \in Nat
      BY GroupAssumption, EnricherAssumption DEF GroupView, PipeInv, PipeTypes
    <3>2. QED
      BY <1>1, <1>2, <1>4, <3>1 DEF FailureCost, Fault
  <2>2. QED
    BY <2>1
<1>5. QED
  BY <1>3, <1>4

\* A recovering worker lists its own entries only.
LEMMA RecoverPendingExplained ==
    ASSUME GroupView, GroupView', PipeInv, UNCHANGED pipeVars, NEW w \in Workers,
           RecoverPending(w), NEW m \in Msgs \ Poison, DeliveriesExplained(m),
           MayFail(m)' <= MayFail(m)
    PROVE  DeliveriesExplained(m)'
<1> USE GroupAssumption DEF GroupView, Tasks
<1>1. /\ pc[w] = "recover" /\ UNCHANGED <<owner, deliveries, cur, more, crashes>>
      /\ NoFault \/ Fault
      /\ \/ /\ pc' = [pc EXCEPT ![w] = "read"] /\ UNCHANGED batch
         \/ /\ pc' = [pc EXCEPT ![w] = "claim"]
            /\ batch' = [batch EXCEPT ![w] = FirstOf(PendingOf(w), RecoverCount)]
  BY DEF RecoverPending, serverVars
<1>2. ~more[w] /\ batch[w] = {} /\ FirstOf(PendingOf(w), RecoverCount) \subseteq PendingOf(w)
  BY <1>1 DEF HandsInv, TaskShape, FirstOf
<1>3. \A r \in Reclaimers : InHand(r, m) => InHand(r, m)'
  BY <1>1 DEF InHand
<1>4. ASSUME NEW u \in Workers, Recovers(u, m)' PROVE Recovers(u, m)
  BY <1>1, <1>2, <1>4 DEF Recovers, Listed, PendingOf, PcOK, InHand
<1>5. PICK c \in {0, 1} : FailureCost' = FailureCost + c
  BY <1>1, InfraCost
<1>6. QED
  BY <1>1, <1>3, <1>4, <1>5, KeptHold

\* XCLAIM uses up the one delivery a recovery is good for.
LEMMA RecoverClaimExplained ==
    ASSUME GroupView, GroupView', PipeInv, UNCHANGED pipeVars, NEW w \in Workers,
           RecoverClaim(w), NEW m \in Msgs \ Poison, DeliveriesExplained(m),
           MayFail(m)' <= MayFail(m)
    PROVE  DeliveriesExplained(m)'
<1> USE GroupAssumption, MayFacts DEF GroupView, Tasks
<1> DEFINE got == Claimable(w)
<1>1. /\ pc[w] = "claim" /\ UNCHANGED <<cur, crashes>>
      /\ NoFault \/ Fault
      /\ \/ /\ got = {} /\ UNCHANGED <<owner, deliveries, more>>
            /\ pc' = [pc EXCEPT ![w] = "read"] /\ batch' = [batch EXCEPT ![w] = {}]
         \/ /\ NoFault /\ Deliver(got, w) /\ pc' = [pc EXCEPT ![w] = "next"]
            /\ batch' = [batch EXCEPT ![w] = got]
            /\ more' = [more EXCEPT ![w] = FullBatch(got)]
         \/ /\ Fault /\ Deliver(got, w) /\ pc' = [pc EXCEPT ![w] = "recover"]
            /\ batch' = [batch EXCEPT ![w] = {}] /\ UNCHANGED more
         \/ /\ Fault /\ UNCHANGED <<owner, deliveries, more>>
            /\ pc' = [pc EXCEPT ![w] = "read"] /\ batch' = [batch EXCEPT ![w] = {}]
  BY DEF RecoverClaim
<1>2. got = batch[w] \cap Pel
  BY DEF Claimable
<1> HIDE DEF got
<1>3. PICK c \in {0, 1} : FailureCost' = FailureCost + c /\ (NoFault \/ c = 1)
  BY <1>1, InfraCost
<1>4. \A r \in Reclaimers : InHand(r, m) => InHand(r, m)'
  BY <1>1 DEF InHand
<1>5. \A u \in Workers \ {w} : pc'[u] = pc[u] /\ batch'[u] = batch[u] /\ more'[u] = more[u]
  BY <1>1 DEF PcOK
<1>6. CASE m \notin got
  <2>1. owner'[m] = owner[m] /\ deliveries'[m] = deliveries[m]
    BY <1>1, <1>6 DEF Deliver
  <2>2. ASSUME NEW u \in Workers, Recovers(u, m)' PROVE Recovers(u, m)
    <3>1. pc'[w] # "claim"
      BY <1>1 DEF PcOK
    <3>2. QED
      BY <1>1, <1>5, <2>1, <2>2, <3>1 DEF Recovers, Listed, InHand
  <2>3. QED
    BY <1>3, <1>4, <2>1, <2>2, KeptHold
<1>7. CASE m \in got
  <2>1. owner[m] # NoTask /\ Listed(w, m) /\ MayRecover(m) = 1
    BY <1>1, <1>2, <1>7 DEF Pel, Listed, Recovers, MayRecover
  <2>2. MayReclaim(m)' <= MayReclaim(m)
    BY <1>4 DEF MayReclaim
  <2>3. deliveries[m] \in Nat /\ deliveries'[m] \in Nat
    OBVIOUS
  <2>4. CASE NoFault /\ Deliver(got, w) /\ pc' = [pc EXCEPT ![w] = "next"] /\ batch' = [batch EXCEPT ![w] = got]
    <3>1. owner'[m] = w /\ deliveries'[m] <= deliveries[m] + 1
      BY <1>7, <2>3, <2>4 DEF Deliver
    <3>2. ASSUME NEW u \in Workers PROVE ~Recovers(u, m)'
      <4>1. CASE u = w
        BY <1>7, <2>4, <4>1 DEF Recovers, Listed, InHand, PcOK
      <4>2. CASE u # w
        BY <1>5, <2>1, <3>1, <4>2 DEF Recovers, Listed, HandsInv, ListedOnce
      <4>3. QED
        BY <4>1, <4>2
    <3>3. MayRecover(m)' = 0
      BY <3>2 DEF MayRecover
    <3>4. MayReclaim(m)' + MayRecover(m)' + MayFail(m)' + 1
          <= MayReclaim(m) + MayRecover(m) + MayFail(m) + c
      BY <2>1, <2>2, <3>3
    <3>5. owner'[m] # NoTask
      BY <3>1
    <3>6. QED
      BY <1>3, <2>1, <2>3, <3>1, <3>4, <3>5, KeptExplained
  <2>5. CASE Fault /\ (Deliver(got, w) \/ UNCHANGED <<owner, deliveries>>)
    <3>1. c = 1
      BY <1>3, <2>5 DEF Fault, NoFault
    <3>2. deliveries'[m] <= deliveries[m] + 1
      BY <2>3, <2>5 DEF Deliver
    <3>3. MayReclaim(m)' + MayRecover(m)' + MayFail(m)' + 1
          <= MayReclaim(m) + MayRecover(m) + MayFail(m) + c
      BY <2>1, <2>2, <3>1
    <3>4. QED
      BY <1>3, <2>1, <2>3, <3>1, <3>2, <3>3, KeptExplained
  <2>6. QED
    BY <1>1, <1>7, <2>4, <2>5
<1>8. QED
  BY <1>6, <1>7

\* A fresh entry is read once; the other entries stay where they are.
LEMMA ReadExplained ==
    ASSUME GroupView, GroupView', PipeInv, UNCHANGED pipeVars, NEW w \in Workers,
           Read(w), NEW m \in Msgs \ Poison, DeliveriesExplained(m),
           m > lastDelivered => deliveries[m] = 0,
           MayFail(m)' <= MayFail(m)
    PROVE  DeliveriesExplained(m)'
<1> USE GroupAssumption DEF GroupView, Tasks
<1> DEFINE fresh == (lastDelivered + 1) .. LastRead
<1>1. /\ pc[w] = "read" /\ UNCHANGED <<cur, crashes, more>> /\ Deliver(fresh, w)
      /\ \/ NoFault /\ pc' = [pc EXCEPT ![w] = "next"] /\ batch' = [batch EXCEPT ![w] = fresh]
         \/ Fault /\ UNCHANGED <<pc, batch>>
  BY DEF Read
<1>2. \A k \in fresh : k > lastDelivered
  BY DEF Msgs
<1> HIDE DEF fresh
<1>3. PICK c \in {0, 1} : FailureCost' = FailureCost + c /\ (NoFault \/ c = 1)
  BY <1>1, InfraCost
<1>4. /\ \A r \in Reclaimers : InHand(r, m) => InHand(r, m)'
      /\ \A u \in Workers \ {w} : pc'[u] = pc[u] /\ batch'[u] = batch[u] /\ more'[u] = more[u]
      /\ ~more[w] /\ batch[w] = {}
  BY <1>1 DEF InHand, PcOK, HandsInv, TaskShape
<1>5. CASE m \notin fresh
  <2>1. owner'[m] = owner[m] /\ deliveries'[m] = deliveries[m]
    BY <1>1, <1>5 DEF Deliver
  <2>2. ASSUME NEW u \in Workers, Recovers(u, m)' PROVE Recovers(u, m)
    <3>1. pc'[w] \in {"next", "read"}
      BY <1>1 DEF PcOK
    <3>2. QED
      BY <1>1, <1>4, <2>1, <2>2, <3>1 DEF Recovers, Listed, InHand
  <2>3. QED
    BY <1>3, <1>4, <2>1, <2>2, KeptHold
<1>6. CASE m \in fresh
  <2>1. deliveries'[m] = 1 /\ owner'[m] = w
    BY <1>1, <1>2, <1>6 DEF Deliver
  <2>2. CASE Fault
    <3>1. FailureCost \in Nat /\ FailureCost' = FailureCost + 1
      BY <1>3, <2>2, CostFacts DEF Fault, NoFault
    <3>2. /\ deliveries'[m] <= FailureCost' + 3
          /\ deliveries'[m] + MayReclaim(m)' + MayRecover(m)' + MayFail(m)' <= FailureCost' + 3
      BY <2>1, <3>1, MayFacts
    <3>3. QED
      BY <3>2, Zenon DEF DeliveriesExplained
  <2>3. CASE NoFault /\ pc' = [pc EXCEPT ![w] = "next"] /\ batch' = [batch EXCEPT ![w] = fresh]
    <3>1. ASSUME NEW u \in Workers PROVE ~Recovers(u, m)'
      <4>1. CASE u = w
        BY <1>1, <1>6, <2>3, <4>1 DEF Recovers, Listed, InHand, PcOK
      <4>2. CASE u # w
        <5>1. ~InHand(u, m)
          BY <1>2, <1>6 DEF HandsInv, TaskShape, Msgs
        <5>2. QED
          BY <1>4, <2>1, <4>2, <5>1 DEF Recovers, Listed, InHand
      <4>3. QED
        BY <4>1, <4>2
    <3>2. MayRecover(m)' = 0
      BY <3>1 DEF MayRecover
    <3>3. FailureCost \in Nat /\ FailureCost' \in Nat
      BY <1>3, CostFacts
    <3>4. MayReclaim(m)' \in {0, 1} /\ MayFail(m)' \in {0, 1}
      BY MayFacts
    <3>5. deliveries'[m] + MayReclaim(m)' + MayRecover(m)' + MayFail(m)' <= FailureCost' + 3
      BY <2>1, <3>2, <3>3, <3>4
    <3>6. deliveries'[m] <= FailureCost' + 3
      BY <2>1, <3>3
    <3>7. QED
      BY <3>5, <3>6, Zenon DEF DeliveriesExplained
  <2>4. QED
    BY <1>1, <2>2, <2>3
<1>7. QED
  BY <1>5, <1>6

\* XAUTOCLAIM uses up the one delivery to the reclaimer.
LEMMA AutoClaimExplained ==
    ASSUME OneReclaimer, GroupView, GroupView', PipeInv, UNCHANGED pipeVars,
           NEW r \in Reclaimers, AutoClaim(r), NEW m \in Msgs \ Poison,
           DeliveriesExplained(m), MayFail(m)' <= MayFail(m)
    PROVE  DeliveriesExplained(m)'
<1> USE GroupAssumption, MayFacts DEF GroupView, Tasks
<1> DEFINE due == FirstOf({k \in idle : k >= cursor[r]}, ReclaimCount)
<1>1. /\ pc[r] = "autoclaim" /\ UNCHANGED <<cur, crashes, more>> /\ Deliver(due, r)
      /\ \/ NoFault /\ pc' = [pc EXCEPT ![r] = "next"] /\ batch' = [batch EXCEPT ![r] = due]
         \/ Fault /\ UNCHANGED <<pc, batch>>
  BY DEF AutoClaim
<1>2. due \subseteq Pel
  BY DEF FirstOf, PelShape
<1> HIDE DEF due
<1>3. PICK c \in {0, 1} : FailureCost' = FailureCost + c /\ (NoFault \/ c = 1)
  BY <1>1, InfraCost
<1>4. ~InHand(r, m)
  BY <1>1 DEF HandsInv, TaskShape, InHand, Msgs, NoMsg
<1>5. MayReclaim(m) = 1
  BY <1>4 DEF MayReclaim, OneReclaimer
<1>6. \A u \in Workers : pc'[u] = pc[u] /\ batch'[u] = batch[u] /\ more'[u] = more[u]
  BY <1>1 DEF PcOK
<1>7. CASE m \notin due
  <2>1. owner'[m] = owner[m] /\ deliveries'[m] = deliveries[m]
    BY <1>1, <1>7 DEF Deliver
  <2>2. \A q \in Reclaimers : InHand(q, m) => InHand(q, m)'
    BY <1>4 DEF OneReclaimer
  <2>3. \A u \in Workers : Recovers(u, m)' => Recovers(u, m)
    BY <1>1, <1>6, <2>1 DEF Recovers, Listed, InHand
  <2>4. QED
    BY <1>3, <2>1, <2>2, <2>3, KeptHold
<1>8. CASE m \in due
  <2>1. owner'[m] = r /\ owner[m] # NoTask /\ deliveries[m] \in Nat /\ deliveries'[m] \in Nat
    BY <1>1, <1>2, <1>8 DEF Deliver, Pel
  <2>2. deliveries'[m] <= deliveries[m] + 1
    BY <1>1, <1>8, <2>1 DEF Deliver
  <2>3. \A u \in Workers : Recovers(u, m)' => Recovers(u, m)
    BY <1>1, <1>6, <2>1 DEF Recovers, Listed, InHand
  <2>4. MayRecover(m)' <= MayRecover(m)
    BY <2>3 DEF MayRecover
  <2>5. MayReclaim(m)' + 1 <= MayReclaim(m) + c
    <3>1. CASE NoFault /\ batch' = [batch EXCEPT ![r] = due]
      <4>1. MayReclaim(m)' = 0
        BY <1>8, <3>1 DEF MayReclaim, InHand
      <4>2. QED
        BY <1>5, <4>1
    <3>2. CASE Fault
      BY <1>3, <1>5, <3>2 DEF Fault, NoFault
    <3>3. QED
      BY <1>1, <3>1, <3>2
  <2>6. MayReclaim(m)' + MayRecover(m)' + MayFail(m)' + 1
        <= MayReclaim(m) + MayRecover(m) + MayFail(m) + c
    BY <2>4, <2>5
  <2>7. owner'[m] # NoTask
    BY <2>1
  <2>8. QED
    BY <1>3, <2>1, <2>2, <2>6, <2>7, KeptExplained
<1>9. QED
  BY <1>7, <1>8

\* The other steps of a task that let no entry go: the reclaimer's look at the
\* delivery counter, the end of its tick, its record in the DLQ, and the way
\* through a batch.
LEMMA QuietExplained ==
    ASSUME GroupView, GroupView', PipeInv, UNCHANGED pipeVars, NEW t \in Tasks,
           \/ t \in Reclaimers /\ (CheckDeliveries(t) \/ EndOfTick(t) \/ TerminalDlq(t))
           \/ NextOfBatch(t)
           \/ EndOfBatch(t),
           NEW m \in Msgs \ Poison, DeliveriesExplained(m), MayFail(m)' <= MayFail(m)
    PROVE  DeliveriesExplained(m)'
<1> USE GroupAssumption DEF GroupView
<1>1. UNCHANGED <<owner, deliveries, crashes>> /\ (NoFault \/ Fault)
  BY DEF CheckDeliveries, EndOfTick, TerminalDlq, NextOfBatch, EndOfBatch, serverVars, NoFault
<1>2. PICK c \in {0, 1} : FailureCost' = FailureCost + c
  BY <1>1, InfraCost
<1>3. TaskShape(t) /\ TaskKnows(t)
  BY DEF HandsInv
<1>4. CASE t \in Reclaimers /\ (CheckDeliveries(t) \/ EndOfTick(t) \/ TerminalDlq(t))
  <2>1. /\ UNCHANGED <<batch, more>> /\ \A u \in Workers : pc'[u] = pc[u]
        /\ \/ cur' = cur
           \/ cur[t] \in Poison /\ cur' = [cur EXCEPT ![t] = NoMsg]
    BY <1>4 DEF CheckDeliveries, EndOfTick, TerminalDlq, Raise, PcOK, Tasks
  <2>2. \A q \in Reclaimers : InHand(q, m) => InHand(q, m)'
    BY <2>1 DEF InHand, Tasks
  <2>3. \A w \in Workers : Recovers(w, m)' => Recovers(w, m)
    BY <1>1, <1>4, <2>1 DEF Recovers, Listed, InHand, Tasks
  <2>4. QED
    BY <1>1, <1>2, <2>2, <2>3, KeptHold
<1>5. CASE NextOfBatch(t)
  <2>1. pc[t] = "next" /\ cur[t] = NoMsg /\ UNCHANGED more
    BY <1>3, <1>5 DEF NextOfBatch, TaskShape
  <2>2. PICK k \in batch[t] :
          /\ batch' = [batch EXCEPT ![t] = @ \ {k}]
          /\ \/ t \in Workers /\ k \in Poison /\ UNCHANGED <<pc, cur>>
             \/ /\ cur' = [cur EXCEPT ![t] = k]
                /\ pc' = [pc EXCEPT ![t] = IF t \in Workers THEN "handle" ELSE "count"]
    BY <1>5 DEF NextOfBatch
  <2>3. ASSUME NEW u \in Tasks PROVE InHand(u, m)' <=> InHand(u, m)
    <3>1. k \in Msgs /\ (k \in Poison => k # m)
      BY Zenon
    <3> m # NoMsg
      BY DEF Msgs, NoMsg
    <3>2. CASE u = t
      BY <2>1, <2>2, <3>1, <3>2 DEF InHand
    <3>3. CASE u # t
      BY <2>2, <3>3 DEF InHand
    <3>4. QED
      BY <3>2, <3>3
  <2>4. /\ \A u \in Tasks \ {t} : pc'[u] = pc[u] /\ batch'[u] = batch[u]
        /\ pc'[t] \in {"next", "handle", "count"}
    BY <2>1, <2>2 DEF PcOK
  <2>5. \A w \in Workers : Recovers(w, m)' => Recovers(w, m)
    BY <1>1, <2>1, <2>3, <2>4 DEF Recovers, Listed, Tasks
  <2>6. \A q \in Reclaimers : InHand(q, m) => InHand(q, m)'
    BY <2>3 DEF Tasks
  <2>7. QED
    BY <1>1, <1>2, <2>5, <2>6, KeptHold
<1>6. CASE EndOfBatch(t)
  <2>1. /\ pc[t] = "next" /\ batch[t] = {} /\ cur[t] = NoMsg /\ UNCHANGED <<batch, cur>>
        /\ pc' = [pc EXCEPT ![t] = IF t \in Reclaimers THEN "autoclaim"
                                   ELSE IF more[t] THEN "recover" ELSE "read"]
        /\ more' = [more EXCEPT ![t] = FALSE]
    BY <1>3, <1>6 DEF EndOfBatch, TaskShape
  <2>2. \A u \in Tasks : InHand(u, m)' <=> InHand(u, m)
    BY <2>1 DEF InHand
  <2>3. \A u \in Tasks \ {t} : pc'[u] = pc[u] /\ more'[u] = more[u]
    BY <2>1 DEF PcOK
  <2>4. /\ ~InHand(t, m) /\ ~more'[t]
        /\ pc'[t] \in {"autoclaim", "recover", "read"}
        /\ pc'[t] = "recover" => more[t]
    BY <2>1 DEF InHand, PcOK, Msgs, NoMsg
  <2>5. \A w \in Workers : Recovers(w, m)' => Recovers(w, m)
    BY <1>1, <2>1, <2>2, <2>3, <2>4 DEF Recovers, Listed, Tasks
  <2>6. \A q \in Reclaimers : InHand(q, m) => InHand(q, m)'
    BY <2>2 DEF Tasks
  <2>7. QED
    BY <1>1, <1>2, <2>5, <2>6, KeptHold
<1>7. QED
  BY <1>4, <1>5, <1>6

\* An XACK ends the entry's account; one that failed lets the entry go.
LEMMA AckExplained ==
    ASSUME GroupView, GroupView', PipeInv, UNCHANGED pipeVars, NEW t \in Tasks,
           Ack(t) \/ TerminalAck(t),
           NEW m \in Msgs \ Poison, DeliveriesExplained(m), MayFail(m)' <= MayFail(m)
    PROVE  DeliveriesExplained(m)'
<1> PICK e \in Msgs \cup {NoMsg} : e = cur[t]
  BY DEF GroupView
<1>1. /\ pc[t] \in {"ack", "terminal_ack"} /\ e \in Msgs
      /\ UNCHANGED <<deliveries, batch, more, crashes>>
      /\ pc' = [pc EXCEPT ![t] = "next"] /\ cur' = [cur EXCEPT ![t] = NoMsg]
      /\ \/ Xack(e) /\ NoFault
         \/ UNCHANGED owner /\ Fault
  BY DEF Ack, TerminalAck, Raise, TaskKnows, GroupView
<1>2. PICK c \in {0, 1} : FailureCost' = FailureCost + c /\ (NoFault \/ c = 1)
  BY <1>1, InfraCost
<1>3. deliveries'[m] = deliveries[m]
  BY <1>1
<1>4. /\ \A u \in Tasks \ {t} : pc'[u] = pc[u] /\ cur'[u] = cur[u]
      /\ pc'[t] \notin {"down", "recover", "claim"}
      /\ pc[t] \notin {"down", "recover", "claim"}
  BY <1>1 DEF PcOK, GroupView
<1>5. CASE owner'[m] = owner[m]
  <2>1. /\ MayReclaim(m)' + MayRecover(m)' <= MayReclaim(m) + MayRecover(m) + 1
        /\ cur[t] # m => MayReclaim(m)' <= MayReclaim(m) /\ MayRecover(m)' <= MayRecover(m)
    BY <1>1, <1>4, <1>5, LetGo
  <2>2. CASE e # m
    <3>1. MayReclaim(m)' + MayRecover(m)' + MayFail(m)'
          <= MayReclaim(m) + MayRecover(m) + MayFail(m) + c
      BY <2>1, <2>2, MayFacts
    <3>2. QED
      BY <1>2, <1>3, <1>5, <3>1, KeptCount
  <2>3. CASE e = m /\ NoFault /\ Xack(e)
    <3>1. owner'[m] = NoTask
      BY <2>3 DEF Xack, GroupView
    <3>2. QED
      BY <1>2, <1>3, <3>1, KeptCount
  <2>4. CASE Fault
    <3>1. c = 1
      BY <1>2, <2>4, GroupAssumption DEF Fault, NoFault, GroupView
    <3>2. MayReclaim(m)' + MayRecover(m)' + MayFail(m)'
          <= MayReclaim(m) + MayRecover(m) + MayFail(m) + c
      BY <2>1, <3>1, MayFacts
    <3>3. QED
      BY <1>2, <1>3, <1>5, <3>2, KeptCount
  <2>5. QED
    BY <1>1, <2>2, <2>3, <2>4
<1>6. CASE owner'[m] # owner[m]
  <2>1. owner'[m] = NoTask
    BY <1>1, <1>6 DEF Xack, GroupView
  <2>2. QED
    BY <1>2, <1>3, <2>1, KeptCount
<1>7. QED
  BY <1>5, <1>6

\* The first crash gives an entry back to the reclaimer or to the worker that
\* starts again; a later one to both.
LEMMA CrashExplained ==
    ASSUME GroupView, GroupView', PipeInv, UNCHANGED pipeVars, Crash,
           NEW m \in Msgs \ Poison, DeliveriesExplained(m), MayFail(m)' <= MayFail(m)
    PROVE  DeliveriesExplained(m)'
<1> USE GroupAssumption, MayFacts DEF GroupView, Tasks
<1>1. /\ UNCHANGED <<owner, deliveries, faults>> /\ crashes' = crashes + 1
      /\ \A t \in Tasks : pc'[t] = "down"
  BY DEF Crash, serverVars
<1>2. FailureCost' = FailureCost + (IF crashes = 0 THEN 1 ELSE 2)
  BY <1>1, CostFacts DEF pipeVars
<1>3. deliveries[m] \in Nat /\ deliveries'[m] = deliveries[m] /\ owner'[m] = owner[m]
  BY <1>1
<1>4. CASE crashes = 0
  <2>1. \A w \in Workers : Recovers(w, m)' => owner[m] \in Workers
    BY <1>1, <1>3 DEF Recovers, Listed
  <2>2. MayReclaim(m) = 0 => owner[m] \notin Workers
    BY <1>4 DEF MayReclaim, HandsInv, FirstLife
  <2>3. MayReclaim(m) = 0 => MayRecover(m)' = 0
    BY <2>1, <2>2 DEF MayRecover
  <2>4. MayReclaim(m)' + MayRecover(m)' + MayFail(m)' + 0
        <= MayReclaim(m) + MayRecover(m) + MayFail(m) + 1
    BY <2>3
  <2>5. FailureCost' = FailureCost + 1
    BY <1>2, <1>4
  <2>6. QED
    BY <1>3, <2>4, <2>5, KeptExplained
<1>5. CASE crashes # 0
  <2>1. MayReclaim(m)' + MayRecover(m)' + MayFail(m)' + 0
        <= MayReclaim(m) + MayRecover(m) + MayFail(m) + 2
    OBVIOUS
  <2>2. FailureCost' = FailureCost + 2
    BY <1>2, <1>5
  <2>3. QED
    BY <1>3, <2>1, <2>2, KeptExplained
<1>6. QED
  BY <1>4, <1>5

LEMMA InfraExplained ==
    ASSUME OneReclaimer, GroupView, GroupView', PipeInv, InfraNext, UNCHANGED pipeVars,
           NEW m \in Msgs \ Poison, DeliveriesExplained(m),
           m > lastDelivered => deliveries[m] = 0
    PROVE  DeliveriesExplained(m)'
<1>1. MayFail(m)' <= MayFail(m)
  BY InfraMayFail
<1>2. CASE Append \/ (\E k \in Msgs : BecomeIdle(k)) \/ Restart \/ (\E w \in Workers : ReadNothing(w))
  <2>1. /\ UNCHANGED <<owner, deliveries, batch, cur, more, faults, crashes>>
        /\ \/ pc' = pc
           \/ \A t \in Tasks : pc[t] = "down" /\ pc'[t] \in {"recover", "autoclaim"}
    BY <1>2 DEF Append, BecomeIdle, Restart, ReadNothing, groupVars, taskVars, serverVars,
                FirstStep
  <2>2. PICK c \in {0, 1} : FailureCost' = FailureCost + c
    BY <2>1, InfraCost DEF NoFault
  <2>3. \A r \in Reclaimers : InHand(r, m) => InHand(r, m)'
    BY <2>1 DEF InHand
  <2>4. \A w \in Workers : Recovers(w, m)' => Recovers(w, m)
    BY <2>1 DEF Recovers, Listed, InHand, Tasks
  <2>5. QED
    BY <1>1, <2>1, <2>2, <2>3, <2>4, KeptHold
<1>3. CASE \E w \in Workers : RecoverPending(w) \/ RecoverClaim(w) \/ Read(w)
  BY <1>1, <1>3, RecoverPendingExplained, RecoverClaimExplained, ReadExplained
<1>4. CASE \E r \in Reclaimers : AutoClaim(r)
  BY <1>1, <1>4, AutoClaimExplained
<1>5. CASE \E r \in Reclaimers : TerminalAck(r)
  BY <1>1, <1>5, AckExplained DEF Tasks
<1>6. CASE \E t \in Tasks : Ack(t)
  BY <1>1, <1>6, AckExplained
<1>7. CASE Crash
  BY <1>1, <1>7, CrashExplained
<1>8. CASE \/ \E r \in Reclaimers : CheckDeliveries(r) \/ EndOfTick(r) \/ TerminalDlq(r)
           \/ \E t \in Tasks : NextOfBatch(t) \/ EndOfBatch(t)
  BY <1>1, <1>8, QuietExplained DEF Tasks
<1>9. QED
  BY <1>2, <1>3, <1>4, <1>5, <1>6, <1>7, <1>8
     DEF InfraNext, WorkerStep, ReclaimerStep, BatchStep

\* An LLM failure lets the entry go and uses up the one that was possible; the
\* other ways out of the handler without an acknowledgement are failed calls.
LEMMA PipelineExplained ==
    ASSUME GroupView, GroupView', PipeInv, NEW t \in Tasks, PipelineStep(t),
           NEW m \in Msgs \ Poison, DeliveriesExplained(m)
    PROVE  DeliveriesExplained(m)'
<1> PICK e \in Msgs \cup {NoMsg} : e = cur[t]
  BY DEF GroupView
<1>1. /\ e \in Msgs /\ UNCHANGED <<owner, deliveries, batch, more, crashes>>
      /\ \A u \in Tasks \ {t} : pc'[u] = pc[u] /\ cur'[u] = cur[u]
      /\ pc[t] \notin {"down", "recover", "claim"} /\ pc'[t] \notin {"down", "recover", "claim"}
      /\ pc'[t] # "next" => cur'[t] = cur[t]
  BY OneHandlerMoves DEF PipeSteps, serverVars
<1>2. UNCHANGED expiries /\ (NoFault \/ Fault)
  BY DEF PipelineStep, Claim, Enrich, PublishEnriched, CacheEnriched, PublishDlq, NoFault
<1>3. PICK c \in {0, 1} : FailureCost' = FailureCost + c /\ (NoFault \/ c = 1)
  <2>1. CASE NoFault
    <3>1. FailureCost' = FailureCost + 0
      BY <1>1, <1>2, <2>1, CostFacts DEF FailureCost, NoFault
    <3>2. QED
      BY <2>1, <3>1
  <2>2. CASE Fault
    <3>1. faults \in Nat /\ crashes \in Nat /\ expiries \in Nat
      BY GroupAssumption, EnricherAssumption DEF GroupView, PipeInv, PipeTypes
    <3>2. FailureCost' = FailureCost + 1
      BY <1>1, <1>2, <2>2, <3>1 DEF FailureCost, Fault
    <3>3. QED
      BY <3>2
  <2>3. QED
    BY <1>2, <2>1, <2>2
<1>4. MayFail(m)' <= MayFail(m)
  <2>1. (m \in claimed => m \in claimed') /\ (m \in claimed' => m \in claimed \/ m = e)
    BY DEF PipelineStep, Claim, SetNx, Enrich, PublishEnriched, CacheEnriched, PublishDlq
  <2>2. pc'[t] = "llm" => pc[t] = "handle" /\ e \notin claimed
    BY DEF PipelineStep, Claim, ClaimedFirst, Enrich, PublishEnriched, CacheEnriched,
           PublishDlq, SetStep, Return, Raise, GroupView, PcOK
  <2>3. \A u \in Tasks : pc'[u] = "llm" /\ cur'[u] = m
                         => (pc[u] = "llm" /\ cur[u] = m) \/ m \notin claimed
    BY <1>1, <2>2
  <2>4. QED
    BY <2>1, <2>3 DEF MayFail
<1>5. \/ cur[t] # m \/ cur'[t] = cur[t]
      \/ c = 1
      \/ MayFail(m) = 1 /\ MayFail(m)' = 0
  <2>1. CASE Enrich(t)
    <3>1. CASE pc'[t] = "next" /\ e = m
      <4>1. pc[t] = "llm" /\ claimed' = claimed
        BY <2>1 DEF Enrich
      <4>2. MayFail(m) = 1
        BY <3>1, <4>1 DEF MayFail
      <4>3. m \in claimed' /\ t \in InFlight(m)
        BY <3>1, <4>1 DEF PipeInv, PipeShape, InFlight
      <4>4. \A u \in Tasks : ~(pc'[u] = "llm" /\ cur'[u] = m)
        <5>1. ASSUME NEW u \in Tasks, pc'[u] = "llm", cur'[u] = m PROVE FALSE
          <6>1. u # t /\ u \in InFlight(m)
            BY <1>1, <3>1, <5>1 DEF InFlight
          <6>2. QED
            BY <4>3, <6>1 DEF PipeInv, PipeShape
        <5>2. QED
          BY <5>1
      <4>5. QED
        BY <4>2, <4>3, <4>4 DEF MayFail
    <3>2. QED
      BY <1>1, <3>1
  <2>2. CASE pc'[t] # "next"
    BY <1>1, <2>2
  <2>3. CASE pc'[t] = "next" /\ ~Enrich(t)
    <3>1. Fault
      BY <2>3 DEF PipelineStep, Claim, PublishEnriched, CacheEnriched, PublishDlq,
                  SetStep, Return, GroupView, PcOK
    <3>2. QED
      BY <1>3, <3>1, GroupAssumption DEF Fault, NoFault, GroupView
  <2>4. QED
    BY <2>1, <2>2, <2>3
<1>6. /\ MayReclaim(m)' + MayRecover(m)' <= MayReclaim(m) + MayRecover(m) + 1
      /\ cur[t] # m \/ cur'[t] = cur[t]
         => MayReclaim(m)' <= MayReclaim(m) /\ MayRecover(m)' <= MayRecover(m)
  BY <1>1, LetGo
<1>7. MayReclaim(m)' + MayRecover(m)' + MayFail(m)'
      <= MayReclaim(m) + MayRecover(m) + MayFail(m) + c
  BY <1>4, <1>5, <1>6, MayFacts
<1>8. QED
  BY <1>1, <1>3, <1>7, KeptCount

\* A key that expires makes another LLM failure possible.
LEMMA ExpiryExplained ==
    ASSUME GroupView, GroupView', PipeInv, NEW k \in Msgs, ClaimExpires(k),
           NEW m \in Msgs \ Poison, DeliveriesExplained(m)
    PROVE  DeliveriesExplained(m)'
<1>1. /\ UNCHANGED <<pc, batch, cur, more, owner, deliveries, faults, crashes>>
      /\ expiries' = expiries + 1
  BY DEF ClaimExpires, groupVars, taskVars, serverVars
<1>2. FailureCost' = FailureCost + 1
  <2>1. faults \in Nat /\ crashes \in Nat /\ expiries \in Nat
    BY GroupAssumption, EnricherAssumption DEF GroupView, PipeInv, PipeTypes
  <2>2. QED
    BY <1>1, <2>1 DEF FailureCost
<1>3. MayReclaim(m)' = MayReclaim(m) /\ MayRecover(m)' = MayRecover(m)
  BY <1>1 DEF MayReclaim, MayRecover, Recovers, Listed, InHand
<1>4. MayReclaim(m)' + MayRecover(m)' + MayFail(m)'
      <= MayReclaim(m) + MayRecover(m) + MayFail(m) + 1
  BY <1>3, MayFacts
<1>5. QED
  BY <1>1, <1>2, <1>4, KeptCount

\* Only what was handed out is delivered.
LEMMA UnreadStays ==
    ASSUME GroupView, GroupView', [Next]_vars, NEW m \in Msgs,
           m > lastDelivered => deliveries[m] = 0, m > lastDelivered'
    PROVE  deliveries'[m] = 0
<1> USE GroupAssumption DEF GroupView
<1>1. ASSUME NEW w \in Workers, RecoverClaim(w) PROVE deliveries'[m] = 0
  <2>1. /\ lastDelivered' = lastDelivered
        /\ deliveries' = deliveries \/ Deliver(Claimable(w), w)
    BY <1>1 DEF RecoverClaim
  <2>2. m \notin Claimable(w)
    BY <2>1 DEF Claimable, PelShape, Msgs
  <2>3. QED
    BY <2>1, <2>2 DEF Deliver
<1>2. ASSUME NEW w \in Workers, Read(w) PROVE deliveries'[m] = 0
  <2>1. /\ lastDelivered' = LastRead /\ Deliver((lastDelivered + 1) .. LastRead, w)
        /\ lastDelivered < added
    BY <1>2 DEF Read
  <2>2. m \notin (lastDelivered + 1) .. LastRead /\ m > lastDelivered
    BY <2>1 DEF Msgs, LastRead
  <2>3. QED
    BY <2>1, <2>2 DEF Deliver
<1>3. ASSUME NEW r \in Reclaimers, AutoClaim(r) PROVE deliveries'[m] = 0
  <2> DEFINE due == FirstOf({k \in idle : k >= cursor[r]}, ReclaimCount)
  <2>1. lastDelivered' = lastDelivered /\ Deliver(due, r)
    BY <1>3 DEF AutoClaim
  <2>2. m \notin due
    BY <2>1 DEF FirstOf, PelShape, Msgs
  <2>3. QED
    BY <2>1, <2>2 DEF Deliver
<1>4. CASE UNCHANGED <<deliveries, lastDelivered>>
  BY <1>4
<1>5. \/ UNCHANGED <<deliveries, lastDelivered>>
      \/ \E w \in Workers : RecoverClaim(w) \/ Read(w)
      \/ \E r \in Reclaimers : AutoClaim(r)
  <2>1. ASSUME NEW t \in Tasks, PipelineStep(t) PROVE UNCHANGED <<deliveries, lastDelivered>>
    BY <2>1 DEF PipelineStep, Claim, Enrich, PublishEnriched, CacheEnriched, PublishDlq,
                GroupRest, serverVars
  <2>2. CASE (\E k \in Msgs : ClaimExpires(k)) \/ UNCHANGED vars
    BY <2>2 DEF ClaimExpires, vars, groupVars, serverVars
  <2>3. CASE InfraNext
    BY <2>3 DEF InfraNext, WorkerStep, ReclaimerStep, BatchStep, groupVars, serverVars,
                RecoverPending, ReadNothing, EndOfTick, CheckDeliveries, TerminalDlq,
                TerminalAck, NextOfBatch, EndOfBatch, Ack, Append, BecomeIdle, Crash, Restart
  <2>4. QED
    BY <2>1, <2>2, <2>3 DEF Next
<1>6. QED
  BY <1>1, <1>2, <1>3, <1>4, <1>5

\* The cost of the failures so far never goes down.
LEMMA CostGrows ==
    ASSUME GroupView, PipeInv, [Next]_vars
    PROVE  FailureCost \in Nat /\ FailureCost' \in Nat /\ FailureCost <= FailureCost'
<1>1. faults \in Nat /\ crashes \in Nat /\ expiries \in Nat
  BY GroupAssumption, EnricherAssumption DEF GroupView, PipeInv, PipeTypes
<1>2. faults' \in {faults, faults + 1} /\ crashes' \in {crashes, crashes + 1}
  BY FailuresGrow
<1>3. expiries' \in {expiries, expiries + 1}
  BY DEF Next, PipelineStep, Claim, Enrich, PublishEnriched, CacheEnriched, PublishDlq,
         ClaimExpires, vars, pipeVars
<1> DEFINE Again(n) == IF n > 1 THEN n - 1 ELSE 0
<1>4. \A n \in Nat : /\ Again(n) \in Nat /\ Again(n + 1) \in Nat
                     /\ Again(n) <= Again(n + 1) /\ Again(n) <= Again(n)
  OBVIOUS
<1>5. /\ FailureCost = faults + expiries + crashes + Again(crashes)
      /\ FailureCost' = faults' + expiries' + crashes' + Again(crashes')
  BY DEF FailureCost
<1> HIDE DEF Again
<1>6. \A a, b, c, d, e, f, g, h \in Nat :
         a <= b /\ c <= d /\ e <= f /\ g <= h
         => a + c + e + g \in Nat /\ b + d + f + h \in Nat
            /\ a + c + e + g <= b + d + f + h
  OBVIOUS
<1>7. /\ faults' \in Nat /\ faults <= faults'
      /\ crashes' \in Nat /\ crashes <= crashes'
      /\ expiries' \in Nat /\ expiries <= expiries'
  BY <1>1, <1>2, <1>3
<1>8. Again(crashes) \in Nat /\ Again(crashes') \in Nat /\ Again(crashes) <= Again(crashes')
  BY <1>1, <1>2, <1>4
<1>9. QED
  BY <1>1, <1>5, <1>6, <1>7, <1>8

\* The reclaimer gives up on an entry whose deliveries the failures explain.
LEMMA GiveUpExplained ==
    ASSUME GroupView, PipeInv, DeliveryInv, [Next]_vars
    PROVE  GiveUpNeedsFailures'
<1> SUFFICES ASSUME NEW m \in terminal' \ Poison
             PROVE  FailureCost' + 2 >= MaxDeliveries
  BY DEF GiveUpNeedsFailures
<1> MaxDeliveries \in Nat
  BY GroupAssumption
<1>1. FailureCost \in Nat /\ FailureCost' \in Nat /\ FailureCost <= FailureCost'
  BY CostGrows
<1>2. CASE m \in terminal
  <2>1. FailureCost + 2 >= MaxDeliveries
    BY <1>2 DEF DeliveryInv, GiveUpNeedsFailures
  <2>2. \A a, b, n \in Nat : a <= b /\ a + 2 >= n => b + 2 >= n
    OBVIOUS
  <2>3. QED
    BY <1>1, <2>1, <2>2
<1>3. CASE m \notin terminal
  <2>1. PICK r \in Reclaimers : TerminalDlq(r) /\ cur[r] = m
    <3>1. ~(terminal' = terminal)
      BY <1>3
    <3>2. PICK r \in Reclaimers : TerminalDlq(r)
      BY <3>1 DEF Next, InfraNext, WorkerStep, ReclaimerStep, BatchStep, PipelineStep,
                  Claim, Enrich, PublishEnriched, CacheEnriched, PublishDlq, GroupRest,
                  ClaimExpires, vars, groupVars, RecoverPending, RecoverClaim, Read,
                  ReadNothing, AutoClaim, EndOfTick, CheckDeliveries, TerminalAck,
                  NextOfBatch, EndOfBatch, Ack, Append, BecomeIdle, Crash, Restart
    <3>3. QED
      BY <1>3, <3>2 DEF TerminalDlq
  <2>2. m \in Msgs /\ deliveries[m] > MaxDeliveries
    BY <2>1 DEF TerminalDlq, GroupView, TaskKnows, Tasks
  <2>3. deliveries[m] <= FailureCost + 3
    BY <2>2 DEF DeliveryInv, DeliveriesExplained
  <2>4. deliveries[m] \in Nat
    BY <2>2, GroupAssumption DEF GroupView
  <2>5. \A a, b, d, n \in Nat : a <= b /\ d > n /\ d <= a + 3 => b + 2 >= n
    OBVIOUS
  <2>6. QED
    BY <1>1, <2>2, <2>3, <2>4, <2>5
<1>4. QED
  BY <1>2, <1>3

LEMMA DeliveryStep ==
    ASSUME OneReclaimer, GroupView, GroupView', PipeInv, DeliveryInv, [Next]_vars
    PROVE  DeliveryInv'
<1>1. ASSUME NEW m \in Msgs, m > lastDelivered' PROVE deliveries'[m] = 0
  BY <1>1, UnreadStays DEF DeliveryInv
<1>2. ASSUME NEW m \in Msgs \ Poison PROVE DeliveriesExplained(m)'
  <2>1. DeliveriesExplained(m) /\ (m > lastDelivered => deliveries[m] = 0)
    BY DEF DeliveryInv
  <2>2. CASE UNCHANGED vars
    BY <2>1, <2>2 DEF vars, groupVars, serverVars, taskVars, pipeVars, DeliveriesExplained,
                      FailureCost, MayReclaim, MayRecover, MayFail, Recovers, Listed, InHand
  <2>3. QED
    BY <2>1, <2>2, InfraExplained, PipelineExplained, ExpiryExplained DEF Next
<1>3. GiveUpNeedsFailures'
  BY GiveUpExplained
<1>4. QED
  BY <1>1, <1>2, <1>3 DEF DeliveryInv

\* The deliveries of an entry that decodes are explained by the failures so far:
\* at most three without any, one more for each failed call, expired key and
\* first crash, two for each later crash.
THEOREM DeliveriesExplainedHolds ==
    ASSUME OneReclaimer
    PROVE  Spec => [](\A m \in Msgs \ Poison : DeliveriesExplained(m))
<1>1. Init => DeliveryInv
  BY GroupAssumption
     DEF Init, GroupInit, DeliveryInv, DeliveriesExplained, FailureCost, GiveUpNeedsFailures, Msgs
<1>2. GroupView /\ GroupView' /\ PipeInv /\ DeliveryInv /\ [Next]_vars => DeliveryInv'
  BY DeliveryStep
<1>3. DeliveryInv => \A m \in Msgs \ Poison : DeliveriesExplained(m)
  BY DEF DeliveryInv
<1>4. QED
  BY <1>1, <1>2, <1>3, GroupViewHolds, PipeInvariant, PTL DEF Spec

\* The reclaimer gives up on a readable entry only after failures of the
\* infrastructure worth MaxDeliveries - 2 deliveries.
THEOREM GiveUpNeedsFailuresHolds ==
    ASSUME OneReclaimer
    PROVE  Spec => []GiveUpNeedsFailures
<1>1. Init => DeliveryInv
  BY GroupAssumption
     DEF Init, GroupInit, DeliveryInv, DeliveriesExplained, FailureCost, GiveUpNeedsFailures, Msgs
<1>2. GroupView /\ GroupView' /\ PipeInv /\ DeliveryInv /\ [Next]_vars => DeliveryInv'
  BY DeliveryStep
<1>3. DeliveryInv => GiveUpNeedsFailures
  BY DEF DeliveryInv
<1>4. QED
  BY <1>1, <1>2, <1>3, GroupViewHolds, PipeInvariant, PTL DEF Spec

\* With the code's one reclaimer and a limit of two deliveries or more, an event
\* is lost and an entry given up only for the failures that explain it.
THEOREM LossIsExplainedHolds ==
    ASSUME OneReclaimer, MaxDeliveries >= 2
    PROVE  Spec => []LossIsExplained
BY LossNeedsFailureHolds, GiveUpNeedsFailuresHolds, PTL DEF LossIsExplained
===============================================================================
