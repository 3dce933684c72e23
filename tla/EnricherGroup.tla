----------------------------- MODULE EnricherGroup -----------------------------
(***************************************************************************)
(* The enricher process: the consumer group "enricher" on news:raw, its    *)
(* workers and its reclaimer, with EnrichmentPipeline.process              *)
(* (src/services/enricher/pipeline.py) as the handler and                  *)
(* IdempotencyGuard.claim (src/infra/idempotency.py) as its first step.    *)
(*                                                                         *)
(* Between two awaits a task runs alone; each action below is the code     *)
(* from one await to the next.  What the LLM answers is a nondeterministic *)
(* choice between the three outcomes process() tells apart.                *)
(***************************************************************************)
EXTENDS ConsumerGroup

CONSTANT MaxExpiries    \* bound: idempotency keys that live out their TTL

ASSUME EnricherAssumption == MaxExpiries \in Nat

VARIABLES
    claimed,    \* events whose key idem:<scope>:<event_id> exists
    claims,     \* history: how often SET NX succeeded for an event
    enriched,   \* copies of the event in news:enriched
    rejected,   \* records of the event in the DLQ, written by the pipeline
    cached,     \* events whose enriched:<event_id> key was written
    raised,     \* history: events given up on a retryable LLM failure
    expiries    \* idempotency keys expired so far

pipeVars == <<claimed, claims, enriched, rejected, cached, raised, expiries>>
vars == <<groupVars, pipeVars>>

PipeSteps == {"llm", "publish", "cache", "dlq"}

TypeOK ==
    /\ added \in 0 .. MaxMsgs
    /\ lastDelivered \in 0 .. MaxMsgs
    /\ owner \in [Msgs -> Tasks \cup {NoTask}]
    /\ deliveries \in [Msgs -> 0 .. MaxDeliveries + 1]
    /\ idle \subseteq Msgs
    /\ pc \in [Tasks -> GroupSteps \cup PipeSteps]
    /\ batch \in [Tasks -> SUBSET Msgs]
    /\ cur \in [Tasks -> Msgs \cup {NoMsg}]
    /\ more \in [Tasks -> BOOLEAN]
    /\ cursor \in [Tasks -> 0 .. MaxMsgs]
    /\ done \subseteq Msgs
    /\ terminal \subseteq Msgs
    /\ faults \in 0 .. MaxFaults
    /\ crashes \in 0 .. MaxCrashes
    /\ claimed \subseteq Msgs
    /\ claims \in [Msgs -> Nat]
    /\ enriched \in [Msgs -> Nat]
    /\ rejected \in [Msgs -> Nat]
    /\ cached \subseteq Msgs
    /\ raised \subseteq Msgs
    /\ expiries \in 0 .. MaxExpiries

\* The handler steps leave the rest of the group's state alone.
GroupRest == <<serverVars, batch, more, cursor, terminal, crashes>>

SetStep(t, step) == pc' = [pc EXCEPT ![t] = step] /\ UNCHANGED <<cur, done>>

-------------------------------------------------------------------------------
(* EnrichmentPipeline.process, step by step. *)

\* SET idem:<scope>:<event_id> NX EX.  A key that exists means "already
\* handled": the handler returns and the entry is acknowledged.
SetNx(m) ==
    /\ claimed' = claimed \cup {m}
    /\ claims' = IF m \in claimed THEN claims
                 ELSE [claims EXCEPT ![m] = @ + 1]

\* Mutant: SET without NX always succeeds.
ClaimedAlways(m) == TRUE

\* claim() is True.
ClaimedFirst(m) == m \notin claimed

Claim(t) ==
    /\ pc[t] = "handle"
    /\ \/ /\ SetNx(cur[t])
          /\ IF ClaimedFirst(cur[t]) THEN SetStep(t, "llm")
                                     ELSE Return(t) /\ UNCHANGED cur
          /\ NoFault
       \/ /\ Fault
          /\ Raise(t) /\ UNCHANGED done
          /\ SetNx(cur[t]) \/ UNCHANGED <<claimed, claims>>
    /\ UNCHANGED <<GroupRest, enriched, rejected, cached, raised, expiries>>

\* llm.enrich and the three ways its result is dealt with.
Enrich(t) ==
    /\ pc[t] = "llm"
    /\ \/ SetStep(t, "publish") /\ UNCHANGED raised     \* result.ok
       \/ SetStep(t, "dlq") /\ UNCHANGED raised         \* not retryable
       \/ /\ Raise(t) /\ UNCHANGED done                 \* EnrichmentRetryable
          /\ raised' = raised \cup {cur[t]}
    /\ UNCHANGED <<GroupRest, faults, claimed, claims, enriched, rejected,
                   cached, expiries>>

\* Mutant: the handler acknowledges the entry itself, before the cache is set.
PublishEnrichedAcks(t) ==
    /\ pc[t] = "publish"
    /\ enriched' = [enriched EXCEPT ![cur[t]] = @ + 1]
    /\ SetStep(t, "cache")
    /\ Xack(cur[t])
    /\ UNCHANGED <<added, lastDelivered, deliveries, batch, more, cursor, terminal,
                   crashes, faults, claimed, claims, rejected, cached, raised,
                   expiries>>

\* _publish_enriched, first part: XADD to news:enriched.
PublishEnriched(t) ==
    /\ pc[t] = "publish"
    /\ \/ /\ enriched' = [enriched EXCEPT ![cur[t]] = @ + 1]
          /\ SetStep(t, "cache")
          /\ NoFault
       \/ /\ Fault
          /\ Raise(t) /\ UNCHANGED done
          /\ \/ enriched' = [enriched EXCEPT ![cur[t]] = @ + 1]
             \/ UNCHANGED enriched
    /\ UNCHANGED <<GroupRest, claimed, claims, rejected, cached, raised, expiries>>

\* _publish_enriched, second part: SET enriched:<event_id> EX; a failure is
\* logged and the handler goes on.
CacheEnriched(t) ==
    /\ pc[t] = "cache"
    /\ Return(t) /\ UNCHANGED cur
    /\ \/ cached' = cached \cup {cur[t]} /\ NoFault
       \/ Fault /\ UNCHANGED cached
    /\ UNCHANGED <<GroupRest, claimed, claims, enriched, rejected, raised, expiries>>

\* Mutant: a non-retryable failure is logged only.
PublishDlqSkipped(t) ==
    /\ pc[t] = "dlq"
    /\ Return(t)
    /\ UNCHANGED <<GroupRest, cur, faults, claimed, claims, enriched, rejected,
                   cached, raised, expiries>>

\* _publish_dlq: XADD of the failure record.
PublishDlq(t) ==
    /\ pc[t] = "dlq"
    /\ \/ /\ rejected' = [rejected EXCEPT ![cur[t]] = @ + 1]
          /\ Return(t) /\ UNCHANGED cur
          /\ NoFault
       \/ /\ Fault
          /\ Raise(t) /\ UNCHANGED done
          /\ \/ rejected' = [rejected EXCEPT ![cur[t]] = @ + 1]
             \/ UNCHANGED rejected
    /\ UNCHANGED <<GroupRest, claimed, claims, enriched, cached, raised, expiries>>

PipelineStep(t) ==
    \/ Claim(t) \/ Enrich(t) \/ PublishEnriched(t)
    \/ CacheEnriched(t) \/ PublishDlq(t)

-------------------------------------------------------------------------------
(* Redis expires idempotency keys. *)

\* Tasks between their SET NX and the end of the event's publication.
InFlight(m) == {t \in Tasks : pc[t] \in {"llm", "publish", "dlq"} /\ cur[t] = m}

\* idempotency_ttl (24 h) is far longer than any handler call.
ClaimExpires(m) ==
    /\ m \in claimed /\ InFlight(m) = {}
    /\ expiries < MaxExpiries
    /\ claimed' = claimed \ {m}
    /\ expiries' = expiries + 1
    /\ UNCHANGED <<groupVars, claims, enriched, rejected, cached, raised>>

-------------------------------------------------------------------------------

Init ==
    /\ GroupInit
    /\ claimed = {}
    /\ claims = [m \in Msgs |-> 0]
    /\ enriched = [m \in Msgs |-> 0]
    /\ rejected = [m \in Msgs |-> 0]
    /\ cached = {}
    /\ raised = {}
    /\ expiries = 0

Next ==
    \/ InfraNext /\ UNCHANGED pipeVars
    \/ \E t \in Tasks : PipelineStep(t)
    \/ \E m \in Msgs : ClaimExpires(m)

Spec == Init /\ [][Next]_vars

(* As for the group; an LLM call ends, by an answer or by its timeout. *)
Fairness ==
    /\ \A w \in Workers : WF_vars(WorkerStep(w) /\ UNCHANGED pipeVars)
    /\ \A r \in Reclaimers : WF_vars(ReclaimerStep(r) /\ UNCHANGED pipeVars)
    /\ \A t \in Tasks : /\ WF_vars(BatchStep(t) /\ UNCHANGED pipeVars)
                        /\ WF_vars(PipelineStep(t))
    /\ \A m \in Msgs : WF_vars(BecomeIdle(m) /\ UNCHANGED pipeVars)
    /\ WF_vars(Restart /\ UNCHANGED pipeVars)

FairSpec == Spec /\ Fairness

-------------------------------------------------------------------------------
(* Refinement: seen from the group, the pipeline is one handler call. *)

GroupPc == [t \in Tasks |-> IF pc[t] \in PipeSteps THEN "handle" ELSE pc[t]]

Group == INSTANCE ConsumerGroup WITH pc <- GroupPc

\* The pipeline keeps the contract of a stream handler: with its steps hidden,
\* the enricher is a consumer group whose handler returns or raises.
ImplementsGroup == Group!GroupSpec

-------------------------------------------------------------------------------
(* Properties. *)

Outputs(m) == enriched[m] + rejected[m]

\* One successful SET NX buys at most one output: however often an entry is
\* redelivered, stolen by the reclaimer or replayed after a crash, the event is
\* published or rejected at most once per lifetime of its idempotency key.
AtMostOncePerClaim == \A m \in Msgs : Outputs(m) <= claims[m]

\* An event is dropped (acknowledged with nothing published, nobody working on
\* it) only if its LLM call failed, a call to Redis failed, or the process
\* crashed: thefts of waiting entries alone lose nothing.
LossNeedsFailure ==
    \A m \in Msgs \ Poison :
        Settled(m) /\ InFlight(m) = {} /\ Outputs(m) = 0
        => m \in raised \/ faults > 0 \/ crashes > 0

\* What failures explain of an entry's deliveries: one each for a failed call, an
\* expired key and the first crash, two for every later crash (the reclaimer
\* and the recovering worker then both lose their hold of the entry).
FailureCost ==
    faults + expiries + crashes + (IF crashes > 1 THEN crashes - 1 ELSE 0)

\* The reclaimer gives up on an entry that decodes only when failures of the
\* infrastructure account for MaxDeliveries - 2 deliveries: an entry waiting in a
\* batch may be stolen once, its LLM call may fail once, and the delivery after
\* that finds the key claimed and acknowledges, so LLM failures never add up to
\* max_deliveries.
GiveUpNeedsFailures ==
    \A m \in terminal \ Poison : FailureCost + 2 >= MaxDeliveries

\* What an event may be lost for, and what the reclaimer may give up for.
LossIsExplained == LossNeedsFailure /\ GiveUpNeedsFailures

\* What holds together behind them.  An event in flight has its key, no second
\* task handles it, and the claim that started it is not spent yet.
PipeShape ==
    /\ \A m \in Msgs : m \in claimed => claims[m] > 0
    /\ \A t \in Tasks : pc[t] \in PipeSteps => cur[t] \in Msgs \ Poison
    /\ \A t \in Tasks : pc[t] \in {"llm", "publish", "dlq"} => cur[t] \in claimed
    /\ \A t \in Tasks : pc[t] = "cache" => Outputs(cur[t]) > 0
    /\ \A m \in Msgs : InFlight(m) # {} => Outputs(m) < claims[m]
    /\ \A m \in Msgs, t, u \in Tasks :
          t \in InFlight(m) /\ u \in InFlight(m) => t = u

\* While nothing failed for an event, a claim led to an output or is on its way,
\* and the entry was handed out twice at most: read by a worker, and stolen once
\* by the reclaimer, which still has it.
Unfailed(m) == m \notin raised /\ faults = 0 /\ crashes = 0

CleanSoFar(m) ==
    /\ claims[m] > 0 \/ m \in done => Outputs(m) > 0 \/ InFlight(m) # {}
    /\ deliveries[m] <= 2
    /\ owner[m] \in Workers => deliveries[m] <= 1
    /\ owner[m] \in Reclaimers => InHand(owner[m], m)
    /\ m > lastDelivered => deliveries[m] = 0

\* The deliveries a pending entry may still see when nothing fails any more: one
\* to the reclaimer unless it holds the entry, one to the worker that recovers
\* it, and one more after an LLM failure.
MayReclaim(m) == IF \E r \in Reclaimers : InHand(r, m) THEN 0 ELSE 1

Recovers(w, m) ==
    \/ Listed(w, m)
    \/ /\ owner[m] = w
       /\ pc[w] \in {"down", "recover", "claim"} \/ (more[w] /\ ~InHand(w, m))

MayRecover(m) == IF \E w \in Workers : Recovers(w, m) THEN 1 ELSE 0

MayFail(m) ==
    IF m \notin claimed \/ \E t \in Tasks : pc[t] = "llm" /\ cur[t] = m
    THEN 1 ELSE 0

\* Deliveries past and possible stay within what the failures so far explain.
DeliveriesExplained(m) ==
    /\ deliveries[m] <= FailureCost + 3
    /\ owner[m] # NoTask
       => deliveries[m] + MayReclaim(m) + MayRecover(m) + MayFail(m)
          <= FailureCost + 3

EnricherInv ==
    /\ TypeOK
    /\ PipeShape
    /\ AtMostOncePerClaim
    /\ \A m \in Msgs \ Poison : /\ Unfailed(m) => CleanSoFar(m)
                                /\ DeliveriesExplained(m)
    /\ GiveUpNeedsFailures

\* No retryable failure is lost (README: an exception in the handler means no
\* ACK, the message stays in the PEL and is delivered again).
NoSilentLoss ==
    \A m \in Msgs :
        Settled(m) /\ InFlight(m) = {} => Outputs(m) > 0 \/ m \in terminal

\* Every news item in the stream is settled in the end.
EveryEntrySettles == \A m \in Msgs : added >= m ~> Settled(m)
===============================================================================
