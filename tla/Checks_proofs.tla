----------------------------- MODULE Checks_proofs -----------------------------
(***************************************************************************)
(* Theorems about parts of the system that share no state: the script that *)
(* cleans Redis (CleanRestart), the calls of a language model (LlmClients),*)
(* the monitor with what it watches (Monitoring), the checkpoint of the    *)
(* archive's re-enrichment (BatchEnrichment), the candle feed (QuikFeed),  *)
(* the walk-forward harnesses (WalkForward) and the replay of a window     *)
(* (WindowReplay).                                                         *)
(***************************************************************************)
EXTENDS CleanRestart, LlmClients, Monitoring, BatchEnrichment, QuikFeed, WalkForward, WindowReplay,
        Numbers_proofs, FiniteSetTheorems, SequenceTheorems, TLAPS

-------------------------------------------------------------------------------
(* CleanRestart.  A step changes one stream at most, so that the invariant  *)
(* is taken apart into what it says of one stream and of the script.       *)

StreamOK(s) ==
    LET r == redis[s] IN
    /\ r \in [added: Nat, entries: SUBSET Nat, group: BOOLEAN, last: Nat, pel: SUBSET Nat]
    /\ handled[s] \in SUBSET Nat /\ before[s] \in [pel: SUBSET Nat, unread: SUBSET Nat]
    /\ r.added \in 0 .. MaxEntries /\ r.entries \subseteq 1 .. r.added /\ r.last \in 0 .. r.added
    /\ r.pel \subseteq 1 .. r.last /\ r.pel \cap handled[s] = {}
    /\ ToCome(s) \cap (handled[s] \cup r.pel \cup before[s].unread) = {}
    /\ handled[s] \cup before[s].pel \cup before[s].unread \subseteq 1 .. r.added
    /\ ~r.group => r.pel = {}
    /\ before[s].unread \cap (handled[s] \cup r.pel) = {}
    /\ ~Deleted(s) => before[s].pel \subseteq r.pel \cup handled[s]
    /\ Deleted(s) /\ r.group => {m \in r.entries : m <= r.last} \subseteq r.pel \cup handled[s]

ScriptOK ==
    /\ running \subseteq Streams /\ cleaner \in {"off", "soft", "wipe", "over"}
    /\ commands \subseteq {"group", "stream"} \X Streams
    /\ (commands # {}) = (cleaner \in {"soft", "wipe"})

DeletedLate(s) == Deleted(s) => cleaner # "off" /\ ({"group"} \X Streams) \cap commands = {}

WholeFunctions ==
    /\ redis = [s \in Streams |-> redis[s]]
    /\ handled = [s \in Streams |-> handled[s]] /\ before = [s \in Streams |-> before[s]]

\* The invariant, stream by stream.
LEMMA CleanByStream ==
    CleanInv <=> /\ WholeFunctions /\ ScriptOK
                 /\ \A s \in Streams : StreamOK(s) /\ DeletedLate(s)
  <1>1. ASSUME CleanInv PROVE WholeFunctions /\ ScriptOK
    BY <1>1, SMT DEF CleanInv, CleanShape, CleanTypeOK, WholeFunctions, ScriptOK
  <1>2. ASSUME CleanInv, NEW s \in Streams PROVE StreamOK(s) /\ DeletedLate(s)
    <2>1. redis[s] \in [added: Nat, entries: SUBSET Nat, group: BOOLEAN, last: Nat, pel: SUBSET Nat]
          /\ handled[s] \in SUBSET Nat /\ before[s] \in [pel: SUBSET Nat, unread: SUBSET Nat]
      BY <1>2 DEF CleanInv, CleanShape
    <2>2. QED
      BY <1>2, <2>1 DEF CleanInv, CleanTypeOK, CleanOrder, OnlyUnreadIsLost, SoftKeepsPending,
                        WipeLosesNothingNew, StreamOK, DeletedLate
  <1>3. ASSUME WholeFunctions, ScriptOK, \A s \in Streams : StreamOK(s) /\ DeletedLate(s) PROVE CleanInv
    <2>1. CleanShape
      BY <1>3 DEF CleanShape, WholeFunctions, StreamOK
    <2>2. CleanTypeOK
      BY <1>3 DEF CleanTypeOK, ScriptOK, StreamOK
    <2>3. CleanOrder /\ OnlyUnreadIsLost
      BY <1>3 DEF CleanOrder, OnlyUnreadIsLost, SoftKeepsPending, WipeLosesNothingNew, StreamOK, DeletedLate
    <2>4. QED
      BY <2>1, <2>2, <2>3 DEF CleanInv
  <1>4. QED
    BY <1>1, <1>2, <1>3

LEMMA CleanByStreamNext ==
    ASSUME WholeFunctions', ScriptOK', \A s \in Streams : StreamOK(s)' /\ DeletedLate(s)' PROVE CleanInv'
  <1>1. (WholeFunctions /\ ScriptOK /\ \A s \in Streams : StreamOK(s) /\ DeletedLate(s))' => CleanInv'
    BY CleanByStream, PTL
  <1>2. QED
    BY <1>1

\* What is known of a stream stays known while nothing of it changes.
LEMMA StreamUntouched ==
    ASSUME NEW s, StreamOK(s), redis'[s] = redis[s], handled'[s] = handled[s], before'[s] = before[s]
    PROVE  StreamOK(s)'
  BY DEF StreamOK, ToCome, Unread, Deleted

LEMMA CleanInitially == ASSUME CleanInit PROVE CleanInv
  <1> USE CleanAssumption
  <1>1. WholeFunctions /\ ScriptOK
    BY DEF CleanInit, WholeFunctions, ScriptOK
  <1>2. ASSUME NEW s \in Streams PROVE StreamOK(s) /\ DeletedLate(s)
    <2>1. /\ redis[s] = [added |-> 0, entries |-> {}, group |-> TRUE, last |-> 0, pel |-> {}]
          /\ handled[s] = {} /\ before[s] = [pel |-> {}, unread |-> {}]
      BY DEF CleanInit
    <2>2. /\ redis[s] \in [added: Nat, entries: SUBSET Nat, group: BOOLEAN, last: Nat, pel: SUBSET Nat]
          /\ before[s] \in [pel: SUBSET Nat, unread: SUBSET Nat]
      BY <2>1
    <2>3. redis[s].entries = 1 .. redis[s].added
      BY <2>1
    <2>4. QED
      BY <2>1, <2>2, <2>3 DEF StreamOK, DeletedLate, ToCome, Unread, Deleted
  <1>3. QED
    BY <1>1, <1>2, CleanByStream

\* Steps of producers and services.
LEMMA ProduceKeeps ==
    ASSUME CleanInv, NEW s \in Streams, Produce(s) PROVE CleanInv'
  <1> USE CleanAssumption
  <1>1. WholeFunctions /\ ScriptOK /\ \A t \in Streams : StreamOK(t) /\ DeletedLate(t)
    BY CleanByStream
  <1>2. /\ redis' = [redis EXCEPT ![s].added = @ + 1, ![s].entries = @ \cup {redis[s].added + 1}]
        /\ UNCHANGED <<running, handled, cleaner, commands, before>>
    BY DEF Produce
  <1>3. WholeFunctions' /\ ScriptOK'
    BY <1>1, <1>2 DEF WholeFunctions, ScriptOK
  <1>4. ASSUME NEW t \in Streams, t # s PROVE StreamOK(t)' /\ DeletedLate(t)'
    <2>1. redis'[t] = redis[t]
      BY <1>1, <1>2, <1>4 DEF WholeFunctions
    <2>2. QED
      BY <1>1, <1>2, <2>1, StreamUntouched DEF DeletedLate, Deleted
  <1>5. StreamOK(s) /\ DeletedLate(s)
    BY <1>1
  <1>6. redis'[s] = [redis[s] EXCEPT !.added = redis[s].added + 1,
                                     !.entries = redis[s].entries \cup {redis[s].added + 1}]
    BY <1>1, <1>2 DEF WholeFunctions
  <1>7. DeletedLate(s)' /\ (Deleted(s)' <=> Deleted(s))
    <2>1. redis[s].added \in Nat /\ redis[s].entries \subseteq 1 .. redis[s].added
      BY <1>5 DEF StreamOK
    <2>2. redis'[s].added = redis[s].added + 1
          /\ redis'[s].entries = redis[s].entries \cup {redis[s].added + 1}
      BY <1>5, <1>6 DEF StreamOK
    <2>3. \A n \in Nat : \A e \in SUBSET (1 .. n) : (e \cup {n + 1} = 1 .. n + 1) <=> (e = 1 .. n)
      <3> SUFFICES ASSUME NEW n \in Nat, NEW e \in SUBSET (1 .. n)
                   PROVE  (e \cup {n + 1} = 1 .. n + 1) <=> (e = 1 .. n)
        OBVIOUS
      <3>1. 1 .. n + 1 = (1 .. n) \cup {n + 1} /\ n + 1 \notin 1 .. n
        OBVIOUS
      <3>2. QED
        BY <3>1
    <2>4. Deleted(s)' <=> Deleted(s)
      BY <2>1, <2>2, <2>3 DEF Deleted
    <2>5. QED
      BY <1>2, <1>5, <2>4 DEF DeletedLate
  <1>8. ToCome(s)' \subseteq ToCome(s) \cup {redis[s].added + 1}
    BY <1>5, <1>6 DEF ToCome, Unread, StreamOK
  <1>9. /\ redis'[s].added = redis[s].added + 1 /\ redis'[s].last = redis[s].last
        /\ redis'[s].entries = redis[s].entries \cup {redis[s].added + 1}
        /\ redis'[s].pel = redis[s].pel /\ redis'[s].group = redis[s].group
        /\ handled'[s] = handled[s] /\ before'[s] = before[s]
        /\ redis'[s] \in [added: Nat, entries: SUBSET Nat, group: BOOLEAN, last: Nat, pel: SUBSET Nat]
    <2>1. redis[s] \in [added: Nat, entries: SUBSET Nat, group: BOOLEAN, last: Nat, pel: SUBSET Nat]
      BY <1>5 DEF StreamOK
    <2>2. redis[s].added + 1 \in Nat /\ redis[s].entries \cup {redis[s].added + 1} \in SUBSET Nat
      BY <2>1
    <2>3. redis'[s] \in [added: Nat, entries: SUBSET Nat, group: BOOLEAN, last: Nat, pel: SUBSET Nat]
      BY <1>6, <2>1, <2>2
    <2>4. QED
      BY <1>2, <1>6, <2>1, <2>3
  <1>10. redis[s].added < MaxEntries
    BY DEF Produce
  <1>11. StreamOK(s)'
    <2>1. /\ redis'[s].added \in 0 .. MaxEntries /\ redis'[s].entries \subseteq 1 .. redis'[s].added
          /\ redis'[s].last \in 0 .. redis'[s].added
          /\ redis'[s].pel \subseteq 1 .. redis'[s].last /\ redis'[s].pel \cap handled'[s] = {}
      BY <1>5, <1>9, <1>10 DEF StreamOK
    <2>2. /\ ToCome(s)' \cap (handled'[s] \cup redis'[s].pel \cup before'[s].unread) = {}
          /\ handled'[s] \cup before'[s].pel \cup before'[s].unread \subseteq 1 .. redis'[s].added
      BY <1>5, <1>8, <1>9 DEF StreamOK
    <2>3. {m \in redis'[s].entries : m <= redis'[s].last} \subseteq {m \in redis[s].entries : m <= redis[s].last}
      BY <1>5, <1>9 DEF StreamOK
    <2>4. QED
      BY <1>5, <1>7, <1>9, <2>1, <2>2, <2>3 DEF StreamOK
  <1>12. QED
    BY <1>3, <1>4, <1>7, <1>11, CleanByStreamNext

LEMMA DeliverKeeps ==
    ASSUME CleanInv, NEW s \in Streams, Deliver(s) PROVE CleanInv'
  <1>1. WholeFunctions /\ ScriptOK /\ \A t \in Streams : StreamOK(t) /\ DeletedLate(t)
    BY CleanByStream
  <1>2. PICK m \in Unread(s) :
          /\ \A n \in Unread(s) : m <= n
          /\ redis' = [redis EXCEPT ![s].last = m, ![s].pel = @ \cup {m}]
    BY DEF Deliver
  <1>3. redis[s].group /\ UNCHANGED <<running, handled, cleaner, commands, before>>
    BY DEF Deliver
  <1>4. WholeFunctions' /\ ScriptOK'
    BY <1>1, <1>2, <1>3 DEF WholeFunctions, ScriptOK
  <1>5. ASSUME NEW t \in Streams, t # s PROVE StreamOK(t)' /\ DeletedLate(t)'
    <2>1. redis'[t] = redis[t]
      BY <1>1, <1>2, <1>5 DEF WholeFunctions
    <2>2. QED
      BY <1>1, <1>3, <2>1, StreamUntouched DEF DeletedLate, Deleted
  <1>6. StreamOK(s) /\ DeletedLate(s)
    BY <1>1
  <1>7. /\ redis[s] \in [added: Nat, entries: SUBSET Nat, group: BOOLEAN, last: Nat, pel: SUBSET Nat]
        /\ redis[s].last \in Nat /\ redis[s].added \in Nat /\ redis[s].entries \subseteq 1 .. redis[s].added
    BY <1>6 DEF StreamOK
  <1>8. m \in redis[s].entries /\ m \in 1 .. redis[s].added /\ m > redis[s].last
    BY <1>2, <1>7 DEF Unread
  <1>9. redis'[s] = [redis[s] EXCEPT !.last = m, !.pel = redis[s].pel \cup {m}]
    BY <1>1, <1>2 DEF WholeFunctions
  <1>10. /\ redis'[s].added = redis[s].added /\ redis'[s].last = m
         /\ redis'[s].entries = redis[s].entries /\ redis'[s].group = redis[s].group
         /\ redis'[s].pel = redis[s].pel \cup {m}
         /\ handled'[s] = handled[s] /\ before'[s] = before[s]
         /\ redis'[s] \in [added: Nat, entries: SUBSET Nat, group: BOOLEAN, last: Nat, pel: SUBSET Nat]
    <2>1. m \in Nat /\ redis[s].pel \cup {m} \in SUBSET Nat
      BY <1>7, <1>8
    <2>2. redis'[s] \in [added: Nat, entries: SUBSET Nat, group: BOOLEAN, last: Nat, pel: SUBSET Nat]
      BY <1>7, <1>9, <2>1
    <2>3. QED
      BY <1>3, <1>7, <1>9, <2>2
  <1>11. DeletedLate(s)' /\ (Deleted(s)' <=> Deleted(s))
    BY <1>3, <1>6, <1>10 DEF DeletedLate, Deleted
  <1>12. ToCome(s) = Unread(s) /\ ToCome(s)' \subseteq ToCome(s) \ {m}
    BY <1>3, <1>7, <1>8, <1>10 DEF ToCome, Unread
  <1>13. StreamOK(s)'
    <2>1. /\ redis'[s].added \in 0 .. MaxEntries /\ redis'[s].entries \subseteq 1 .. redis'[s].added
          /\ redis'[s].last \in 0 .. redis'[s].added
      BY <1>6, <1>8, <1>10 DEF StreamOK
    <2>2. redis'[s].pel \subseteq 1 .. redis'[s].last
      BY <1>6, <1>8, <1>10 DEF StreamOK
    <2>3. m \notin handled[s] /\ m \notin before[s].unread
      BY <1>2, <1>6, <1>12 DEF StreamOK
    <2>4. /\ redis'[s].pel \cap handled'[s] = {}
          /\ ToCome(s)' \cap (handled'[s] \cup redis'[s].pel \cup before'[s].unread) = {}
          /\ handled'[s] \cup before'[s].pel \cup before'[s].unread \subseteq 1 .. redis'[s].added
          /\ before'[s].unread \cap (handled'[s] \cup redis'[s].pel) = {}
      BY <1>6, <1>10, <1>12, <2>3 DEF StreamOK
    <2>5. {n \in redis'[s].entries : n <= redis'[s].last} \subseteq {n \in redis[s].entries : n <= redis[s].last} \cup {m}
      <3>1. ASSUME NEW n \in redis[s].entries, n <= m, ~(n <= redis[s].last) PROVE n = m
        <4>1. n \in Unread(s)
          BY <1>7, <3>1 DEF Unread
        <4>2. QED
          BY <1>2, <1>7, <1>8, <3>1, <4>1
      <3>2. QED
        BY <1>10, <3>1
    <2>6. QED
      BY <1>3, <1>6, <1>10, <1>11, <2>1, <2>2, <2>4, <2>5 DEF StreamOK
  <1>14. QED
    BY <1>4, <1>5, <1>11, <1>13, CleanByStreamNext

LEMMA AcknowledgeKeeps ==
    ASSUME CleanInv, NEW s \in Streams, NEW m \in redis[s].pel, Acknowledge(s, m) PROVE CleanInv'
  <1>1. WholeFunctions /\ ScriptOK /\ \A t \in Streams : StreamOK(t) /\ DeletedLate(t)
    BY CleanByStream
  <1>2. /\ redis' = [redis EXCEPT ![s].pel = @ \ {m}]
        /\ handled' = [handled EXCEPT ![s] = @ \cup {m}]
        /\ UNCHANGED <<running, cleaner, commands, before>>
    BY DEF Acknowledge
  <1>3. WholeFunctions' /\ ScriptOK'
    BY <1>1, <1>2 DEF WholeFunctions, ScriptOK
  <1>4. ASSUME NEW t \in Streams, t # s PROVE StreamOK(t)' /\ DeletedLate(t)'
    <2>1. redis'[t] = redis[t] /\ handled'[t] = handled[t]
      BY <1>1, <1>2, <1>4 DEF WholeFunctions
    <2>2. QED
      BY <1>1, <1>2, <2>1, StreamUntouched DEF DeletedLate, Deleted
  <1>5. StreamOK(s) /\ DeletedLate(s)
    BY <1>1
  <1>6. /\ redis[s] \in [added: Nat, entries: SUBSET Nat, group: BOOLEAN, last: Nat, pel: SUBSET Nat]
        /\ handled[s] \in SUBSET Nat /\ before[s] \in [pel: SUBSET Nat, unread: SUBSET Nat]
    BY <1>5 DEF StreamOK
  <1>7. redis'[s] = [redis[s] EXCEPT !.pel = redis[s].pel \ {m}]
    BY <1>1, <1>2 DEF WholeFunctions
  <1>8. /\ redis'[s].added = redis[s].added /\ redis'[s].last = redis[s].last
        /\ redis'[s].entries = redis[s].entries /\ redis'[s].group = redis[s].group
        /\ redis'[s].pel = redis[s].pel \ {m}
        /\ handled'[s] = handled[s] \cup {m} /\ before'[s] = before[s]
        /\ redis'[s] \in [added: Nat, entries: SUBSET Nat, group: BOOLEAN, last: Nat, pel: SUBSET Nat]
    <2>1. redis[s].pel \ {m} \in SUBSET Nat
      BY <1>6
    <2>2. redis'[s] \in [added: Nat, entries: SUBSET Nat, group: BOOLEAN, last: Nat, pel: SUBSET Nat]
      BY <1>6, <1>7, <2>1
    <2>3. handled'[s] = handled[s] \cup {m}
      BY <1>1, <1>2 DEF WholeFunctions
    <2>4. QED
      BY <1>2, <1>6, <1>7, <2>2, <2>3
  <1>9. DeletedLate(s)' /\ (Deleted(s)' <=> Deleted(s)) /\ ToCome(s)' = ToCome(s)
    BY <1>2, <1>5, <1>8 DEF DeletedLate, Deleted, ToCome, Unread
  <1>10. m \in Nat /\ m \in 1 .. redis[s].added
    BY <1>5, <1>6 DEF StreamOK
  <1>11. StreamOK(s)'
    <2>1. handled'[s] \in SUBSET Nat
      BY <1>6, <1>8, <1>10
    <2>2. QED
      BY <1>5, <1>8, <1>9, <1>10, <2>1 DEF StreamOK
  <1>12. QED
    BY <1>3, <1>4, <1>9, <1>11, CleanByStreamNext

LEMMA StopServiceKeeps ==
    ASSUME CleanInv, NEW s \in Streams, StopService(s) PROVE CleanInv'
  <1>1. WholeFunctions /\ ScriptOK /\ \A t \in Streams : StreamOK(t) /\ DeletedLate(t)
    BY CleanByStream
  <1>2. WholeFunctions' /\ ScriptOK'
    BY <1>1 DEF StopService, WholeFunctions, ScriptOK
  <1>3. ASSUME NEW t \in Streams PROVE StreamOK(t)' /\ DeletedLate(t)'
    BY <1>1, <1>3, StreamUntouched DEF StopService, DeletedLate, Deleted
  <1>4. QED
    BY <1>2, <1>3, CleanByStreamNext

LEMMA StartServiceKeeps ==
    ASSUME CleanInv, NEW s \in Streams, StartService(s) PROVE CleanInv'
  <1>1. WholeFunctions /\ ScriptOK /\ \A t \in Streams : StreamOK(t) /\ DeletedLate(t)
    BY CleanByStream
  <1>2. /\ redis' = [redis EXCEPT ![s].last = StartPosition(s), ![s].group = TRUE]
        /\ running' = running \cup {s} /\ UNCHANGED <<handled, cleaner, commands, before>>
    BY DEF StartService
  <1>3. WholeFunctions' /\ ScriptOK'
    BY <1>1, <1>2 DEF WholeFunctions, ScriptOK
  <1>4. ASSUME NEW t \in Streams, t # s PROVE StreamOK(t)' /\ DeletedLate(t)'
    <2>1. redis'[t] = redis[t]
      BY <1>1, <1>2, <1>4 DEF WholeFunctions
    <2>2. QED
      BY <1>1, <1>2, <2>1, StreamUntouched DEF DeletedLate, Deleted
  <1>5. StreamOK(s) /\ DeletedLate(s)
    BY <1>1
  <1>6. /\ redis[s] \in [added: Nat, entries: SUBSET Nat, group: BOOLEAN, last: Nat, pel: SUBSET Nat]
        /\ redis[s].last \in Nat /\ redis[s].added \in Nat /\ redis[s].entries \subseteq 1 .. redis[s].added
    BY <1>5 DEF StreamOK
  <1>7. redis'[s] = [redis[s] EXCEPT !.last = StartPosition(s), !.group = TRUE]
    BY <1>1, <1>2 DEF WholeFunctions
  <1>8. StartPosition(s) \in Nat
    BY <1>6 DEF StartPosition
  <1>9. /\ redis'[s].added = redis[s].added /\ redis'[s].last = StartPosition(s)
        /\ redis'[s].entries = redis[s].entries /\ redis'[s].group = TRUE
        /\ redis'[s].pel = redis[s].pel
        /\ handled'[s] = handled[s] /\ before'[s] = before[s]
        /\ redis'[s] \in [added: Nat, entries: SUBSET Nat, group: BOOLEAN, last: Nat, pel: SUBSET Nat]
    <2>1. redis'[s] \in [added: Nat, entries: SUBSET Nat, group: BOOLEAN, last: Nat, pel: SUBSET Nat]
      BY <1>6, <1>7, <1>8
    <2>2. /\ redis'[s].added = redis[s].added /\ redis'[s].last = StartPosition(s)
          /\ redis'[s].entries = redis[s].entries /\ redis'[s].group = TRUE
          /\ redis'[s].pel = redis[s].pel
      BY <1>6, <1>7
    <2>3. handled'[s] = handled[s] /\ before'[s] = before[s]
      BY <1>2
    <2>4. QED
      BY <2>1, <2>2, <2>3
  <1>10. DeletedLate(s)' /\ (Deleted(s)' <=> Deleted(s))
    BY <1>2, <1>5, <1>9 DEF DeletedLate, Deleted
  <1>11. ToCome(s)' = ToCome(s)
    <2>1. CASE redis[s].group
      BY <1>9, <2>1 DEF ToCome, Unread, StartPosition
    <2>2. CASE ~redis[s].group
      <3>1. \A m \in redis[s].entries : m > 0
        BY <1>6
      <3>2. QED
        BY <1>9, <2>2, <3>1 DEF ToCome, Unread, StartPosition
    <2>3. QED
      BY <2>1, <2>2
  <1>12. StreamOK(s)'
    <2>1. /\ redis'[s].added \in 0 .. MaxEntries /\ redis'[s].entries \subseteq 1 .. redis'[s].added
          /\ redis'[s].last \in 0 .. redis'[s].added
          /\ redis'[s].pel \subseteq 1 .. redis'[s].last /\ redis'[s].pel \cap handled'[s] = {}
      BY <1>5, <1>9 DEF StreamOK, StartPosition
    <2>2. Deleted(s)' => {m \in redis'[s].entries : m <= redis'[s].last} \subseteq redis'[s].pel \cup handled'[s]
      <3>1. CASE redis[s].group
        BY <1>5, <1>9, <1>10, <3>1 DEF StreamOK, StartPosition
      <3>2. CASE ~redis[s].group
        <4>1. \A m \in redis[s].entries : ~(m <= 0)
          BY <1>6
        <4>2. QED
          BY <1>9, <3>2, <4>1 DEF StartPosition
      <3>3. QED
        BY <3>1, <3>2
    <2>3. QED
      BY <1>5, <1>9, <1>10, <1>11, <2>1, <2>2 DEF StreamOK
  <1>13. QED
    BY <1>3, <1>4, <1>10, <1>12, CleanByStreamNext

\* Steps of the script.
LEMMA RunScriptKeeps ==
    ASSUME CleanInv, NEW way \in {"soft", "wipe"}, RunScript(way) PROVE CleanInv'
  <1>1. WholeFunctions /\ ScriptOK /\ \A t \in Streams : StreamOK(t) /\ DeletedLate(t)
    BY CleanByStream
  <1>2. WholeFunctions' /\ ScriptOK'
    <2>1. WholeFunctions' /\ running' \subseteq Streams
      BY <1>1 DEF RunScript, WholeFunctions, ScriptOK
    <2>2. commands' \subseteq {"group", "stream"} \X Streams /\ cleaner' \in {"soft", "wipe"}
      BY DEF RunScript
    <2>3. commands' # {}
      <3>1. PICK s \in Streams : TRUE
        BY CleanAssumption
      <3>2. <<"group", s>> \in commands'
        BY <3>1 DEF RunScript
      <3>3. QED
        BY <3>2
    <2>4. QED
      BY <2>1, <2>2, <2>3 DEF ScriptOK
  <1>3. ASSUME NEW t \in Streams PROVE StreamOK(t)' /\ DeletedLate(t)'
    <2>1. ~Deleted(t)
      BY <1>1 DEF RunScript, DeletedLate
    <2>2. QED
      BY <1>1, <2>1, StreamUntouched DEF RunScript, DeletedLate, Deleted
  <1>4. QED
    BY <1>2, <1>3, CleanByStreamNext

LEMMA CommandKeeps ==
    ASSUME CleanInv, Command PROVE CleanInv'
  <1>1. WholeFunctions /\ ScriptOK /\ \A t \in Streams : StreamOK(t) /\ DeletedLate(t)
    BY CleanByStream
  <1>2. PICK x \in commands :
          /\ commands' = commands \ {x} /\ cleaner' = IF commands' = {} THEN "over" ELSE cleaner
          /\ \/ x[1] = "group" /\ ResetGroup(x[2])
             \/ x[1] = "stream" /\ ({"group"} \X Streams) \cap commands = {} /\ DeleteStream(x[2])
          /\ UNCHANGED <<running, handled>>
    BY DEF Command
  <1>3. PICK s \in Streams : s = x[2]
    BY <1>1 DEF ScriptOK
  <1>4. x \in {"group", "stream"} \X Streams /\ x = <<x[1], s>>
    BY <1>1, <1>3 DEF ScriptOK
  <1>5. cleaner \in {"soft", "wipe"} /\ ScriptOK'
    BY <1>1, <1>2 DEF ScriptOK
  <1>6. \A t \in Streams : DeletedLate(t) => (Deleted(t) => cleaner' # "off" /\ ({"group"} \X Streams) \cap commands' = {})
    BY <1>2, <1>5 DEF DeletedLate
  <1>7. StreamOK(s) /\ DeletedLate(s)
    BY <1>1
  <1>8. redis[s] \in [added: Nat, entries: SUBSET Nat, group: BOOLEAN, last: Nat, pel: SUBSET Nat]
        /\ redis[s].last \in Nat /\ redis[s].added \in Nat
        /\ redis[s].entries \subseteq 1 .. redis[s].added
    BY <1>7 DEF StreamOK
  <1>9. CASE x[1] = "group" /\ ResetGroup(s) /\ redis[s].group
    <2>1. /\ redis' = [redis EXCEPT ![s] = [redis[s] EXCEPT !.last = redis[s].added]]
          /\ before' = [before EXCEPT ![s] = [pel |-> redis[s].pel, unread |-> Unread(s)]]
      BY <1>9 DEF ResetGroup, SetId
    <2>2. WholeFunctions'
      BY <1>1, <1>2, <2>1 DEF WholeFunctions
    <2>3. ASSUME NEW t \in Streams, t # s PROVE StreamOK(t)' /\ DeletedLate(t)'
      <3>1. redis'[t] = redis[t] /\ before'[t] = before[t]
        BY <1>1, <2>1, <2>3 DEF WholeFunctions
      <3>2. QED
        BY <1>1, <1>2, <1>6, <3>1, StreamUntouched DEF DeletedLate, Deleted
    <2>4. redis'[s] = [redis[s] EXCEPT !.last = redis[s].added]
          /\ before'[s] = [pel |-> redis[s].pel, unread |-> Unread(s)]
      BY <1>1, <2>1 DEF WholeFunctions
    <2>5. /\ redis'[s].added = redis[s].added /\ redis'[s].last = redis[s].added
          /\ redis'[s].entries = redis[s].entries /\ redis'[s].group = redis[s].group
          /\ redis'[s].pel = redis[s].pel
          /\ handled'[s] = handled[s]
          /\ redis'[s] \in [added: Nat, entries: SUBSET Nat, group: BOOLEAN, last: Nat, pel: SUBSET Nat]
          /\ before'[s].pel = redis[s].pel /\ before'[s].unread = Unread(s)
      BY <1>2, <1>8, <2>4
    <2>6. ~Deleted(s)
      <3>1. x \in ({"group"} \X Streams) \cap commands
        BY <1>4, <1>9
      <3>2. QED
        BY <1>7, <3>1 DEF DeletedLate
    <2>7. ~Deleted(s)' /\ DeletedLate(s)'
      BY <2>5, <2>6 DEF Deleted, DeletedLate
    <2>8. ToCome(s) = Unread(s) /\ Unread(s) \subseteq 1 .. redis[s].added /\ Unread(s) \in SUBSET Nat
      BY <1>8, <1>9 DEF ToCome, Unread
    <2>9. ToCome(s)' = {}
      <3>1. \A m \in redis[s].entries : ~(m > redis[s].added)
        BY <1>8
      <3>2. QED
        BY <1>9, <2>5, <3>1 DEF ToCome, Unread
    <2>10. StreamOK(s)'
      <3>1. before'[s] \in [pel: SUBSET Nat, unread: SUBSET Nat]
        BY <1>8, <2>4, <2>8
      <3>2. /\ redis'[s].last \in 0 .. redis'[s].added /\ redis'[s].pel \subseteq 1 .. redis'[s].last
            /\ redis'[s].pel \subseteq 1 .. redis[s].added
        BY <1>7, <1>8, <2>5 DEF StreamOK
      <3>3. QED
        BY <1>7, <2>5, <2>7, <2>8, <2>9, <3>1, <3>2 DEF StreamOK
    <2>11. QED
      BY <1>5, <2>2, <2>3, <2>7, <2>10, CleanByStreamNext
  <1>10. CASE x[1] = "group" /\ ResetGroup(s) /\ ~redis[s].group
    <2>1. UNCHANGED <<redis, before>>
      BY <1>10 DEF ResetGroup
    <2>2. WholeFunctions'
      BY <1>1, <1>2, <2>1 DEF WholeFunctions
    <2>3. ASSUME NEW t \in Streams PROVE StreamOK(t)' /\ DeletedLate(t)'
      BY <1>1, <1>2, <1>6, <2>1, <2>3, StreamUntouched DEF DeletedLate, Deleted
    <2>4. QED
      BY <1>5, <2>2, <2>3, CleanByStreamNext
  <1>11. CASE x[1] = "stream" /\ ({"group"} \X Streams) \cap commands = {} /\ DeleteStream(s)
    <2>1. redis' = [redis EXCEPT ![s].entries = {}, ![s].group = FALSE, ![s].pel = {}] /\ UNCHANGED before
      BY <1>11 DEF DeleteStream
    <2>2. WholeFunctions'
      BY <1>1, <1>2, <2>1 DEF WholeFunctions
    <2>3. ASSUME NEW t \in Streams, t # s PROVE StreamOK(t)' /\ DeletedLate(t)'
      <3>1. redis'[t] = redis[t]
        BY <1>1, <2>1, <2>3 DEF WholeFunctions
      <3>2. QED
        BY <1>1, <1>2, <1>6, <2>1, <3>1, StreamUntouched DEF DeletedLate, Deleted
    <2>4. redis'[s] = [redis[s] EXCEPT !.entries = {}, !.group = FALSE, !.pel = {}]
      BY <1>1, <2>1 DEF WholeFunctions
    <2>5. /\ redis'[s].added = redis[s].added /\ redis'[s].last = redis[s].last
          /\ redis'[s].entries = {} /\ redis'[s].group = FALSE /\ redis'[s].pel = {}
          /\ handled'[s] = handled[s] /\ before'[s] = before[s]
          /\ redis'[s] \in [added: Nat, entries: SUBSET Nat, group: BOOLEAN, last: Nat, pel: SUBSET Nat]
      <3>1. redis'[s] \in [added: Nat, entries: SUBSET Nat, group: BOOLEAN, last: Nat, pel: SUBSET Nat]
        BY <1>8, <2>4
      <3>2. /\ redis'[s].added = redis[s].added /\ redis'[s].last = redis[s].last
            /\ redis'[s].entries = {} /\ redis'[s].group = FALSE /\ redis'[s].pel = {}
        BY <1>8, <2>4
      <3>3. handled'[s] = handled[s] /\ before'[s] = before[s]
        BY <1>2, <2>1
      <3>4. QED
        BY <3>1, <3>2, <3>3
    <2>6. DeletedLate(s)'
      BY <1>2, <1>5, <1>11 DEF DeletedLate
    <2>7. ToCome(s)' = {}
      BY <2>5 DEF ToCome
    <2>8. ~Deleted(s)' => before[s].pel = {}
      <3>1. ASSUME ~Deleted(s)' PROVE 1 .. redis[s].added = {}
        BY <2>5, <3>1 DEF Deleted
      <3>2. QED
        BY <1>7, <3>1 DEF StreamOK
    <2>9. StreamOK(s)'
      BY <1>7, <2>5, <2>7, <2>8 DEF StreamOK
    <2>10. QED
      BY <1>5, <2>2, <2>3, <2>6, <2>9, CleanByStreamNext
  <1>12. QED
    BY <1>2, <1>3, <1>9, <1>10, <1>11

LEMMA CleanInduction == CleanSpec => []CleanInv
  <1>1. ASSUME CleanInv, [CleanNext]_cleanVars PROVE CleanInv'
    <2>1. CASE \E s \in Streams : Produce(s) \/ Deliver(s)
      BY <1>1, <2>1, ProduceKeeps, DeliverKeeps
    <2>2. CASE \E s \in Streams : StopService(s) \/ StartService(s)
      BY <1>1, <2>2, StopServiceKeeps, StartServiceKeeps
    <2>3. CASE \E s \in Streams : \E m \in redis[s].pel : Acknowledge(s, m)
      BY <1>1, <2>3, AcknowledgeKeeps
    <2>4. CASE \E way \in {"soft", "wipe"} : RunScript(way)
      BY <1>1, <2>4, RunScriptKeeps
    <2>5. CASE Command
      BY <1>1, <2>5, CommandKeeps
    <2>6. CASE UNCHANGED cleanVars
      <3>1. WholeFunctions /\ ScriptOK /\ \A t \in Streams : StreamOK(t) /\ DeletedLate(t)
        BY <1>1, CleanByStream
      <3>2. WholeFunctions' /\ ScriptOK' /\ \A t \in Streams : StreamOK(t)' /\ DeletedLate(t)'
        BY <2>6, <3>1, StreamUntouched DEF cleanVars, WholeFunctions, ScriptOK, DeletedLate, Deleted
      <3>3. QED
        BY <3>2, CleanByStreamNext
    <2>7. QED
      BY <1>1, <2>1, <2>2, <2>3, <2>4, <2>5, <2>6 DEF CleanNext
  <1>2. QED
    BY CleanInitially, <1>1, PTL DEF CleanSpec

\* clean_redis_for_restart.py next to the services, for every number of streams and
\* entries: a soft clean costs what was unread and no more, a wipe nothing that comes later.
THEOREM OnlyUnreadIsLostHolds == CleanSpec => []OnlyUnreadIsLost
  <1>1. CleanInv => OnlyUnreadIsLost
    BY DEF CleanInv
  <1>2. QED
    BY CleanInduction, <1>1, PTL

-------------------------------------------------------------------------------
(* LlmClients.  First the pool: which key acquire() returns.  Its search,  *)
(* a CHOOSE, finds a key because a nonempty set of numbers has a least.    *)

\* The number of keys, and the key behind another.
LEMMA KeyNumbers ==
    /\ Cardinality(ApiKeys) \in Nat /\ Cardinality(ApiKeys) >= 1 /\ 1 \in ApiKeys
    /\ \A k \in ApiKeys : k \in Nat /\ 1 <= k /\ k <= Cardinality(ApiKeys) /\ After(k) \in ApiKeys
  <1>1. Cardinality(ApiKeys) \in Nat
    BY LlmAssumption, FS_CardinalityType
  <1>2. \A n \in Nat : 1 .. n # {} => 1 <= n /\ 1 \in 1 .. n
    OBVIOUS
  <1>3. 1 <= Cardinality(ApiKeys) /\ 1 \in ApiKeys
    BY <1>1, <1>2, LlmAssumption
  <1>4. \A n \in Nat : \A k \in 1 .. n : k \in Nat /\ 1 <= k /\ k <= n /\ (k # n => k + 1 \in 1 .. n)
    OBVIOUS
  <1>5. ASSUME NEW k \in ApiKeys
        PROVE  k \in Nat /\ 1 <= k /\ k <= Cardinality(ApiKeys) /\ After(k) \in ApiKeys
    BY <1>1, <1>3, <1>4, LlmAssumption DEF After
  <1>6. QED
    BY <1>1, <1>3, <1>5

LEMMA FirstReadyFound ==
    ASSUME LlmTypeOK, Ready # {}
    PROVE  LET ahead == {k \in Ready : k >= nextKey} IN
           /\ FirstReady \in Ready
           /\ IF ahead = {} THEN \A j \in Ready : FirstReady <= j
              ELSE FirstReady \in ahead /\ \A j \in ahead : FirstReady <= j
  <1> DEFINE ahead == {k \in Ready : k >= nextKey}
             First(k) == IF ahead = {} THEN \A j \in Ready : k <= j
                         ELSE k \in ahead /\ \A j \in ahead : k <= j
  <1>1. Ready \in SUBSET Nat /\ ahead \in SUBSET Nat /\ ahead \subseteq Ready
    BY KeyNumbers DEF Ready
  <1>2. \E k \in Ready : First(k)
    <2>1. CASE ahead = {}
      BY <1>1, <2>1, LeastNumber
    <2>2. CASE ahead # {}
      <3>1. PICK k \in ahead : \A j \in ahead : k <= j
        BY <1>1, <2>2, LeastNumber
      <3>2. QED
        BY <1>1, <2>2, <3>1
    <2>3. QED
      BY <2>1, <2>2
  <1>3. FirstReady = CHOOSE k \in Ready : First(k)
    BY Zenon DEF FirstReady
  <1>4. FirstReady \in Ready /\ First(FirstReady)
    <2> HIDE DEF First
    <2>1. QED
      BY <1>2, <1>3
  <1>5. QED
    BY <1>4

\* A key that comes again, with the search starting behind it, is the only one ready.
LEMMA OnlyReady ==
    ASSUME LlmTypeOK, Ready # {}, newest \in ApiKeys, nextKey = After(newest), FirstReady = newest
    PROVE  \A k \in ApiKeys \ {newest} : cooldown[k] > 0
  <1> DEFINE ahead == {k \in Ready : k >= nextKey}
  <1>1. /\ newest \in Ready
        /\ IF ahead = {} THEN \A j \in Ready : newest <= j ELSE newest \in ahead /\ \A j \in ahead : newest <= j
    BY FirstReadyFound
  <1>2. \A k \in Ready : k = newest
    <2> SUFFICES ASSUME NEW k \in Ready PROVE k = newest
      OBVIOUS
    <2>1. k \in ApiKeys /\ k \in Nat /\ newest \in Nat /\ k <= Cardinality(ApiKeys) /\ 1 <= k
          /\ Cardinality(ApiKeys) \in Nat /\ newest <= Cardinality(ApiKeys)
      BY KeyNumbers DEF Ready
    <2>2. CASE newest = Cardinality(ApiKeys)
      <3>1. nextKey = 1 /\ k \in ahead
        BY <2>1, <2>2 DEF After
      <3>2. newest <= k
        BY <1>1, <3>1
      <3>3. QED
        BY <2>1, <2>2, <3>2
    <2>3. CASE newest # Cardinality(ApiKeys)
      <3>1. nextKey = newest + 1
        BY <2>3 DEF After
      <3>2. newest \notin ahead
        BY <2>1, <3>1
      <3>3. ahead = {} /\ newest <= k
        BY <1>1, <3>2
      <3>4. ~(k >= nextKey)
        BY <3>3
      <3>5. QED
        BY <2>1, <3>1, <3>3, <3>4
    <2>4. QED
      BY <2>2, <2>3
  <1>3. ASSUME NEW k \in ApiKeys, k # newest PROVE cooldown[k] > 0
    <2>1. k \notin Ready
      BY <1>2, <1>3
    <2>2. cooldown[k] \in Nat /\ cooldown[k] # 0
      BY <2>1 DEF Ready, LlmTypeOK
    <2>3. QED
      BY <2>2
  <1>4. QED
    BY <1>3

-------------------------------------------------------------------------------
(* The calls.  What a step says of one call; the others stay as they are.  *)

CallOK(c) ==
    /\ met[c] \subseteq Bodies \cup {Filtered, Refused} /\ tried[c] \subseteq {"main", "fallback"}
    /\ attempt[c] < MaxAttempts
    /\ stage[c] \in {"request", "done"} => model[c] \in tried[c]
    /\ model[c] = "fallback" => "main" \in tried[c]
    /\ stage[c] # "done" => met[c] \subseteq {Filtered}
    /\ stage[c] # "done" /\ Filtered \in met[c] => model[c] = "fallback"
    /\ result[c] \in ToDlq => met[c] \cap (Bodies \cup {Filtered, Refused}) # {}
    /\ stage[c] = "done" /\ Filtered \in met[c] /\ Refused \notin met[c] /\ attempt[c] + 1 < MaxAttempts
       => tried[c] = {"main", "fallback"}

HistoryShape == met = [c \in Callers |-> met[c]] /\ tried = [c \in Callers |-> tried[c]]

LEMMA LlmByCall ==
    LlmInv <=> LlmTypeOK /\ PoolGoesOn /\ HistoryShape /\ \A c \in Callers : CallOK(c)
  <1>1. ASSUME LlmInv PROVE HistoryShape
    BY <1>1 DEF LlmInv, CallsRemember, HistoryShape
  <1>2. ASSUME LlmInv, NEW c \in Callers PROVE CallOK(c)
    <2>1. met[c] \subseteq Bodies \cup {Filtered, Refused} /\ tried[c] \subseteq {"main", "fallback"}
      BY <1>2 DEF LlmInv, CallsRemember
    <2>2. QED
      BY <1>2, <2>1 DEF LlmInv, CallsRemember, FailuresAreSorted, OnlyRefusalsGoToDlq, FallbackAsked, CallOK
  <1>3. ASSUME LlmTypeOK, PoolGoesOn, HistoryShape, \A c \in Callers : CallOK(c) PROVE LlmInv
    <2>1. CallsRemember
      BY <1>3 DEF HistoryShape, CallOK, CallsRemember
    <2>2. FailuresAreSorted
      BY <1>3 DEF CallOK, FailuresAreSorted, OnlyRefusalsGoToDlq, FallbackAsked
    <2>3. QED
      BY <1>3, <2>1, <2>2 DEF LlmInv
  <1>4. QED
    BY <1>1, <1>2, <1>3 DEF LlmInv

LEMMA LlmByCallNext ==
    ASSUME LlmTypeOK', PoolGoesOn', HistoryShape', \A c \in Callers : CallOK(c)' PROVE LlmInv'
  <1>1. (LlmTypeOK /\ PoolGoesOn /\ HistoryShape /\ \A c \in Callers : CallOK(c))' => LlmInv'
    BY LlmByCall, PTL
  <1>2. QED
    BY <1>1

LEMMA CallUntouched ==
    ASSUME NEW c, CallOK(c), provider' = provider,
           stage'[c] = stage[c], attempt'[c] = attempt[c], model'[c] = model[c], result'[c] = result[c],
           met'[c] = met[c], tried'[c] = tried[c]
    PROVE  CallOK(c)'
  BY DEF CallOK, MaxAttempts

LEMMA AttemptsAreLimited ==
    ASSUME provider \in {"groq", "deepinfra"}
    PROVE  /\ MaxAttempts \in Nat /\ 0 < MaxAttempts
           /\ MaxAttempts <= Cardinality(ApiKeys) + MaxRetries + 1
  <1>1. Cardinality(ApiKeys) \in Nat /\ MaxRetries \in Nat
    BY KeyNumbers, LlmAssumption
  <1>2. \A n, r \in Nat : /\ n + 1 \in Nat /\ 0 < n + 1 /\ n + 1 <= n + r + 1
                          /\ r + 1 \in Nat /\ 0 < r + 1 /\ r + 1 <= n + r + 1
    OBVIOUS
  <1>3. QED
    BY <1>1, <1>2 DEF MaxAttempts

LEMMA LlmInitially == ASSUME LlmInit PROVE LlmInv
  <1>1. LlmTypeOK
    <2>1. Cardinality(ApiKeys) \in Nat /\ MaxRetries \in Nat /\ 1 \in ApiKeys
      BY KeyNumbers, LlmAssumption
    <2>2. 0 \in 0 .. Cardinality(ApiKeys) + MaxRetries + 1
      BY <2>1
    <2>3. QED
      BY <2>1, <2>2 DEF LlmInit, LlmTypeOK
  <1>2. PoolGoesOn /\ HistoryShape
    BY DEF LlmInit, PoolGoesOn, HistoryShape
  <1>3. ASSUME NEW c \in Callers PROVE CallOK(c)
    <2>1. 0 < MaxAttempts
      BY AttemptsAreLimited DEF LlmInit
    <2>2. QED
      BY <2>1 DEF LlmInit, CallOK, ToDlq
  <1>4. QED
    BY <1>1, <1>2, <1>3, LlmByCall

\* Steps of the pool.
LEMMA TickKeeps == ASSUME LlmInv, Tick PROVE LlmInv'
  <1>1. LlmTypeOK /\ PoolGoesOn /\ HistoryShape /\ \A c \in Callers : CallOK(c)
    BY LlmByCall
  <1>2. cooldown' \in [ApiKeys -> Nat]
    BY <1>1 DEF Tick, LlmTypeOK
  <1>3. LlmTypeOK'
    BY <1>1, <1>2 DEF Tick, LlmTypeOK
  <1>4. PoolGoesOn' /\ HistoryShape'
    BY <1>1 DEF Tick, PoolGoesOn, HistoryShape, After
  <1>5. ASSUME NEW c \in Callers PROVE CallOK(c)'
    BY <1>1, CallUntouched DEF Tick
  <1>6. QED
    BY <1>3, <1>4, <1>5, LlmByCallNext

LEMMA AcquireKeeps == ASSUME LlmInv, NEW c \in Callers, Acquire(c) PROVE LlmInv'
  <1>1. LlmTypeOK /\ PoolGoesOn /\ HistoryShape /\ \A d \in Callers : CallOK(d)
    BY LlmByCall
  <1>2. /\ stage[c] = "acquire" /\ stage' = [stage EXCEPT ![c] = "request"]
        /\ tried' = [tried EXCEPT ![c] = tried[c] \cup {model[c]}]
        /\ UNCHANGED <<provider, attempt, model, lastExc, result, met, cooldown>>
    BY DEF Acquire, Put, poolVars
  <1>3. \/ UNCHANGED <<key, nextKey, newest>>
        \/ /\ Ready # {} /\ key' = [key EXCEPT ![c] = FirstReady]
           /\ newest' = FirstReady /\ nextKey' = After(FirstReady)
    BY DEF Acquire, Put, poolVars
  <1>4. Ready # {} => FirstReady \in ApiKeys /\ After(FirstReady) \in ApiKeys
    BY <1>1, FirstReadyFound, KeyNumbers DEF Ready
  <1>5. stage' \in [Callers -> {"idle", "acquire", "request", "done"}]
        /\ \A d \in Callers : (result'[d] = "none") = (stage'[d] # "done")
    BY <1>1, <1>2 DEF LlmTypeOK
  <1>6. /\ key' \in [Callers -> {0} \cup ApiKeys] /\ nextKey' \in ApiKeys
        /\ newest' \in {0} \cup ApiKeys /\ PoolGoesOn'
    <2>1. CASE UNCHANGED <<key, nextKey, newest>>
      BY <1>1, <2>1 DEF LlmTypeOK, PoolGoesOn, After
    <2>2. CASE /\ Ready # {} /\ key' = [key EXCEPT ![c] = FirstReady]
               /\ newest' = FirstReady /\ nextKey' = After(FirstReady)
      BY <1>1, <1>4, <2>2 DEF LlmTypeOK, PoolGoesOn, After
    <2>3. QED
      BY <1>3, <2>1, <2>2
  <1>7. LlmTypeOK'
    BY <1>1, <1>2, <1>5, <1>6 DEF LlmTypeOK
  <1>8. HistoryShape'
    BY <1>1, <1>2 DEF HistoryShape
  <1>9. stage'[c] = "request" /\ tried'[c] = tried[c] \cup {model[c]}
        /\ \A d \in Callers \ {c} : stage'[d] = stage[d] /\ tried'[d] = tried[d]
    BY <1>1, <1>2 DEF LlmTypeOK, HistoryShape
  <1>10. CallOK(c)'
    <2>1. model[c] \in {"main", "fallback"} /\ CallOK(c)
      BY <1>1 DEF LlmTypeOK
    <2>2. QED
      BY <1>2, <1>9, <2>1 DEF CallOK, MaxAttempts
  <1>11. ASSUME NEW d \in Callers, d # c PROVE CallOK(d)'
    BY <1>1, <1>2, <1>9, <1>11, CallUntouched
  <1>12. QED
    BY <1>6, <1>7, <1>8, <1>10, <1>11, LlmByCallNext

\* A step of a call that the pool is not part of: only what belongs to the call changes.
OnlyCall(c) ==
    /\ stage' = [stage EXCEPT ![c] = stage'[c]] /\ attempt' = [attempt EXCEPT ![c] = attempt'[c]]
    /\ model' = [model EXCEPT ![c] = model'[c]] /\ key' = [key EXCEPT ![c] = key'[c]]
    /\ lastExc' = [lastExc EXCEPT ![c] = lastExc'[c]] /\ result' = [result EXCEPT ![c] = result'[c]]
    /\ met' = [met EXCEPT ![c] = met'[c]] /\ tried' = [tried EXCEPT ![c] = tried'[c]]
    /\ UNCHANGED <<provider, nextKey, newest>>

\* The values a call is left with have their types.
CallTypeOK(c) ==
    /\ stage[c] \in {"idle", "acquire", "request", "done"}
    /\ attempt[c] \in 0 .. Cardinality(ApiKeys) + MaxRetries + 1
    /\ model[c] \in {"main", "fallback"} /\ key[c] \in {0} \cup ApiKeys
    /\ lastExc[c] \in {"none", Filtered} \cup Transient
    /\ result[c] \in {"none", "ok"} \cup Retryable \cup ToDlq \cup Raised
    /\ (result[c] = "none") = (stage[c] # "done")

LEMMA OneCall ==
    ASSUME LlmInv, NEW c \in Callers, OnlyCall(c), cooldown' \in [ApiKeys -> Nat], CallTypeOK(c)', CallOK(c)'
    PROVE  LlmInv'
  <1>1. LlmTypeOK /\ PoolGoesOn /\ HistoryShape /\ \A d \in Callers : CallOK(d)
    BY LlmByCall
  <1>2. ASSUME NEW d \in Callers, d # c
        PROVE  /\ stage'[d] = stage[d] /\ attempt'[d] = attempt[d] /\ model'[d] = model[d]
               /\ result'[d] = result[d] /\ met'[d] = met[d] /\ tried'[d] = tried[d]
    BY <1>1, <1>2 DEF LlmTypeOK, HistoryShape, OnlyCall
  <1>3. LlmTypeOK'
    <2>1. stage' \in [Callers -> {"idle", "acquire", "request", "done"}]
      BY <1>1 DEF LlmTypeOK, OnlyCall, CallTypeOK
    <2>2. attempt' \in [Callers -> 0 .. Cardinality(ApiKeys) + MaxRetries + 1]
      BY <1>1 DEF LlmTypeOK, OnlyCall, CallTypeOK
    <2>3. model' \in [Callers -> {"main", "fallback"}] /\ key' \in [Callers -> {0} \cup ApiKeys]
      BY <1>1 DEF LlmTypeOK, OnlyCall, CallTypeOK
    <2>4. /\ lastExc' \in [Callers -> {"none", Filtered} \cup Transient]
          /\ result' \in [Callers -> {"none", "ok"} \cup Retryable \cup ToDlq \cup Raised]
      BY <1>1 DEF LlmTypeOK, OnlyCall, CallTypeOK
    <2>5. \A d \in Callers : (result'[d] = "none") = (stage'[d] # "done")
      BY <1>1, <1>2 DEF LlmTypeOK, CallTypeOK
    <2>6. QED
      BY <1>1, <2>1, <2>2, <2>3, <2>4, <2>5 DEF LlmTypeOK, OnlyCall
  <1>4. PoolGoesOn' /\ HistoryShape'
    BY <1>1 DEF PoolGoesOn, After, HistoryShape, OnlyCall
  <1>5. ASSUME NEW d \in Callers, d # c PROVE CallOK(d)'
    BY <1>1, <1>2, <1>5, CallUntouched DEF OnlyCall
  <1>6. QED
    BY <1>3, <1>4, <1>5, LlmByCallNext

\* A function written over with the value it has.
LEMMA Rewritten ==
    ASSUME NEW S, NEW f \in [Callers -> S], NEW c \in Callers PROVE f = [f EXCEPT ![c] = f[c]]
  OBVIOUS

LEMMA CallKeeps == ASSUME LlmInv, NEW c \in Callers, Call(c) PROVE LlmInv'
  <1>1. LlmTypeOK /\ HistoryShape /\ CallOK(c)
    BY LlmByCall
  <1>2. /\ stage[c] = "idle" /\ stage' = [stage EXCEPT ![c] = "acquire"]
        /\ UNCHANGED <<provider, attempt, model, key, lastExc, result, met, tried>>
        /\ UNCHANGED <<nextKey, cooldown, newest>>
    BY DEF Call, Put, poolVars
  <1>3. /\ attempt' = [attempt EXCEPT ![c] = attempt[c]] /\ model' = [model EXCEPT ![c] = model[c]]
        /\ key' = [key EXCEPT ![c] = key[c]] /\ lastExc' = [lastExc EXCEPT ![c] = lastExc[c]]
        /\ result' = [result EXCEPT ![c] = result[c]]
    BY <1>1, <1>2, Rewritten DEF LlmTypeOK
  <1>4. met' = [met EXCEPT ![c] = met[c]] /\ tried' = [tried EXCEPT ![c] = tried[c]]
    BY <1>1, <1>2 DEF HistoryShape
  <1>5. stage'[c] = "acquire" /\ cooldown' \in [ApiKeys -> Nat]
    BY <1>1, <1>2 DEF LlmTypeOK
  <1>6. OnlyCall(c)
    BY <1>2, <1>3, <1>4, <1>5 DEF OnlyCall
  <1>7. CallTypeOK(c)'
    BY <1>1, <1>2, <1>5 DEF LlmTypeOK, CallTypeOK
  <1>8. CallOK(c)'
    BY <1>1, <1>2, <1>5 DEF CallOK, MaxAttempts
  <1>9. QED
    BY <1>5, <1>6, <1>7, <1>8, OneCall

LEMMA ReturnKeeps == ASSUME LlmInv, NEW c \in Callers, Return(c) PROVE LlmInv'
  <1>1. LlmTypeOK /\ HistoryShape
    BY LlmByCall
  <1>2. /\ stage' = [stage EXCEPT ![c] = "idle"] /\ result' = [result EXCEPT ![c] = "none"]
        /\ attempt' = [attempt EXCEPT ![c] = 0] /\ model' = [model EXCEPT ![c] = "main"]
        /\ met' = [met EXCEPT ![c] = {}] /\ tried' = [tried EXCEPT ![c] = {}]
        /\ UNCHANGED <<provider, key, lastExc, nextKey, cooldown, newest>>
    BY DEF Return, Put, poolVars
  <1>3. key' = [key EXCEPT ![c] = key[c]] /\ lastExc' = [lastExc EXCEPT ![c] = lastExc[c]]
    BY <1>1, <1>2, Rewritten DEF LlmTypeOK
  <1>4. /\ stage'[c] = "idle" /\ result'[c] = "none" /\ attempt'[c] = 0 /\ model'[c] = "main"
        /\ met'[c] = {} /\ tried'[c] = {} /\ key'[c] = key[c] /\ lastExc'[c] = lastExc[c]
        /\ cooldown' \in [ApiKeys -> Nat]
    BY <1>1, <1>2 DEF LlmTypeOK, HistoryShape
  <1>5. OnlyCall(c)
    BY <1>2, <1>3, <1>4 DEF OnlyCall
  <1>6. 0 < MaxAttempts /\ 0 \in 0 .. Cardinality(ApiKeys) + MaxRetries + 1
    BY <1>1, AttemptsAreLimited, KeyNumbers, LlmAssumption DEF LlmTypeOK
  <1>7. CallTypeOK(c)'
    BY <1>1, <1>4, <1>6 DEF LlmTypeOK, CallTypeOK
  <1>8. 0 < MaxAttempts'
    BY <1>2, <1>6 DEF MaxAttempts
  <1>9. CallOK(c)'
    BY <1>4, <1>8 DEF CallOK, ToDlq
  <1>10. QED
    BY <1>4, <1>5, <1>7, <1>9, OneCall

\* The request is answered and enrich() ends.
LEMMA EndKeeps ==
    ASSUME LlmInv, NEW c \in Callers, NEW answer \in Bodies \cup {Filtered, Refused} \cup Transient,
           Meets(c, answer), cooldown' \in [ApiKeys -> Nat],
           NEW outcome \in {"ok"} \cup Retryable \cup ToDlq \cup Raised, End(c, outcome),
           outcome \in ToDlq => answer \notin Transient,
           answer = Filtered /\ attempt[c] + 1 < MaxAttempts => model[c] = "fallback"
    PROVE  LlmInv'
  <1>1. LlmTypeOK /\ HistoryShape /\ CallOK(c)
    BY LlmByCall
  <1> DEFINE met2 == met[c] \cup ({answer} \ Transient)
  <1>2. /\ stage[c] = "request" /\ stage' = [stage EXCEPT ![c] = "done"]
        /\ result' = [result EXCEPT ![c] = outcome] /\ lastExc' = [lastExc EXCEPT ![c] = "none"]
        /\ met' = [met EXCEPT ![c] = met2] /\ key' = [key EXCEPT ![c] = 0]
        /\ UNCHANGED <<provider, nextKey, newest, tried, attempt, model>>
    BY DEF End, Meets, Put
  <1>3. attempt' = [attempt EXCEPT ![c] = attempt[c]] /\ model' = [model EXCEPT ![c] = model[c]]
    BY <1>1, <1>2, Rewritten DEF LlmTypeOK
  <1>4. tried' = [tried EXCEPT ![c] = tried[c]]
    BY <1>1, <1>2 DEF HistoryShape
  <1>5. /\ stage'[c] = "done" /\ result'[c] = outcome /\ lastExc'[c] = "none" /\ met'[c] = met2
        /\ key'[c] = 0
    BY <1>1, <1>2 DEF LlmTypeOK, HistoryShape
  <1>6. OnlyCall(c)
    BY <1>2, <1>3, <1>4, <1>5 DEF OnlyCall
  <1>7. outcome # "none"
    BY DEF Retryable, ToDlq, Raised
  <1>8. CallTypeOK(c)'
    BY <1>1, <1>2, <1>5, <1>7 DEF LlmTypeOK, CallTypeOK
  <1>9. CallOK(c)'
    <2>1. /\ met[c] \subseteq {Filtered} /\ tried[c] \subseteq {"main", "fallback"}
          /\ attempt[c] < MaxAttempts /\ model[c] \in tried[c]
          /\ (model[c] = "fallback" => "main" \in tried[c])
          /\ (Filtered \in met[c] => model[c] = "fallback")
      BY <1>1, <1>2 DEF CallOK
    <2>2. /\ met2 \subseteq Bodies \cup {Filtered, Refused}
          /\ outcome \in ToDlq => met2 \cap (Bodies \cup {Filtered, Refused}) # {}
      BY <2>1
    <2>3. Filtered \in met2 /\ attempt[c] + 1 < MaxAttempts => tried[c] = {"main", "fallback"}
      BY <2>1
    <2>4. UNCHANGED <<tried, attempt, model, MaxAttempts>>
      BY <1>2 DEF MaxAttempts
    <2>5. HIDE DEF met2
    <2>6. QED
      BY <1>5, <2>1, <2>2, <2>3, <2>4 DEF CallOK
  <1>10. QED
    BY <1>6, <1>8, <1>9, OneCall

\* The loop goes on, or ends with the error it remembers.
LEMMA AgainKeeps ==
    ASSUME LlmInv, NEW c \in Callers, NEW answer \in {Filtered} \cup Transient,
           Meets(c, answer), cooldown' \in [ApiKeys -> Nat],
           NEW exc \in {"none", Filtered} \cup Transient, NEW next \in {"main", "fallback"},
           Again(c, exc, next), Failure(exc) \in ToDlq => answer = Filtered,
           answer = Filtered => next = "fallback", model[c] = "fallback" => next = "fallback"
    PROVE  LlmInv'
  <1>1. LlmTypeOK /\ HistoryShape /\ CallOK(c)
    BY LlmByCall
  <1>2. CASE attempt[c] + 1 < MaxAttempts
    <2> DEFINE met2 == met[c] \cup ({answer} \ Transient)
    <2>1. /\ stage[c] = "request" /\ stage' = [stage EXCEPT ![c] = "acquire"]
          /\ attempt' = [attempt EXCEPT ![c] = attempt[c] + 1]
          /\ lastExc' = [lastExc EXCEPT ![c] = exc] /\ model' = [model EXCEPT ![c] = next]
          /\ met' = [met EXCEPT ![c] = met2] /\ key' = [key EXCEPT ![c] = 0]
          /\ UNCHANGED <<provider, nextKey, newest, tried, result>>
      BY <1>2 DEF Again, Meets, Put
    <2>2. result' = [result EXCEPT ![c] = result[c]] /\ tried' = [tried EXCEPT ![c] = tried[c]]
      BY <1>1, <2>1, Rewritten DEF LlmTypeOK, HistoryShape
    <2>3. /\ stage'[c] = "acquire" /\ attempt'[c] = attempt[c] + 1 /\ lastExc'[c] = exc
          /\ model'[c] = next /\ met'[c] = met2 /\ key'[c] = 0
      BY <1>1, <2>1 DEF LlmTypeOK, HistoryShape
    <2>4. OnlyCall(c)
      BY <2>1, <2>2, <2>3 DEF OnlyCall
    <2>5. /\ result[c] = "none" /\ model[c] \in {"main", "fallback"} /\ attempt[c] \in Nat
          /\ provider \in {"groq", "deepinfra"}
      BY <1>1, <2>1 DEF LlmTypeOK
    <2>6. attempt[c] + 1 \in 0 .. Cardinality(ApiKeys) + MaxRetries + 1
      <3>1. \A a, m, n, r \in Nat : a + 1 < m /\ m <= n + r + 1 => a + 1 \in 0 .. n + r + 1
        OBVIOUS
      <3>2. QED
        BY <1>2, <2>5, <3>1, AttemptsAreLimited, KeyNumbers, LlmAssumption
    <2>7. CallTypeOK(c)'
      BY <2>1, <2>3, <2>5, <2>6 DEF CallTypeOK
    <2>8. CallOK(c)'
      <3>1. /\ met[c] \subseteq {Filtered} /\ tried[c] \subseteq {"main", "fallback"}
            /\ model[c] \in tried[c] /\ (model[c] = "fallback" => "main" \in tried[c])
            /\ (Filtered \in met[c] => model[c] = "fallback")
        BY <1>1, <2>1 DEF CallOK
      <3>2. met2 \subseteq {Filtered} /\ (Filtered \in met2 => next = "fallback")
        BY <2>5, <3>1
      <3>3. next = "fallback" => "main" \in tried[c]
        BY <2>5, <3>1
      <3>4. UNCHANGED <<tried, result, MaxAttempts>> /\ "none" \notin ToDlq
        BY <2>1 DEF MaxAttempts, ToDlq
      <3>5. HIDE DEF met2
      <3>6. QED
        BY <1>2, <2>3, <2>5, <3>1, <3>2, <3>3, <3>4 DEF CallOK
    <2>9. QED
      BY <2>4, <2>7, <2>8, OneCall
  <1>3. CASE ~(attempt[c] + 1 < MaxAttempts)
    <2>1. End(c, Failure(exc))
      BY <1>3 DEF Again
    <2>2. Failure(exc) \in {"ok"} \cup Retryable \cup ToDlq \cup Raised
      BY DEF Failure, GroqFailure, DeepInfraFailure, Retryable, ToDlq, Raised
    <2>3. Failure(exc) \in ToDlq => answer \notin Transient
      BY DEF Filtered, Transient
    <2>4. QED
      BY <1>3, <2>1, <2>2, <2>3, EndKeeps
  <1>4. QED
    BY <1>2, <1>3

\* What is no failure for good is not the DLQ's.
LEMMA FailuresForNow ==
    /\ \A exc \in Transient : Failure(exc) \notin ToDlq
    /\ provider = "deepinfra" => \A exc \in {"none"} \cup Transient : Failure(exc) \notin ToDlq
  BY DEF Failure, GroqFailure, DeepInfraFailure, Transient, ToDlq

LEMMA RespondKeeps == ASSUME LlmInv, NEW c \in Callers, Respond(c) PROVE LlmInv'
  <1>1. LlmTypeOK
    BY LlmByCall
  <1>2. model[c] \in {"main", "fallback"} /\ cooldown \in [ApiKeys -> Nat]
        /\ lastExc[c] \in {"none", Filtered} \cup Transient /\ provider \in {"groq", "deepinfra"}
    BY <1>1 DEF LlmTypeOK
  <1>3. ASSUME NEW body \in Bodies, Answered(c, body) PROVE LlmInv'
    <2>1. /\ Meets(c, body) /\ UNCHANGED cooldown
          /\ End(c, CASE body = "good" -> "ok" [] body = "no_json" -> "invalid_json"
                      [] body = "bad_schema" -> "schema_violation" [] OTHER -> "empty_financial")
      BY <1>3 DEF Answered
    <2>2. body \notin Transient /\ body # Filtered
      BY DEF Bodies, Transient, Filtered
    <2>3. (CASE body = "good" -> "ok" [] body = "no_json" -> "invalid_json"
            [] body = "bad_schema" -> "schema_violation" [] OTHER -> "empty_financial")
          \in {"ok"} \cup Retryable \cup ToDlq \cup Raised
      BY DEF Bodies, Retryable, ToDlq
    <2>4. QED
      BY <1>2, <2>1, <2>2, <2>3, EndKeeps
  <1>4. ASSUME RateLimited(c) PROVE LlmInv'
    <2>1. cooldown' \in [ApiKeys -> Nat]
      <3>1. PICK m \in RetryAfters : \A n \in RetryAfters : n <= m
        BY LlmAssumption
      <3>2. (CHOOSE m2 \in RetryAfters : \A n \in RetryAfters : n <= m2) \in RetryAfters
        BY <3>1
      <3>3. RetryAfters \cup {1 + CHOOSE m2 \in RetryAfters : \A n \in RetryAfters : n <= m2} \subseteq Nat
        <4>1. \A r \in RetryAfters : r \in Nat /\ 1 + r \in Nat
          BY LlmAssumption
        <4>2. QED
          BY <3>2, <4>1
      <3>4. CASE Cool(key[c])
        <4>1. PICK t \in RetryAfters \cup {1 + CHOOSE m2 \in RetryAfters : \A n \in RetryAfters : n <= m2} :
                 cooldown' = [cooldown EXCEPT ![key[c]] = t]
          BY <3>4 DEF Cool, Put
        <4>2. t \in Nat
          BY <3>3, <4>1
        <4>3. QED
          BY <1>2, <4>1, <4>2
      <3>5. QED
        BY <1>2, <1>4, <3>4 DEF RateLimited
    <2>2. Meets(c, "429") /\ Again(c, "429", model[c]) /\ "429" \in Transient
      BY <1>4 DEF RateLimited, Transient
    <2>3. "429" # Filtered
      BY DEF Filtered
    <2>4. QED
      BY <1>2, <2>1, <2>2, <2>3, FailuresForNow, AgainKeeps
  <1>5. ASSUME NEW exc \in Transient, Unavailable(c, exc) PROVE LlmInv'
    <2>1. Meets(c, exc) /\ Again(c, exc, model[c]) /\ UNCHANGED cooldown
      BY <1>5 DEF Unavailable
    <2>2. exc # Filtered /\ Failure(exc) \notin ToDlq /\ cooldown' \in [ApiKeys -> Nat]
      BY <1>2, <2>1, FailuresForNow DEF Filtered, Transient
    <2>3. exc \in {Filtered} \cup Transient /\ exc \in {"none", Filtered} \cup Transient
      OBVIOUS
    <2>4. QED
      BY <1>2, <2>1, <2>2, <2>3, AgainKeeps
  <1>6. ASSUME ContentFiltered(c) PROVE LlmInv'
    <2>1. Meets(c, Filtered) /\ UNCHANGED cooldown /\ Filtered \notin Transient
      BY <1>6 DEF ContentFiltered, Filtered, Transient
    <2>2. CASE model[c] = "main"
      <3>1. Again(c, IF provider = "groq" THEN Filtered ELSE lastExc[c], "fallback")
        BY <1>6, <2>2 DEF ContentFiltered
      <3>2. (IF provider = "groq" THEN Filtered ELSE lastExc[c]) \in {"none", Filtered} \cup Transient
        BY <1>2
      <3>3. QED
        BY <1>2, <2>1, <3>1, <3>2, AgainKeeps
    <2>3. CASE model[c] # "main"
      <3>1. End(c, Failure(Filtered))
        BY <1>6, <2>3 DEF ContentFiltered
      <3>2. Failure(Filtered) \in {"ok"} \cup Retryable \cup ToDlq \cup Raised
        BY DEF Failure, GroqFailure, DeepInfraFailure, Retryable, ToDlq, Raised
      <3>3. QED
        BY <1>2, <2>1, <2>3, <3>1, <3>2, EndKeeps
    <2>4. QED
      BY <2>2, <2>3
  <1>7. ASSUME Rejected(c) PROVE LlmInv'
    <2>1. Meets(c, Refused) /\ End(c, Failure(Refused)) /\ UNCHANGED cooldown
      BY <1>7 DEF Rejected
    <2>2. Refused \notin Transient /\ Refused # Filtered
      BY DEF Refused, Filtered, Transient
    <2>3. Failure(Refused) \in {"ok"} \cup Retryable \cup ToDlq \cup Raised
      BY DEF Failure, GroqFailure, DeepInfraFailure, Retryable, ToDlq, Raised
    <2>4. QED
      BY <1>2, <2>1, <2>2, <2>3, EndKeeps
  <1>8. QED
    BY <1>3, <1>4, <1>5, <1>6, <1>7 DEF Respond

LEMMA LlmInduction == LlmSpec => []LlmInv
  <1>1. ASSUME LlmInv, [LlmNext]_llmVars PROVE LlmInv'
    <2>1. CASE Tick
      BY <1>1, <2>1, TickKeeps
    <2>2. CASE \E c \in Callers : Call(c) \/ Acquire(c)
      BY <1>1, <2>2, CallKeeps, AcquireKeeps
    <2>3. CASE \E c \in Callers : Respond(c) \/ Return(c)
      BY <1>1, <2>3, RespondKeeps, ReturnKeeps
    <2>4. CASE UNCHANGED llmVars
      <3>1. LlmTypeOK /\ PoolGoesOn /\ HistoryShape /\ \A c \in Callers : CallOK(c)
        BY <1>1, LlmByCall
      <3>2. LlmTypeOK'
        BY <2>4, <3>1 DEF llmVars, poolVars, LlmTypeOK
      <3>3. PoolGoesOn' /\ HistoryShape' /\ \A c \in Callers : CallOK(c)'
        BY <2>4, <3>1, CallUntouched DEF llmVars, poolVars, PoolGoesOn, After, HistoryShape
      <3>4. QED
        BY <3>2, <3>3, LlmByCallNext
    <2>5. QED
      BY <1>1, <2>1, <2>2, <2>3, <2>4 DEF LlmNext
  <1>2. QED
    BY LlmInitially, <1>1, PTL DEF LlmSpec

\* GroqLLMClient and DeepInfraLLMClient, for every number of workers and keys and every
\* limit of retries: what goes to the DLQ was refused by the provider or by the answer,
\* and the content filter sends a call with an attempt left to the other model.
THEOREM FailuresAreSortedHolds == LlmSpec => []FailuresAreSorted
  <1>1. LlmInv => FailuresAreSorted
    BY DEF LlmInv
  <1>2. QED
    BY LlmInduction, <1>1, PTL

\* GroqKeyPool.acquire, for every number of keys: the key used last comes again only when
\* every other one is cooling down.
THEOREM KeysTakeTurnsHolds == LlmSpec => KeysTakeTurns
  <1> DEFINE Turn(c) ==
        stage[c] = "acquire" /\ stage'[c] = "request" /\ provider = "groq" /\ key'[c] = newest
        => \A k \in ApiKeys \ {newest} : cooldown[k] > 0
  <1>1. ASSUME LlmInv, [LlmNext]_llmVars, NEW c \in Callers PROVE Turn(c)
    <2> SUFFICES ASSUME stage[c] = "acquire", stage'[c] = "request", provider = "groq", key'[c] = newest
                 PROVE  \A k \in ApiKeys \ {newest} : cooldown[k] > 0
      OBVIOUS
    <2>1. LlmTypeOK /\ PoolGoesOn
      BY <1>1 DEF LlmInv
    <2>2. Acquire(c)
      <3>1. stage \in [Callers -> {"idle", "acquire", "request", "done"}]
        BY <2>1 DEF LlmTypeOK
      <3>2. ~UNCHANGED stage
        OBVIOUS
      <3>3. ~Tick /\ ~UNCHANGED llmVars
        BY <3>2 DEF Tick, llmVars
      <3>4. PICK d \in Callers : Call(d) \/ Acquire(d) \/ Respond(d) \/ Return(d)
        BY <1>1, <3>3 DEF LlmNext
      <3>5. d = c
        <4>1. \E st : stage' = [stage EXCEPT ![d] = st]
          BY <3>4 DEF Call, Acquire, Respond, Return, Answered, RateLimited, ContentFiltered, Rejected,
                      Unavailable, Again, End, Put
        <4>2. QED
          BY <3>1, <4>1
      <3>6. ~Call(c) /\ ~Return(c)
        BY DEF Call, Return
      <3>7. ~Respond(c)
        BY DEF Respond, Answered, RateLimited, ContentFiltered, Rejected, Unavailable, Meets
      <3>8. QED
        BY <3>4, <3>5, <3>6, <3>7
    <2>3. Ready # {} /\ key' = [key EXCEPT ![c] = FirstReady]
      BY <2>2 DEF Acquire, Put
    <2>4. FirstReady = newest
      BY <2>1, <2>3 DEF LlmTypeOK
    <2>5. newest \in ApiKeys /\ newest # 0
      BY <2>1, <2>3, <2>4, FirstReadyFound, KeyNumbers DEF Ready
    <2>6. QED
      BY <2>1, <2>3, <2>4, <2>5, OnlyReady DEF PoolGoesOn
  <1>2. LlmInv /\ [LlmNext]_llmVars => [\A c \in Callers : Turn(c)]_llmVars
    BY <1>1
  <1>3. QED
    BY LlmInduction, <1>2, PTL DEF LlmSpec, KeysTakeTurns
-------------------------------------------------------------------------------
(* Monitoring.  The receiver's window first: what popleft leaves of it, and *)
(* what a full window says of the times at which connections were lost.    *)

\* Places in a sequence and in its end.
LEMMA Shifted ==
    ASSUME NEW l \in Nat, NEW k \in Nat, k <= l, NEW i \in 1 .. k, NEW j \in 1 .. k
    PROVE  /\ l - k + i \in 1 .. l /\ l - k + j \in 1 .. l
           /\ i <= j => l - k + i <= l - k + j
  OBVIOUS

LEMMA EndsAre ==
    ASSUME NEW long \in Seq(Nat), NEW short \in Seq(Nat), EndOf(short, long)
    PROVE  /\ Len(long) \in Nat /\ Len(short) \in Nat /\ Len(short) <= Len(long)
           /\ DOMAIN short = 1 .. Len(short) /\ DOMAIN long = 1 .. Len(long)
  <1>1. Len(long) \in Nat /\ Len(short) \in Nat /\ DOMAIN short = 1 .. Len(short) /\ DOMAIN long = 1 .. Len(long)
    OBVIOUS
  <1>2. QED
    BY <1>1 DEF EndOf

LEMMA EndIsAscending ==
    ASSUME NEW long \in Seq(Nat), NEW short \in Seq(Nat), EndOf(short, long), Ascending(long)
    PROVE  Ascending(short)
  <1> SUFFICES ASSUME NEW i \in DOMAIN short, NEW j \in DOMAIN short, i <= j
               PROVE  short[i] <= short[j]
    BY DEF Ascending
  <1> DEFINE d == Len(long) - Len(short)
  <1>1. i \in 1 .. Len(short) /\ j \in 1 .. Len(short)
    BY EndsAre
  <1>2. d + i \in 1 .. Len(long) /\ d + j \in 1 .. Len(long) /\ d + i <= d + j
    <2>1. Len(long) \in Nat /\ Len(short) \in Nat /\ Len(short) <= Len(long)
      BY EndsAre
    <2> HIDE DEF d
    <2>2. Len(long) - Len(short) + i \in 1 .. Len(long) /\ Len(long) - Len(short) + j \in 1 .. Len(long)
          /\ Len(long) - Len(short) + i <= Len(long) - Len(short) + j
      BY <1>1, <2>1, Shifted
    <2>3. QED
      BY <2>2 DEF d
  <1>3. short[i] = long[d + i] /\ short[j] = long[d + j]
    BY DEF EndOf
  <1>4. DOMAIN long = 1 .. Len(long)
    OBVIOUS
  <1> HIDE DEF d
  <1>5. QED
    BY <1>2, <1>3, <1>4 DEF Ascending

LEMMA EndOfEnd ==
    ASSUME NEW long \in Seq(Nat), NEW mid \in Seq(Nat), NEW short \in Seq(Nat),
           EndOf(mid, long), EndOf(short, mid)
    PROVE  EndOf(short, long)
  <1> DEFINE e == Len(mid) - Len(short)
  <1>1. Len(long) \in Nat /\ Len(mid) \in Nat /\ Len(short) \in Nat
        /\ Len(short) <= Len(mid) /\ Len(mid) <= Len(long)
    BY EndsAre
  <1>2. ASSUME NEW i \in DOMAIN short PROVE short[i] = long[Len(long) - Len(short) + i]
    <2>1. i \in 1 .. Len(short) /\ DOMAIN mid = 1 .. Len(mid)
      BY EndsAre
    <2>2. e + i \in 1 .. Len(mid)
      <3> HIDE DEF e
      <3>1. Len(mid) - Len(short) + i \in 1 .. Len(mid)
        BY <1>1, <2>1, Shifted
      <3>2. QED
        BY <3>1 DEF e
    <2>3. \A l, m, k, x \in Int : l - m + (m - k + x) = l - k + x
      OBVIOUS
    <2>4. Len(long) - Len(mid) + (e + i) = Len(long) - Len(short) + i
      BY <1>1, <2>1, <2>3
    <2>5. short[i] = mid[e + i]
      BY DEF EndOf
    <2> HIDE DEF e
    <2>6. mid[e + i] = long[Len(long) - Len(mid) + (e + i)]
      BY <2>1, <2>2 DEF EndOf
    <2>7. QED
      BY <2>4, <2>5, <2>6
  <1>3. Len(short) <= Len(long)
    BY <1>1
  <1>4. QED
    BY <1>2, <1>3 DEF EndOf

LEMMA TailIs ==
    ASSUME NEW times \in Seq(Nat), NEW m \in 1 .. Len(times)
    PROVE  LET w == SubSeq(times, m, Len(times)) IN
           /\ w \in Seq(Nat) /\ Len(w) = Len(times) - m + 1 /\ DOMAIN w = 1 .. Len(times) - m + 1
           /\ \A i \in 1 .. Len(times) - m + 1 : w[i] = times[m + i - 1]
  <1> DEFINE w == SubSeq(times, m, Len(times))
             l == Len(times)
             k == l - m + 1
  <1>1. l \in Nat /\ m \in Nat \ {0} /\ m <= l /\ DOMAIN times = 1 .. l /\ k \in Nat
    OBVIOUS
  <1> DEFINE f == [i \in 1 .. k |-> times[m + i - 1]]
  <1>2. w = f
    <2>1. w = [i \in 1 .. (1 + l - m) |-> times[i + m - 1]]
      BY <1>1
    <2>2. 1 + l - m = k
      BY <1>1
    <2>3. \A i \in 1 .. k : i + m - 1 = m + i - 1
      BY <1>1
    <2>4. QED
      BY <2>1, <2>2, <2>3
  <1>3. \A i \in 1 .. k : m + i - 1 \in 1 .. l
    BY <1>1
  <1>4. \A i \in 1 .. k : times[m + i - 1] \in Nat
    BY <1>1, <1>3
  <1>5. f \in Seq(Nat) /\ DOMAIN f = 1 .. k /\ Len(f) = k
    BY <1>1, <1>4
  <1>6. QED
    BY <1>2, <1>5

\* The window after a look at the clock.
LEMMA WithinIs ==
    ASSUME NEW times \in Seq(Nat), clock \in Nat, Ascending(times)
    PROVE  /\ Within(times) \in Seq(Nat) /\ EndOf(Within(times), times)
           /\ \A i \in DOMAIN Within(times) : Within(times)[i] >= clock - StormWindow
  <1> DEFINE recent == {i \in DOMAIN times : times[i] >= clock - StormWindow}
  <1>1. Within(times) = IF recent = {} THEN <<>> ELSE SubSeq(times, Min(recent), Len(times))
    BY DEF Within
  <1>2. CASE recent = {}
    BY <1>1, <1>2 DEF EndOf
  <1>3. CASE recent # {}
    <2> DEFINE m == Min(recent)
    <2>1. m \in recent /\ m \in 1 .. Len(times) /\ Len(times) \in Nat
      <3>1. recent \in SUBSET Nat
        OBVIOUS
      <3>2. m \in recent
        BY <1>3, <3>1, MinOf
      <3>3. QED
        BY <3>2
    <2>2. Within(times) = SubSeq(times, m, Len(times))
      BY <1>1, <1>3
    <2> HIDE DEF m
    <2>3. /\ Within(times) \in Seq(Nat) /\ Len(Within(times)) = Len(times) - m + 1
          /\ DOMAIN Within(times) = 1 .. Len(times) - m + 1
          /\ \A i \in 1 .. Len(times) - m + 1 : Within(times)[i] = times[m + i - 1]
      BY <2>1, <2>2, TailIs
    <2>4. ASSUME NEW i \in DOMAIN Within(times)
          PROVE  /\ Within(times)[i] = times[Len(times) - Len(Within(times)) + i]
                 /\ Within(times)[i] >= clock - StormWindow
      <3>1. i \in 1 .. Len(times) - m + 1
        BY <2>3
      <3>a. \A l \in Nat : \A x \in 1 .. l : \A y \in 1 .. l - x + 1 :
               x + y - 1 \in 1 .. l /\ x <= x + y - 1 /\ l - (l - x + 1) + y = x + y - 1
        OBVIOUS
      <3>2. m + i - 1 \in 1 .. Len(times) /\ m <= m + i - 1
            /\ Len(times) - (Len(times) - m + 1) + i = m + i - 1
        BY <2>1, <3>1, <3>a
      <3>3. times[m] <= times[m + i - 1] /\ times[m] >= clock - StormWindow
        BY <2>1, <3>2 DEF Ascending
      <3>4. \A x, y, z \in Int : x <= y /\ x >= z => y >= z
        OBVIOUS
      <3>5. times[m] \in Int /\ times[m + i - 1] \in Int /\ clock - StormWindow \in Int
        <4>1. times[m] \in Nat /\ times[m + i - 1] \in Nat
          BY <2>1, <3>2
        <4>2. clock - StormWindow \in Int
          BY MonitorAssumption
        <4>3. QED
          BY <4>1, <4>2
      <3>6. QED
        BY <2>3, <3>1, <3>2, <3>3, <3>4, <3>5
    <2>5. QED
      BY <2>1, <2>3, <2>4 DEF EndOf
  <1>4. QED
    BY <1>2, <1>3

\* A window that is full of recent times is the end of a history with as many.
LEMMA StormSeen ==
    ASSUME NEW all \in Seq(Nat), NEW w \in Seq(Nat), EndOf(w, all), NEW t \in Int,
           \A i \in DOMAIN w : w[i] >= t, NEW n \in Nat, Len(w) >= n
    PROVE  Cardinality({i \in 1 .. Len(all) : all[i] >= t}) >= n
  <1> DEFINE S == {i \in 1 .. Len(all) : all[i] >= t}
             d == Len(all) - Len(w)
             T == d + 1 .. Len(all)
  <1>1. Len(all) \in Nat /\ Len(w) \in Nat /\ Len(w) <= Len(all) /\ d \in Nat
    BY DEF EndOf
  <1>2. ASSUME NEW i \in T PROVE i \in S
    <2>1. i - d \in 1 .. Len(w) /\ i \in 1 .. Len(all) /\ Len(all) - Len(w) + (i - d) = i
      BY <1>1
    <2>2. w[i - d] = all[Len(all) - Len(w) + (i - d)] /\ w[i - d] >= t
      BY <2>1 DEF EndOf
    <2>3. QED
      BY <2>1, <2>2
  <1>3. IsFiniteSet(S) /\ IsFiniteSet(1 .. Len(all))
    <2>1. IsFiniteSet(1 .. Len(all))
      BY <1>1, FS_Interval
    <2>2. QED
      BY <2>1, FS_Subset
  <1>4. Cardinality(T) = Len(w)
    <2>1. d + 1 \in Int /\ Len(all) \in Int
      BY <1>1
    <2> DEFINE from == d + 1
    <2>2. Cardinality(from .. Len(all)) = IF from > Len(all) THEN 0 ELSE Len(all) - from + 1
      <3> HIDE DEF from
      <3>1. QED
        BY <2>1, FS_Interval DEF from
    <2>3. \A l, k \in Nat : k <= l => (IF l - k + 1 > l THEN 0 ELSE l - (l - k + 1) + 1) = k
      OBVIOUS
    <2>4. QED
      BY <1>1, <2>2, <2>3
  <1>5. T \subseteq S
    BY <1>2
  <1> HIDE DEF S, T
  <1>6. Cardinality(T) <= Cardinality(S) /\ Cardinality(S) \in Nat
    BY <1>3, <1>5, FS_Subset, FS_CardinalityType
  <1>7. Cardinality(S) >= n
    BY <1>1, <1>4, <1>6
  <1>8. QED
    BY <1>7 DEF S

LEMMA MonitorBounds ==
    /\ MaxTime \in Nat /\ Threshold \in Nat /\ Grace \in Nat /\ Repeat \in Nat /\ Repeat >= 1
    /\ StormWindow \in Nat /\ StormSize \in Nat /\ SpikeWindow \in Nat /\ SpikeSize \in Nat /\ SpikeSize >= 1
    /\ MaxDead \in Nat /\ MaxEvents \in Nat /\ Receiver \in Services
  BY MonitorAssumption

\* The types, one by one.
BeatsAt(t) == [at: -1 .. t, storm: BOOLEAN, drops: Nat]

LEMMA MonitorTypes ==
    MonitorTypeOK <=>
        /\ clock \in 0 .. MaxTime
        /\ upSince \in [Services -> {Down} \cup 0 .. clock] /\ turned \subseteq Services
        /\ beat \in [Services -> BeatsAt(clock)] /\ known \in [Services -> BeatsAt(clock)]
        /\ \A s \in Services : known[s].at <= beat[s].at
        /\ storming \in BOOLEAN /\ dead \in 0 .. MaxDead
        /\ reconnects \in Seq(0 .. clock) /\ drops \in Seq(0 .. clock) /\ letters \in Seq(0 .. clock)
        /\ failures \in Nat /\ hangs \in Nat
        /\ step \in {"off", "due", "absorbed", "done"} /\ started \in 0 .. clock
        /\ ticks \in 0 .. MaxTime + 1
        /\ lastAlert \in [Keys -> {-Repeat} \cup 1 .. ticks] /\ raised \subseteq Keys
        /\ samples \in Seq([at: 0 .. clock, len: 0 .. MaxDead])
  BY DEF MonitorTypeOK, BeatsAt

LEMMA MonitorTypesNext ==
    /\ clock' \in 0 .. MaxTime
    /\ upSince' \in [Services -> {Down} \cup 0 .. clock'] /\ turned' \subseteq Services
    /\ beat' \in [Services -> BeatsAt(clock')] /\ known' \in [Services -> BeatsAt(clock')]
    /\ \A s \in Services : known'[s].at <= beat'[s].at
    /\ storming' \in BOOLEAN /\ dead' \in 0 .. MaxDead
    /\ reconnects' \in Seq(0 .. clock') /\ drops' \in Seq(0 .. clock') /\ letters' \in Seq(0 .. clock')
    /\ failures' \in Nat /\ hangs' \in Nat
    /\ step' \in {"off", "due", "absorbed", "done"} /\ started' \in 0 .. clock'
    /\ ticks' \in 0 .. MaxTime + 1
    /\ lastAlert' \in [Keys -> {-Repeat} \cup 1 .. ticks'] /\ raised' \subseteq Keys
    /\ samples' \in Seq([at: 0 .. clock', len: 0 .. MaxDead])
    => MonitorTypeOK'
  BY DEF MonitorTypeOK, BeatsAt

LEMMA SeqWider == \A A, B : A \subseteq B => Seq(A) \subseteq Seq(B)
  <1> SUFFICES ASSUME NEW A, NEW B, A \subseteq B, NEW s \in Seq(A) PROVE s \in Seq(B)
    OBVIOUS
  <1>1. Len(s) \in Nat /\ s \in [1 .. Len(s) -> A]
    OBVIOUS
  <1>2. s \in [1 .. Len(s) -> B]
    BY <1>1
  <1>3. QED
    BY <1>1, <1>2

\* Times up to one round are times up to the next.
LEMMA OneRoundLater ==
    ASSUME NEW t \in Nat
    PROVE  /\ 0 .. t \subseteq 0 .. t + 1 /\ 0 .. t \subseteq Nat
           /\ Seq(0 .. t) \subseteq Seq(0 .. t + 1) /\ Seq(0 .. t) \subseteq Seq(Nat)
           /\ BeatsAt(t) \subseteq BeatsAt(t + 1)
           /\ Seq([at: 0 .. t, len: 0 .. MaxDead]) \subseteq Seq([at: 0 .. t + 1, len: 0 .. MaxDead])
  <1>1. 0 .. t \subseteq 0 .. t + 1 /\ 0 .. t \subseteq Nat /\ -1 .. t \subseteq -1 .. t + 1
    OBVIOUS
  <1>2. BeatsAt(t) \subseteq BeatsAt(t + 1)
    BY <1>1 DEF BeatsAt
  <1>3. [at: 0 .. t, len: 0 .. MaxDead] \subseteq [at: 0 .. t + 1, len: 0 .. MaxDead]
    BY <1>1
  <1>4. \A A, B : A \subseteq B => Seq(A) \subseteq Seq(B)
    BY SeqWider
  <1>5. QED
    BY <1>1, <1>2, <1>3, <1>4

\* The ends of a round.
LEMMA RoundEndsTypes ==
    ASSUME MonitorTypeOK, TicksFollow, RoundEnds PROVE MonitorTypeOK' /\ TicksFollow'
  <1>1. clock \in Nat /\ clock' = clock + 1 /\ clock' \in 0 .. MaxTime /\ started \in 0 .. clock
    BY MonitorBounds, MonitorTypes DEF RoundEnds
  <1>2. upSince' \in [Services -> {Down} \cup 0 .. clock']
    BY <1>1, MonitorTypes, OneRoundLater DEF RoundEnds
  <1>3. /\ beat' \in [Services -> BeatsAt(clock')] /\ known' \in [Services -> BeatsAt(clock')]
        /\ \A s \in Services : known'[s].at <= beat'[s].at
    BY <1>1, MonitorTypes, OneRoundLater DEF RoundEnds
  <1>4. /\ reconnects' \in Seq(0 .. clock') /\ drops' \in Seq(0 .. clock') /\ letters' \in Seq(0 .. clock')
        /\ samples' \in Seq([at: 0 .. clock', len: 0 .. MaxDead])
    BY <1>1, MonitorTypes, OneRoundLater DEF RoundEnds
  <1>5. /\ turned' \subseteq Services /\ storming' \in BOOLEAN /\ dead' \in 0 .. MaxDead
        /\ failures' \in Nat /\ hangs' \in Nat /\ step' \in {"off", "due", "absorbed", "done"}
        /\ ticks' \in 0 .. MaxTime + 1 /\ raised' \subseteq Keys
        /\ lastAlert' \in [Keys -> {-Repeat} \cup 1 .. ticks']
    BY MonitorTypes DEF RoundEnds
  <1>6. started' \in 0 .. clock'
    BY <1>1, OneRoundLater DEF RoundEnds
  <1>7. TicksFollow'
    <2>1. CASE step = "off"
      BY <2>1 DEF RoundEnds, TicksFollow
    <2>2. CASE step = "done"
      <3>1. ticks = clock - started + 1 /\ ticks' = ticks /\ step' = "due" /\ started' = started
        BY <2>2 DEF RoundEnds, TicksFollow
      <3>2. ticks' = clock' - started'
        BY <1>1, <3>1
      <3>3. QED
        BY <3>1, <3>2 DEF TicksFollow
    <2>3. QED
      BY <2>1, <2>2 DEF RoundEnds
  <1>8. QED
    BY <1>1, <1>2, <1>3, <1>4, <1>5, <1>6, <1>7, MonitorTypesNext

\* Types of what a service's step or a dead letter leaves alone.
ScanTypes ==
    /\ step \in {"off", "due", "absorbed", "done"} /\ started \in 0 .. clock
    /\ ticks \in 0 .. MaxTime + 1 /\ known \in [Services -> BeatsAt(clock)]
    /\ lastAlert \in [Keys -> {-Repeat} \cup 1 .. ticks] /\ raised \subseteq Keys
    /\ samples \in Seq([at: 0 .. clock, len: 0 .. MaxDead])

ServiceTypes ==
    /\ upSince \in [Services -> {Down} \cup 0 .. clock] /\ turned \subseteq Services
    /\ beat \in [Services -> BeatsAt(clock)] /\ storming \in BOOLEAN
    /\ reconnects \in Seq(0 .. clock) /\ drops \in Seq(0 .. clock)

LEMMA TypesInParts ==
    MonitorTypeOK <=> /\ ScanTypes /\ ServiceTypes
                      /\ clock \in 0 .. MaxTime /\ dead \in 0 .. MaxDead /\ letters \in Seq(0 .. clock)
                      /\ failures \in Nat /\ hangs \in Nat
                      /\ \A s \in Services : known[s].at <= beat[s].at
  BY MonitorTypes, Zenon DEF ScanTypes, ServiceTypes

LEMMA TypesInPartsNext ==
    /\ ScanTypes' /\ ServiceTypes'
    /\ clock' \in 0 .. MaxTime /\ dead' \in 0 .. MaxDead /\ letters' \in Seq(0 .. clock')
    /\ failures' \in Nat /\ hangs' \in Nat
    /\ \A s \in Services : known'[s].at <= beat'[s].at
    => MonitorTypeOK'
  BY MonitorTypesNext, Zenon DEF ScanTypes, ServiceTypes

LEMMA ScanStays ==
    ASSUME MonitorTypeOK, TicksFollow, UNCHANGED <<clock, scanVars>> PROVE ScanTypes' /\ TicksFollow'
  BY TypesInParts DEF scanVars, ScanTypes, TicksFollow

LEMMA ServicesStay ==
    ASSUME MonitorTypeOK, UNCHANGED <<clock, serviceVars>> PROVE ServiceTypes'
  BY TypesInParts DEF serviceVars, ServiceTypes

\* Times the receiver has seen and a window of them.
LEMMA TimesAre ==
    ASSUME MonitorTypeOK
    PROVE  /\ clock \in Nat /\ clock \in 0 .. clock
           /\ reconnects \in Seq(Nat) /\ drops \in Seq(Nat) /\ letters \in Seq(Nat)
           /\ Append(drops, clock) \in Seq(0 .. clock) /\ Append(letters, clock) \in Seq(0 .. clock)
           /\ Append(reconnects, clock) \in Seq(0 .. clock)
           /\ \A i \in DOMAIN drops : drops[i] <= clock
  <1>1. clock \in Nat /\ clock \in 0 .. clock
    BY MonitorTypes, MonitorBounds
  <1>2. reconnects \in Seq(0 .. clock) /\ drops \in Seq(0 .. clock) /\ letters \in Seq(0 .. clock)
    BY MonitorTypes
  <1>3. reconnects \in Seq(Nat) /\ drops \in Seq(Nat) /\ letters \in Seq(Nat)
    BY <1>1, <1>2, OneRoundLater
  <1>4. Append(drops, clock) \in Seq(0 .. clock) /\ Append(letters, clock) \in Seq(0 .. clock)
        /\ Append(reconnects, clock) \in Seq(0 .. clock)
    BY <1>1, <1>2
  <1>5. \A i \in DOMAIN drops : drops[i] \in 0 .. clock
    <2>1. \A S : \A s \in Seq(S) : \A i \in DOMAIN s : s[i] \in S
      OBVIOUS
    <2>2. QED
      BY <1>2, <2>1
  <1>6. \A x \in 0 .. clock : x <= clock
    BY <1>1
  <1>7. QED
    BY <1>1, <1>3, <1>4, <1>5, <1>6

\* The end of times up to now is of times up to now.
LEMMA EndOfTimes ==
    ASSUME NEW t \in Nat, NEW long \in Seq(0 .. t), NEW short \in Seq(Nat), EndOf(short, long)
    PROVE  short \in Seq(0 .. t)
  <1>1. long \in Seq(Nat)
    BY OneRoundLater
  <1>2. ASSUME NEW i \in 1 .. Len(short) PROVE short[i] \in 0 .. t
    <2>1. Len(long) \in Nat /\ Len(short) \in Nat /\ Len(short) <= Len(long)
          /\ DOMAIN short = 1 .. Len(short) /\ DOMAIN long = 1 .. Len(long)
      BY <1>1, EndsAre
    <2>2. Len(long) - Len(short) + i \in 1 .. Len(long)
      BY <1>2, <2>1, Shifted
    <2>3. short[i] = long[Len(long) - Len(short) + i]
      BY <1>2, <2>1 DEF EndOf
    <2>4. long[Len(long) - Len(short) + i] \in 0 .. t
      BY <2>1, <2>2
    <2>5. QED
      BY <2>3, <2>4
  <1>3. QED
    BY <1>2

LEMMA AppendKeepsEnd ==
    ASSUME NEW long \in Seq(Nat), NEW short \in Seq(Nat), EndOf(short, long), NEW x \in Nat
    PROVE  EndOf(Append(short, x), Append(long, x))
  <1> DEFINE s1 == Append(short, x)
             l1 == Append(long, x)
             d  == Len(long) - Len(short)
  <1>1. Len(long) \in Nat /\ Len(short) \in Nat /\ Len(short) <= Len(long)
        /\ DOMAIN short = 1 .. Len(short) /\ DOMAIN long = 1 .. Len(long)
    BY EndsAre
  <1>2. Len(s1) = Len(short) + 1 /\ Len(l1) = Len(long) + 1 /\ DOMAIN s1 = 1 .. Len(short) + 1
    OBVIOUS
  <1>3. /\ \A i \in 1 .. Len(short) : s1[i] = short[i]
        /\ \A i \in 1 .. Len(long) : l1[i] = long[i]
        /\ s1[Len(short) + 1] = x /\ l1[Len(long) + 1] = x
    OBVIOUS
  <1>4. d \in Nat /\ Len(l1) - Len(s1) = d /\ Len(s1) <= Len(l1) /\ d + (Len(short) + 1) = Len(long) + 1
    BY <1>1, <1>2
  <1>5. \A i \in 1 .. Len(short) : short[i] = long[d + i] /\ d + i \in 1 .. Len(long)
    <2> SUFFICES ASSUME NEW i \in 1 .. Len(short) PROVE short[i] = long[d + i] /\ d + i \in 1 .. Len(long)
      OBVIOUS
    <2>1. short[i] = long[d + i]
      BY <1>1 DEF EndOf
    <2>2. Len(long) - Len(short) + i \in 1 .. Len(long)
      BY <1>1, Shifted
    <2>3. QED
      BY <2>1, <2>2
  <1>6. \A i \in 1 .. Len(short) + 1 : i \in 1 .. Len(short) \/ i = Len(short) + 1
    BY <1>1
  <1> HIDE DEF s1, l1, d
  <1>7. \A i \in DOMAIN s1 : s1[i] = l1[d + i]
    BY <1>2, <1>3, <1>4, <1>5, <1>6
  <1>8. EndOf(s1, l1)
    BY <1>4, <1>7 DEF EndOf
  <1>9. QED
    BY <1>8 DEF s1, l1

LEMMA AppendAscends ==
    ASSUME NEW s \in Seq(Nat), Ascending(s), NEW x \in Nat, \A i \in DOMAIN s : s[i] <= x
    PROVE  Ascending(Append(s, x))
  <1> DEFINE a == Append(s, x)
  <1>1. Len(s) \in Nat /\ DOMAIN s = 1 .. Len(s) /\ DOMAIN a = 1 .. Len(s) + 1
        /\ a[Len(s) + 1] = x /\ \A i \in 1 .. Len(s) : a[i] = s[i]
    OBVIOUS
  <1> HIDE DEF a
  <1>2. \A i, j \in 1 .. Len(s) + 1 :
            i <= j => \/ i \in 1 .. Len(s) /\ j \in 1 .. Len(s)
                      \/ i \in 1 .. Len(s) /\ j = Len(s) + 1
                      \/ i = Len(s) + 1 /\ j = Len(s) + 1
    BY <1>1
  <1>3. ASSUME NEW i \in DOMAIN a, NEW j \in DOMAIN a, i <= j PROVE a[i] <= a[j]
    <2>1. CASE i \in 1 .. Len(s) /\ j \in 1 .. Len(s)
      BY <1>1, <1>3, <2>1 DEF Ascending
    <2>2. CASE i \in 1 .. Len(s) /\ j = Len(s) + 1
      BY <1>1, <2>2
    <2>3. CASE i = Len(s) + 1 /\ j = Len(s) + 1
      BY <1>1, <2>3
    <2>4. QED
      BY <1>1, <1>2, <1>3, <2>1, <2>2, <2>3
  <1>4. Ascending(a)
    BY <1>3 DEF Ascending
  <1>5. QED
    BY <1>4 DEF a

LEMMA WindowLater ==
    ASSUME MonitorTypeOK, WindowFollows
    PROVE  /\ Ascending(reconnects)
           /\ Within(reconnects) \in Seq(0 .. clock) /\ EndOf(Within(reconnects), drops)
           /\ \A i \in DOMAIN Within(reconnects) : Within(reconnects)[i] >= clock - StormWindow
           /\ LET w == Within(Append(reconnects, clock))
                  d == Append(drops, clock)
              IN  w \in Seq(0 .. clock) /\ EndOf(w, d) /\ Ascending(d)
  <1>1. clock \in Nat /\ reconnects \in Seq(Nat) /\ drops \in Seq(Nat)
        /\ drops \in Seq(0 .. clock) /\ \A i \in DOMAIN drops : drops[i] <= clock
    BY TimesAre, MonitorTypes
  <1>2. EndOf(reconnects, drops) /\ Ascending(drops)
    BY DEF WindowFollows
  <1>3. Ascending(reconnects)
    BY <1>1, <1>2, EndIsAscending
  <1>4. /\ Within(reconnects) \in Seq(Nat) /\ EndOf(Within(reconnects), reconnects)
        /\ \A i \in DOMAIN Within(reconnects) : Within(reconnects)[i] >= clock - StormWindow
    BY <1>1, <1>3, WithinIs
  <1>5. EndOf(Within(reconnects), drops)
    BY <1>1, <1>2, <1>4, EndOfEnd
  <1>6. Within(reconnects) \in Seq(0 .. clock)
    BY <1>1, <1>4, <1>5, EndOfTimes
  <1> DEFINE r == Append(reconnects, clock)
             d == Append(drops, clock)
  <1>7. EndOf(r, d) /\ Ascending(d)
    BY <1>1, <1>2, AppendKeepsEnd, AppendAscends
  <1>8. r \in Seq(Nat) /\ d \in Seq(Nat) /\ d \in Seq(0 .. clock)
    BY <1>1, TimesAre
  <1> HIDE DEF r, d
  <1>9. Ascending(r)
    BY <1>7, <1>8, EndIsAscending
  <1>10. Within(r) \in Seq(Nat) /\ EndOf(Within(r), r)
    BY <1>1, <1>8, <1>9, WithinIs
  <1>11. EndOf(Within(r), d)
    BY <1>7, <1>8, <1>10, EndOfEnd
  <1>12. Within(r) \in Seq(0 .. clock)
    BY <1>1, <1>8, <1>10, <1>11, EndOfTimes
  <1>13. QED
    BY <1>3, <1>4, <1>5, <1>6, <1>7, <1>11, <1>12 DEF r, d

-------------------------------------------------------------------------------
(* Monitoring, action by action.  Types, the receiver's window and the ticks *)
(* come first: they hold whatever fails.                                   *)

Basics == MonitorTypeOK /\ TicksFollow /\ WindowFollows /\ StormIsRecent

\* Nothing of the receiver's window moves.
LEMMA WindowStays ==
    ASSUME Basics, UNCHANGED <<reconnects, drops, beat>> PROVE WindowFollows' /\ StormIsRecent'
  BY DEF Basics, WindowFollows, StormIsRecent, EndOf, Ascending

LEMMA StartsBasics == ASSUME Basics, NEW s \in Services, Starts(s) PROVE Basics'
  <1>1. MonitorTypeOK /\ TicksFollow /\ WindowFollows
    BY DEF Basics
  <1>2. ScanTypes' /\ TicksFollow'
    BY <1>1, ScanStays DEF Starts
  <1>3. ServiceTypes'
    <2>1. clock \in 0 .. clock /\ clock' = clock
      BY <1>1, TimesAre DEF Starts
    <2>2. upSince' \in [Services -> {Down} \cup 0 .. clock]
      BY <1>1, <2>1, TypesInParts DEF Starts, ServiceTypes
    <2>3. reconnects' \in Seq(0 .. clock) /\ storming' \in BOOLEAN
      <3>1. reconnects \in Seq(0 .. clock) /\ storming \in BOOLEAN
        BY <1>1, MonitorTypes
      <3>2. \/ reconnects' = <<>> /\ storming' = FALSE
            \/ reconnects' = reconnects /\ storming' = storming
        BY DEF Starts
      <3>3. <<>> \in Seq(0 .. clock)
        OBVIOUS
      <3>4. QED
        BY <3>1, <3>2, <3>3
    <2>4. QED
      BY <1>1, <2>1, <2>2, <2>3, TypesInParts DEF Starts, ServiceTypes
  <1>4. MonitorTypeOK'
    BY <1>1, <1>2, <1>3, TypesInParts, TypesInPartsNext DEF Starts, scanVars
  <1>5. WindowFollows' /\ StormIsRecent'
    <2>1. CASE s = Receiver
      <3>1. reconnects' = <<>> /\ drops' = drops /\ beat' = beat
        BY <2>1 DEF Starts
      <3>2. Len(drops) \in Nat
        BY <1>1, TimesAre
      <3>3. EndOf(<<>>, drops)
        BY <3>2 DEF EndOf
      <3>4. QED
        BY <1>1, <3>1, <3>3 DEF Basics, WindowFollows, StormIsRecent, Ascending, EndOf
    <2>2. CASE s # Receiver
      BY <2>2, WindowStays DEF Starts
    <2>3. QED
      BY <2>1, <2>2
  <1>6. QED
    BY <1>2, <1>4, <1>5 DEF Basics

LEMMA HangsBasics == ASSUME Basics, NEW s \in Services, Hangs(s) PROVE Basics'
  <1>1. MonitorTypeOK /\ TicksFollow /\ WindowFollows
    BY DEF Basics
  <1>2. ScanTypes' /\ TicksFollow'
    BY <1>1, ScanStays DEF Hangs
  <1>3. ServiceTypes'
    BY <1>1, TypesInParts DEF Hangs, ServiceTypes
  <1>4. MonitorTypeOK'
    BY <1>1, <1>2, <1>3, TypesInParts, TypesInPartsNext DEF Hangs, scanVars
  <1>5. WindowFollows' /\ StormIsRecent'
    BY WindowStays DEF Hangs
  <1>6. QED
    BY <1>2, <1>4, <1>5 DEF Basics

LEMMA ReconnectsBasics == ASSUME Basics, Reconnects PROVE Basics'
  <1>1. MonitorTypeOK /\ TicksFollow /\ WindowFollows /\ StormIsRecent
    BY DEF Basics
  <1>2. ScanTypes' /\ TicksFollow'
    BY <1>1, ScanStays DEF Reconnects
  <1>3. /\ drops' = Append(drops, clock) /\ reconnects' = Within(Append(reconnects, clock))
        /\ clock' = clock /\ beat' = beat
    BY DEF Reconnects
  <1>4. drops' \in Seq(0 .. clock) /\ reconnects' \in Seq(0 .. clock)
        /\ EndOf(reconnects', drops') /\ Ascending(drops')
    BY <1>1, <1>3, TimesAre, WindowLater
  <1>5. ServiceTypes'
    <2>1. storming' \in BOOLEAN
      BY DEF Reconnects, IsStorm
    <2>2. QED
      BY <1>1, <1>3, <1>4, <2>1, TypesInParts DEF Reconnects, ServiceTypes
  <1>6. MonitorTypeOK'
    BY <1>1, <1>2, <1>5, TypesInParts, TypesInPartsNext DEF Reconnects, scanVars
  <1>7. /\ Len(drops) \in Nat /\ Len(drops') = Len(drops) + 1
        /\ \A i \in 1 .. Len(drops) : drops'[i] = drops[i]
    BY <1>1, <1>3, TimesAre
  <1>8. beat[Receiver].drops \in Nat /\ beat[Receiver].drops <= Len(drops)
    BY <1>1, MonitorBounds, MonitorTypes DEF WindowFollows, BeatsAt
  <1>9. WindowFollows'
    <2>1. beat'[Receiver].drops <= Len(drops')
      BY <1>3, <1>7, <1>8
    <2>2. QED
      BY <1>4, <2>1 DEF WindowFollows, EndOf, Ascending
  <1>10. StormIsRecent'
    <2>1. \A i \in 1 .. beat[Receiver].drops : drops'[i] = drops[i]
      BY <1>7, <1>8
    <2>2. {i \in 1 .. beat[Receiver].drops : drops'[i] >= beat[Receiver].at - StormWindow}
          = {i \in 1 .. beat[Receiver].drops : drops[i] >= beat[Receiver].at - StormWindow}
      BY <2>1
    <2>3. QED
      BY <1>1, <1>3, <2>2 DEF StormIsRecent
  <1>11. QED
    BY <1>2, <1>6, <1>9, <1>10 DEF Basics

LEMMA BeatsBasics == ASSUME Basics, NEW s \in Services, Beats(s) PROVE Basics'
  <1>1. MonitorTypeOK /\ TicksFollow /\ WindowFollows /\ StormIsRecent
    BY DEF Basics
  <1>2. ScanTypes' /\ TicksFollow' /\ clock' = clock /\ known' = known /\ drops' = drops
    BY <1>1, ScanStays DEF Beats, scanVars
  <1>3. /\ reconnects' \in Seq(0 .. clock) /\ storming' \in BOOLEAN
        /\ EndOf(reconnects', drops)
    <2>1. CASE s = Receiver
      <3>1. reconnects' = Within(reconnects) /\ storming' = StormNow(reconnects)
        BY <2>1 DEF Beats
      <3>2. QED
        BY <1>1, <3>1, WindowLater DEF StormNow, IsStorm
    <2>2. CASE s # Receiver
      BY <1>1, <2>2, TypesInParts DEF Beats, ServiceTypes, WindowFollows
    <2>3. QED
      BY <2>1, <2>2
  <1> DEFINE new == [at |-> clock, storm |-> s = Receiver /\ StormNow(reconnects),
                     drops |-> IF s = Receiver THEN Len(drops) ELSE 0]
  <1>4. beat' = [beat EXCEPT ![s] = new] \/ beat' = beat
    BY DEF Beats, Stamp
  <1>5. /\ new \in BeatsAt(clock) /\ new.at = clock /\ new.storm = (s = Receiver /\ StormNow(reconnects))
        /\ s = Receiver => new.drops = Len(drops)
    <2>1. clock \in -1 .. clock /\ Len(drops) \in Nat
      BY <1>1, TimesAre
    <2>2. (s = Receiver /\ StormNow(reconnects)) \in BOOLEAN
      BY Zenon
    <2> DEFINE storm == s = Receiver /\ StormNow(reconnects)
    <2> HIDE DEF storm
    <2>3. storm \in BOOLEAN => [at |-> clock, storm |-> storm, drops |-> IF s = Receiver THEN Len(drops) ELSE 0]
                               \in BeatsAt(clock)
      BY <2>1 DEF BeatsAt
    <2>4. QED
      BY <2>2, <2>3 DEF storm
  <1> HIDE DEF new
  <1>6. beat' \in [Services -> BeatsAt(clock)]
    BY <1>1, <1>4, <1>5, MonitorTypes
  <1>7. ServiceTypes'
    BY <1>1, <1>2, <1>3, <1>6, TypesInParts DEF Beats, ServiceTypes
  <1>8. \A u \in Services : known'[u].at <= beat'[u].at
    <2>1. \A u \in Services : known[u].at <= beat[u].at /\ known[u].at \in Int /\ known[u].at <= clock
      BY <1>1, MonitorTypes, TimesAre DEF BeatsAt
    <2>2. beat \in [Services -> BeatsAt(clock)]
      BY <1>1, MonitorTypes
    <2>3. QED
      BY <1>2, <1>4, <1>5, <2>1, <2>2
  <1>9. failures' \in Nat
    BY <1>1, MonitorTypes DEF Beats, Fault
  <1>10. MonitorTypeOK'
    BY <1>1, <1>2, <1>7, <1>8, <1>9, TypesInParts, TypesInPartsNext DEF Beats
  <1>11. \/ s = Receiver /\ beat'[Receiver] = new
         \/ beat'[Receiver] = beat[Receiver]
    <2>1. beat \in [Services -> BeatsAt(clock)]
      BY <1>1, MonitorTypes
    <2>2. QED
      BY <1>4, <2>1, MonitorBounds
  <1>12. WindowFollows'
    <2>1. Len(drops) \in Nat
      BY <1>1, TimesAre
    <2>2. beat'[Receiver].drops <= Len(drops)
      BY <1>1, <1>5, <1>11, <2>1 DEF WindowFollows
    <2>3. QED
      BY <1>1, <1>2, <1>3, <2>2 DEF WindowFollows, EndOf, Ascending
  <1>13. StormIsRecent'
    <2>1. CASE beat'[Receiver] = beat[Receiver]
      BY <1>1, <1>2, <2>1 DEF StormIsRecent
    <2>2. CASE s = Receiver /\ beat'[Receiver] = new
      <3>1. SUFFICES ASSUME new.storm
                     PROVE  Cardinality({i \in 1 .. Len(drops) : drops[i] >= clock - StormWindow}) >= StormSize
        BY <1>2, <1>5, <2>2 DEF StormIsRecent
      <3>2. Len(Within(reconnects)) >= StormSize
        BY <1>5, <3>1 DEF StormNow, IsStorm
      <3>3. /\ drops \in Seq(Nat) /\ Within(reconnects) \in Seq(Nat)
            /\ clock - StormWindow \in Int /\ StormSize \in Nat
        BY <1>1, TimesAre, WindowLater, OneRoundLater, MonitorBounds
      <3>4. QED
        BY <1>1, <3>2, <3>3, WindowLater, StormSeen
    <2>3. QED
      BY <1>11, <2>1, <2>2
  <1>14. QED
    BY <1>2, <1>10, <1>12, <1>13 DEF Basics

LEMMA RoundEndsBasics == ASSUME Basics, RoundEnds PROVE Basics'
  <1>1. MonitorTypeOK' /\ TicksFollow'
    BY RoundEndsTypes DEF Basics
  <1>2. WindowFollows' /\ StormIsRecent'
    BY WindowStays DEF RoundEnds
  <1>3. QED
    BY <1>1, <1>2 DEF Basics

LEMMA DeadLetterBasics == ASSUME Basics, DeadLetter PROVE Basics'
  <1>1. MonitorTypeOK /\ TicksFollow
    BY DEF Basics
  <1>2. ScanTypes' /\ TicksFollow' /\ ServiceTypes'
    BY <1>1, ScanStays, ServicesStay DEF DeadLetter
  <1>3. dead' \in 0 .. MaxDead
    BY <1>1, MonitorTypes, MonitorBounds DEF DeadLetter
  <1>4. letters' \in Seq(0 .. clock')
    BY <1>1, TimesAre DEF DeadLetter
  <1>5. MonitorTypeOK'
    BY <1>1, <1>2, <1>3, <1>4, TypesInParts, TypesInPartsNext DEF DeadLetter, scanVars, serviceVars
  <1>6. WindowFollows' /\ StormIsRecent'
    BY WindowStays DEF DeadLetter, serviceVars
  <1>7. QED
    BY <1>2, <1>5, <1>6 DEF Basics

LEMMA MonitorStartsBasics == ASSUME Basics, MonitorStarts PROVE Basics'
  <1>1. MonitorTypeOK /\ TicksFollow
    BY DEF Basics
  <1>2. ServiceTypes'
    BY <1>1, ServicesStay DEF MonitorStarts
  <1>3. clock' = clock /\ started' = clock /\ step' = "due" /\ ticks' = ticks /\ ticks = 0
    BY <1>1 DEF MonitorStarts, TicksFollow
  <1>4. clock \in 0 .. clock /\ clock - clock = 0
    BY <1>1, TimesAre
  <1>5. ScanTypes'
    BY <1>1, <1>3, <1>4, TypesInParts DEF MonitorStarts, ScanTypes
  <1>6. TicksFollow'
    BY <1>3, <1>4 DEF TicksFollow
  <1>7. MonitorTypeOK'
    BY <1>1, <1>2, <1>5, TypesInParts, TypesInPartsNext DEF MonitorStarts, serviceVars
  <1>8. WindowFollows' /\ StormIsRecent'
    BY WindowStays DEF MonitorStarts, serviceVars
  <1>9. QED
    BY <1>6, <1>7, <1>8 DEF Basics

LEMMA AbsorbBasics == ASSUME Basics, Absorb PROVE Basics'
  <1>1. MonitorTypeOK /\ TicksFollow
    BY DEF Basics
  <1>2. ServiceTypes'
    BY <1>1, ServicesStay DEF Absorb
  <1>3. /\ clock' = clock /\ started' = started /\ step' = "absorbed" /\ ticks' = ticks + 1
        /\ step = "due" /\ lastAlert' = lastAlert /\ raised' = raised /\ samples' = samples /\ beat' = beat
    BY DEF Absorb, serviceVars
  <1>4. ticks = clock - started /\ started \in 0 .. clock /\ clock \in 0 .. MaxTime
    BY <1>1, <1>3, MonitorTypes DEF TicksFollow
  <1>5. ticks' \in 0 .. MaxTime + 1 /\ ticks' = clock - started + 1 /\ 1 .. ticks \subseteq 1 .. ticks'
    BY <1>3, <1>4, MonitorBounds
  <1>6. TicksFollow'
    BY <1>3, <1>5 DEF TicksFollow
  <1>7. known' \in [Services -> BeatsAt(clock)] /\ \A s \in Services : known'[s].at <= beat'[s].at
    <2>1. known' = beat \/ known' = known
      BY DEF Absorb
    <2>2. \A s \in Services : beat[s].at \in Int
      BY <1>1, MonitorTypes, TimesAre DEF BeatsAt
    <2>3. QED
      BY <1>1, <1>3, <2>1, <2>2, MonitorTypes
  <1>8. lastAlert' \in [Keys -> {-Repeat} \cup 1 .. ticks']
    BY <1>1, <1>3, <1>5, MonitorTypes
  <1>9. ScanTypes'
    BY <1>1, <1>3, <1>5, <1>7, <1>8, TypesInParts DEF ScanTypes
  <1>10. failures' \in Nat
    BY <1>1, MonitorTypes DEF Absorb, Fault
  <1>11. MonitorTypeOK'
    BY <1>1, <1>2, <1>7, <1>9, <1>10, TypesInParts, TypesInPartsNext DEF Absorb
  <1>12. WindowFollows' /\ StormIsRecent'
    BY WindowStays DEF Absorb, serviceVars
  <1>13. QED
    BY <1>6, <1>11, <1>12 DEF Basics

\* The sample a tick takes, and the log it writes.
Sampled == Append(samples, [at |-> clock, len |-> dead])

LEMMA EvaluateIs ==
    ASSUME MonitorTypeOK, TicksFollow, Evaluate
    PROVE  /\ step = "absorbed" /\ step' = "done" /\ ticks' = ticks /\ clock' = clock /\ started' = started
           /\ known' = known /\ letters' = letters /\ dead' = dead /\ beat' = beat /\ turned' = turned
           /\ upSince' = upSince /\ hangs' = hangs /\ raised' \subseteq Keys
           /\ samples' \in {samples, Sampled} /\ failures' \in {failures, failures + 1}
           /\ failures' = failures => samples' = Sampled /\ raised' = Alerts(Sampled)
           /\ lastAlert' \in [Keys -> {-Repeat} \cup 1 .. ticks]
           /\ \A alert \in raised' : ticks - lastAlert'[alert] < Repeat
           /\ ticks = clock - started + 1 /\ ticks >= 1
  <1>1. /\ step = "absorbed" /\ step' = "done" /\ ticks' = ticks /\ clock' = clock /\ started' = started
        /\ known' = known /\ letters' = letters /\ dead' = dead /\ beat' = beat /\ turned' = turned
        /\ upSince' = upSince /\ hangs' = hangs
    BY DEF Evaluate, serviceVars
  <1>2. /\ raised' \subseteq Keys
        /\ samples' \in {samples, Sampled} /\ failures' \in {failures, failures + 1}
        /\ failures' = failures => samples' = Sampled /\ raised' = Alerts(Sampled)
    <2>1. failures \in Nat
      BY MonitorTypes
    <2>2. failures + 1 # failures
      BY <2>1
    <2>3. \A all : Alerts(all) \subseteq Keys
      BY DEF Alerts
    <2>4. \/ samples' = Sampled /\ raised' = Alerts(Sampled) /\ failures' = failures
          \/ raised' = Alerts(samples) /\ failures' = failures + 1 /\ samples' = samples
          \/ samples' = Sampled /\ raised' = {} /\ failures' = failures + 1
      BY DEF Evaluate, Sampled, Fault
    <2>5. QED
      BY <2>2, <2>3, <2>4
  <1>3. ticks = clock - started + 1 /\ ticks >= 1 /\ ticks \in Nat /\ ticks \in 1 .. ticks
    <2>1. ticks = clock - started + 1
      BY <1>1 DEF TicksFollow
    <2>2. clock \in Nat /\ started \in 0 .. clock
      BY MonitorTypes, TimesAre
    <2>3. QED
      BY <2>1, <2>2
  <1>4. lastAlert' = [alert \in Keys |-> IF alert \in raised' /\ ticks - lastAlert[alert] >= Repeat
                                       THEN ticks ELSE lastAlert[alert]]
    BY DEF Evaluate
  <1>5. lastAlert' \in [Keys -> {-Repeat} \cup 1 .. ticks]
    <2>1. lastAlert \in [Keys -> {-Repeat} \cup 1 .. ticks]
      BY MonitorTypes
    <2>2. QED
      BY <1>3, <1>4, <2>1
  <1>6. ASSUME NEW alert \in raised' PROVE ticks - lastAlert'[alert] < Repeat
    <2>1. alert \in Keys
      BY <1>2
    <2>2. lastAlert[alert] \in Int
      <3>1. lastAlert[alert] \in {-Repeat} \cup 1 .. ticks
        BY <2>1, MonitorTypes
      <3>2. QED
        BY <3>1, MonitorBounds
    <2>3. lastAlert'[alert] = IF ticks - lastAlert[alert] >= Repeat THEN ticks ELSE lastAlert[alert]
      BY <1>4, <2>1
    <2>4. \A t, l, r \in Int : r >= 1 => t - (IF t - l >= r THEN t ELSE l) < r
      OBVIOUS
    <2>5. QED
      BY <1>3, <2>2, <2>3, <2>4, MonitorBounds
  <1>7. QED
    BY <1>1, <1>2, <1>3, <1>5, <1>6

LEMMA EvaluateBasics == ASSUME Basics, Evaluate PROVE Basics'
  <1>1. MonitorTypeOK /\ TicksFollow
    BY DEF Basics
  <1>2. ServiceTypes'
    BY <1>1, ServicesStay DEF Evaluate
  <1>3. /\ step' = "done" /\ ticks' = ticks /\ clock' = clock /\ started' = started /\ known' = known
        /\ letters' = letters /\ dead' = dead /\ beat' = beat /\ hangs' = hangs /\ raised' \subseteq Keys
        /\ samples' \in {samples, Sampled} /\ failures' \in {failures, failures + 1}
        /\ lastAlert' \in [Keys -> {-Repeat} \cup 1 .. ticks] /\ ticks = clock - started + 1
    BY <1>1, EvaluateIs
  <1>4. samples' \in Seq([at: 0 .. clock, len: 0 .. MaxDead])
    <2>1. /\ samples \in Seq([at: 0 .. clock, len: 0 .. MaxDead])
          /\ [at |-> clock, len |-> dead] \in [at: 0 .. clock, len: 0 .. MaxDead]
      BY <1>1, MonitorTypes, TimesAre
    <2>2. \A S : \A s \in Seq(S) : \A x \in S : Append(s, x) \in Seq(S)
      OBVIOUS
    <2>3. Sampled \in Seq([at: 0 .. clock, len: 0 .. MaxDead])
      BY <2>1, <2>2 DEF Sampled
    <2>4. QED
      BY <1>3, <2>1, <2>3
  <1>5. ScanTypes'
    BY <1>1, <1>3, <1>4, TypesInParts DEF ScanTypes
  <1>6. failures' \in Nat
    BY <1>1, <1>3, MonitorTypes
  <1>7. MonitorTypeOK'
    BY <1>1, <1>2, <1>3, <1>5, <1>6, TypesInParts, TypesInPartsNext
  <1>8. TicksFollow'
    BY <1>3 DEF TicksFollow
  <1>9. WindowFollows' /\ StormIsRecent'
    BY WindowStays DEF Evaluate, serviceVars
  <1>10. QED
    BY <1>7, <1>8, <1>9 DEF Basics

LEMMA BasicsKeep == ASSUME Basics, MonitorNext PROVE Basics'
  BY StartsBasics, HangsBasics, ReconnectsBasics, BeatsBasics, RoundEndsBasics, DeadLetterBasics,
     MonitorStartsBasics, AbsorbBasics, EvaluateBasics DEF MonitorNext

-------------------------------------------------------------------------------
(* Monitoring: what was written to a dead letter stream, and what is counted *)
(* of it.                                                                  *)

LettersTo(t) == {j \in DOMAIN letters : letters[j] <= t}

LEMMA LettersAre ==
    ASSUME MonitorTypeOK
    PROVE  /\ Len(letters) \in Nat /\ DOMAIN letters = 1 .. Len(letters)
           /\ IsFiniteSet(DOMAIN letters) /\ Cardinality(DOMAIN letters) = Len(letters)
           /\ \A j \in DOMAIN letters : letters[j] \in 0 .. clock
           /\ \A S \in SUBSET DOMAIN letters :
                IsFiniteSet(S) /\ Cardinality(S) \in Nat /\ Cardinality(S) <= Len(letters)
  <1>1. Len(letters) \in Nat /\ DOMAIN letters = 1 .. Len(letters)
    BY MonitorTypes
  <1>2. IsFiniteSet(1 .. Len(letters)) /\ Cardinality(1 .. Len(letters)) = Len(letters)
    <2>1. 1 \in Int /\ Len(letters) \in Int
      BY <1>1
    <2>2. IsFiniteSet(1 .. Len(letters))
          /\ Cardinality(1 .. Len(letters)) = IF 1 > Len(letters) THEN 0 ELSE Len(letters) - 1 + 1
      BY <2>1, FS_Interval
    <2>3. \A n \in Nat : (IF 1 > n THEN 0 ELSE n - 1 + 1) = n
      OBVIOUS
    <2>4. QED
      BY <1>1, <2>2, <2>3
  <1>3. \A j \in DOMAIN letters : letters[j] \in 0 .. clock
    <2>1. \A S : \A s \in Seq(S) : \A i \in DOMAIN s : s[i] \in S
      OBVIOUS
    <2>2. letters \in Seq(0 .. clock)
      BY MonitorTypes
    <2>3. QED
      BY <2>1, <2>2
  <1>4. ASSUME NEW S \in SUBSET DOMAIN letters
        PROVE  IsFiniteSet(S) /\ Cardinality(S) \in Nat /\ Cardinality(S) <= Len(letters)
    BY <1>1, <1>2, FS_Subset, FS_CardinalityType
  <1>5. QED
    BY <1>1, <1>2, <1>3, <1>4

\* A letter of now is one letter more, later than those before.
LEMMA OneLetterMore ==
    ASSUME MonitorTypeOK, letters' = Append(letters, clock)
    PROVE  /\ Len(letters') = Len(letters) + 1 /\ DOMAIN letters' = DOMAIN letters \cup {Len(letters) + 1}
           /\ letters'[Len(letters) + 1] = clock
           /\ \A j \in DOMAIN letters : letters'[j] = letters[j]
  <1>1. letters \in Seq(Nat) /\ clock \in Nat /\ Len(letters) \in Nat /\ DOMAIN letters = 1 .. Len(letters)
    BY TimesAre, LettersAre
  <1>2. /\ Len(letters') = Len(letters) + 1 /\ letters'[Len(letters) + 1] = clock
        /\ DOMAIN letters' = 1 .. Len(letters) + 1
        /\ \A j \in 1 .. Len(letters) : letters'[j] = letters[j]
    BY <1>1
  <1>3. \A n \in Nat : 1 .. n + 1 = 1 .. n \cup {n + 1}
    OBVIOUS
  <1>4. QED
    BY <1>1, <1>2, <1>3

\* A sample, and those there are after one more.
LEMMA SampleIs ==
    ASSUME MonitorTypeOK, NEW i \in DOMAIN samples
    PROVE  samples[i].at \in 0 .. clock /\ samples[i].len \in Nat /\ samples[i].len <= MaxDead
  <1>1. \A S : \A s \in Seq(S) : \A k \in DOMAIN s : s[k] \in S
    OBVIOUS
  <1>2. samples \in Seq([at: 0 .. clock, len: 0 .. MaxDead])
    BY MonitorTypes
  <1>3. samples[i] \in [at: 0 .. clock, len: 0 .. MaxDead]
    BY <1>1, <1>2
  <1>4. QED
    BY <1>3, MonitorBounds

LEMMA SampledIs ==
    ASSUME MonitorTypeOK
    PROVE  /\ Len(samples) \in Nat /\ DOMAIN samples = 1 .. Len(samples)
           /\ Len(Sampled) = Len(samples) + 1 /\ DOMAIN Sampled = DOMAIN samples \cup {Len(samples) + 1}
           /\ Sampled[Len(samples) + 1] = [at |-> clock, len |-> dead]
           /\ \A i \in DOMAIN samples : Sampled[i] = samples[i]
  <1>1. \A S : \A s \in Seq(S) : \A x : /\ Len(s) \in Nat /\ DOMAIN s = 1 .. Len(s)
                                        /\ Len(Append(s, x)) = Len(s) + 1
                                        /\ DOMAIN Append(s, x) = 1 .. Len(s) + 1
                                        /\ Append(s, x)[Len(s) + 1] = x
                                        /\ \A i \in 1 .. Len(s) : Append(s, x)[i] = s[i]
    <2> SUFFICES ASSUME NEW S, NEW s \in Seq(S), NEW x
                 PROVE  /\ Len(s) \in Nat /\ DOMAIN s = 1 .. Len(s)
                        /\ Len(Append(s, x)) = Len(s) + 1
                        /\ DOMAIN Append(s, x) = 1 .. Len(s) + 1
                        /\ Append(s, x)[Len(s) + 1] = x
                        /\ \A i \in 1 .. Len(s) : Append(s, x)[i] = s[i]
      OBVIOUS
    <2>1. \A A, B : A \subseteq B => Seq(A) \subseteq Seq(B)
      BY SeqWider
    <2>2. s \in Seq(S \cup {x}) /\ x \in S \cup {x}
      BY <2>1
    <2>3. QED
      BY <2>2
  <1>2. samples \in Seq([at: 0 .. clock, len: 0 .. MaxDead])
    BY MonitorTypes
  <1>3. \A n \in Nat : 1 .. n + 1 = 1 .. n \cup {n + 1}
    OBVIOUS
  <1>4. QED
    BY <1>1, <1>2, <1>3 DEF Sampled

LEMMA MonitorTypesAfter ==
    ASSUME MonitorTypeOK' PROVE DOMAIN letters' = 1 .. Len(letters') /\ Len(letters') \in Nat
  BY DEF MonitorTypeOK

LEMMA DeadLetterCounted ==
    ASSUME MonitorTypeOK, MonitorTypeOK', LettersCounted, DeadLetter PROVE LettersCounted'
  <1>1. letters' = Append(letters, clock) /\ dead' = (IF dead < MaxDead THEN dead + 1 ELSE dead)
        /\ samples' = samples
    BY DEF DeadLetter, scanVars
  <1>2. Len(letters) \in Nat /\ dead \in Nat /\ dead <= MaxDead /\ MaxDead \in Nat
    BY LettersAre, MonitorTypes, MonitorBounds
  <1>3. dead' <= Len(letters') /\ (dead' < MaxDead => dead' = Len(letters'))
    <2>1. Len(letters') = Len(letters) + 1
      BY <1>1, OneLetterMore
    <2>2. dead <= Len(letters) /\ (dead < MaxDead => dead = Len(letters))
      BY DEF LettersCounted
    <2>3. QED
      BY <1>1, <1>2, <2>1, <2>2
  <1>4. ASSUME NEW i \in DOMAIN samples
        PROVE  samples[i].len <= Cardinality({j \in DOMAIN letters' : letters'[j] <= samples[i].at})
    <2> DEFINE A == {j \in DOMAIN letters : letters[j] <= samples[i].at}
               B == {j \in DOMAIN letters' : letters'[j] <= samples[i].at}
    <2>1. A \subseteq B
      BY <1>1, OneLetterMore
    <2>2. IsFiniteSet(B) /\ Cardinality(B) \in Nat /\ Cardinality(A) \in Nat
      <3>1. DOMAIN letters' = 1 .. Len(letters') /\ Len(letters') \in Nat
        BY MonitorTypesAfter
      <3>2. IsFiniteSet(1 .. Len(letters'))
        BY <3>1, FS_Interval
      <3>3. B \subseteq 1 .. Len(letters') /\ A \in SUBSET DOMAIN letters
        BY <3>1
      <3> HIDE DEF A, B
      <3>4. QED
        BY <3>2, <3>3, LettersAre, FS_Subset, FS_CardinalityType
    <2>3. samples[i].len <= Cardinality(A)
      BY DEF LettersCounted
    <2>4. samples[i].len \in Nat
      BY SampleIs
    <2> HIDE DEF A, B
    <2>5. Cardinality(A) <= Cardinality(B)
      BY <2>1, <2>2, FS_Subset
    <2>6. samples[i].len <= Cardinality(B)
      BY <2>2, <2>3, <2>4, <2>5
    <2>7. QED
      BY <2>6 DEF B
  <1>5. QED
    BY <1>1, <1>3, <1>4 DEF LettersCounted

LEMMA EvaluateCounted ==
    ASSUME MonitorTypeOK, TicksFollow, LettersCounted, Evaluate PROVE LettersCounted'
  <1>1. letters' = letters /\ dead' = dead /\ samples' \in {samples, Sampled}
    BY EvaluateIs
  <1>2. dead <= Cardinality({j \in DOMAIN letters : letters[j] <= clock})
    <2>1. {j \in DOMAIN letters : letters[j] <= clock} = DOMAIN letters
      <3>1. \A j \in DOMAIN letters : letters[j] <= clock
        BY LettersAre, TimesAre
      <3>2. QED
        BY <3>1
    <2>2. QED
      BY <2>1, LettersAre DEF LettersCounted
  <1>3. ASSUME NEW i \in DOMAIN Sampled
        PROVE  Sampled[i].len <= Cardinality({j \in DOMAIN letters : letters[j] <= Sampled[i].at})
    <2>1. CASE i \in DOMAIN samples
      BY <2>1, SampledIs DEF LettersCounted
    <2>2. CASE i = Len(samples) + 1
      <3>1. Sampled[i].at = clock /\ Sampled[i].len = dead
        BY <2>2, SampledIs
      <3> DEFINE x == Sampled[i]
      <3>2. x.at = clock /\ x.len = dead
        BY <3>1
      <3> HIDE DEF x
      <3>3. x.len <= Cardinality({j \in DOMAIN letters : letters[j] <= x.at})
        BY <1>2, <3>2
      <3>4. QED
        BY <3>3 DEF x
    <2>3. QED
      BY <2>1, <2>2, SampledIs
  <1>4. QED
    BY <1>1, <1>3 DEF LettersCounted

LEMMA LettersKeep ==
    ASSUME Basics, LettersCounted, MonitorNext PROVE LettersCounted'
  <1>1. MonitorTypeOK /\ TicksFollow /\ MonitorTypeOK'
    BY BasicsKeep DEF Basics
  <1>2. CASE DeadLetter
    BY <1>1, <1>2, DeadLetterCounted
  <1>3. CASE Evaluate
    BY <1>1, <1>3, EvaluateCounted
  <1>4. CASE UNCHANGED <<letters, dead, samples>>
    BY <1>4 DEF LettersCounted
  <1>5. RoundEnds \/ Reconnects \/ (\E s \in Services : Starts(s) \/ Hangs(s) \/ Beats(s)) \/ MonitorStarts \/ Absorb
        => UNCHANGED <<letters, dead, samples>>
    BY DEF RoundEnds, Reconnects, Starts, Hangs, Beats, MonitorStarts, Absorb, scanVars, serviceVars
  <1>6. QED
    BY <1>2, <1>3, <1>4, <1>5 DEF MonitorNext

-------------------------------------------------------------------------------
(* Monitoring, while nothing fails: what the monitor knows and has logged.  *)

Quiet == BeatsFollow /\ SilenceLogged /\ SamplesFollow /\ NoFalseAlarm /\ SpikeNoticed

LEMMA BeatsStay ==
    ASSUME BeatsFollow, UNCHANGED <<clock, upSince, turned, beat, known, step>> PROVE BeatsFollow'
  BY DEF BeatsFollow, Running

LEMMA LogStays ==
    ASSUME SilenceLogged, UNCHANGED <<clock, step, started, ticks, lastAlert, beat>> PROVE SilenceLogged'
  BY DEF SilenceLogged, Logged

LEMMA SamplesStay ==
    ASSUME SamplesFollow, UNCHANGED <<step, ticks, samples, started>> PROVE SamplesFollow'
  BY DEF SamplesFollow

LEMMA AlarmStays ==
    ASSUME NoFalseAlarm, UNCHANGED <<clock, upSince, raised, failures>> PROVE NoFalseAlarm'
  BY DEF NoFalseAlarm, Running

LEMMA SpikeStays ==
    ASSUME SpikeNoticed, UNCHANGED <<clock, step, started, dead, letters, ticks, lastAlert, failures>>
    PROVE  SpikeNoticed'
  BY DEF SpikeNoticed, Logged

LEMMA NoSpikeBefore == ASSUME step' # "done" PROVE SpikeNoticed' /\ SilenceLogged'
  BY DEF SpikeNoticed, SilenceLogged

\* Services.
LEMMA UpIs ==
    ASSUME MonitorTypeOK, NEW s \in Services
    PROVE  /\ upSince[s] \in Int /\ upSince[s] <= clock /\ clock \in Nat
           /\ Running(s) => upSince[s] \in Nat
           /\ beat[s].at \in Int /\ known[s].at \in Int /\ -1 <= known[s].at
           /\ known[s].at <= beat[s].at /\ beat[s].at <= clock
  <1>1. clock \in Nat
    BY TimesAre
  <1>2. upSince[s] \in {-1} \cup 0 .. clock
    BY MonitorTypes DEF Down
  <1>3. beat[s] \in BeatsAt(clock) /\ known[s] \in BeatsAt(clock) /\ known[s].at <= beat[s].at
    BY MonitorTypes
  <1>4. beat[s].at \in -1 .. clock /\ known[s].at \in -1 .. clock
    BY <1>3 DEF BeatsAt
  <1>5. QED
    BY <1>1, <1>2, <1>3, <1>4 DEF Running, Down

LEMMA StartsQuiet ==
    ASSUME MonitorTypeOK, Quiet, NEW s \in Services, Starts(s) PROVE Quiet'
  <1>1. BeatsFollow /\ SilenceLogged /\ SamplesFollow /\ NoFalseAlarm /\ SpikeNoticed
    BY DEF Quiet
  <1>2. /\ clock' = clock /\ upSince' = [upSince EXCEPT ![s] = clock] /\ UNCHANGED <<turned, beat, dead, letters, failures>>
        /\ UNCHANGED <<step, started, ticks, known, samples, lastAlert, raised>>
    BY DEF Starts, scanVars
  <1>3. \A u \in Services : \/ upSince'[u] = upSince[u]
                            \/ ~(upSince'[u] < clock)
    BY <1>2, MonitorTypes, TimesAre
  <1>4. BeatsFollow'
    BY <1>1, <1>2, <1>3 DEF BeatsFollow, Running
  <1>5. NoFalseAlarm'
    BY <1>1, <1>2, <1>3 DEF NoFalseAlarm, Running
  <1>6. QED
    BY <1>1, <1>2, <1>4, <1>5, LogStays, SamplesStay, SpikeStays DEF Quiet

LEMMA HangsQuiet ==
    ASSUME MonitorTypeOK, Quiet, NEW s \in Services, Hangs(s) PROVE Quiet'
  <1>1. BeatsFollow /\ SilenceLogged /\ SamplesFollow /\ NoFalseAlarm /\ SpikeNoticed
    BY DEF Quiet
  <1>2. /\ clock' = clock /\ upSince' = [upSince EXCEPT ![s] = Down] /\ UNCHANGED <<turned, beat, dead, letters, failures>>
        /\ UNCHANGED <<step, started, ticks, known, samples, lastAlert, raised>>
    BY DEF Hangs, scanVars
  <1>3. \A u \in Services : upSince'[u] = upSince[u] \/ upSince'[u] = Down
    BY <1>2, MonitorTypes
  <1>4. BeatsFollow'
    BY <1>1, <1>2, <1>3 DEF BeatsFollow, Running
  <1>5. NoFalseAlarm'
    BY <1>1, <1>2, <1>3 DEF NoFalseAlarm, Running
  <1>6. QED
    BY <1>1, <1>2, <1>4, <1>5, LogStays, SamplesStay, SpikeStays DEF Quiet

LEMMA ReconnectsQuiet == ASSUME Quiet, Reconnects PROVE Quiet'
  <1>1. UNCHANGED <<clock, upSince, turned, beat, dead, letters, failures>>
        /\ UNCHANGED <<step, started, ticks, known, samples, lastAlert, raised>>
    BY DEF Reconnects, scanVars
  <1>2. QED
    BY <1>1, BeatsStay, LogStays, SamplesStay, AlarmStays, SpikeStays DEF Quiet

\* The first heartbeat or the next one.
LEMMA BeatsQuiet ==
    ASSUME MonitorTypeOK, Quiet, NEW s \in Services, Beats(s), failures' = failures PROVE Quiet'
  <1>1. BeatsFollow /\ SilenceLogged /\ SamplesFollow /\ NoFalseAlarm /\ SpikeNoticed
    BY DEF Quiet
  <1>2. /\ clock' = clock /\ turned' = turned \cup {s} /\ UNCHANGED <<upSince, dead, letters>>
        /\ UNCHANGED <<step, started, ticks, known, samples, lastAlert, raised>>
    BY DEF Beats, scanVars
  <1>3. beat'[s].at = clock /\ \A u \in Services : beat'[u] = beat[u] \/ beat'[u].at = clock
    <2>1. failures \in Nat
      BY MonitorTypes
    <2> DEFINE new == [at |-> clock, storm |-> s = Receiver /\ StormNow(reconnects),
                       drops |-> IF s = Receiver THEN Len(drops) ELSE 0]
    <2>2. new.at = clock
      OBVIOUS
    <2>3. beat' = [beat EXCEPT ![s] = new]
      BY <2>1 DEF Beats, Fault, Stamp
    <2>4. beat \in [Services -> BeatsAt(clock)]
      BY MonitorTypes
    <2> HIDE DEF new
    <2>5. QED
      BY <2>2, <2>3, <2>4
  <1>4. BeatsFollow'
    <2>1. clock \in Nat /\ clock >= clock - 1
      BY TimesAre
    <2>2. \A u \in turned : u \in Services
      BY MonitorTypes
    <2>3. \A u \in turned' : beat'[u].at = clock'
      BY <1>1, <1>2, <1>3, <2>2 DEF BeatsFollow
    <2>4. QED
      BY <1>1, <1>2, <1>3, <2>1, <2>3 DEF BeatsFollow, Running
  <1>5. SilenceLogged'
    <2>1. \A u \in Services : beat'[u] = beat[u] \/ ~(clock - beat'[u].at > Threshold)
      BY <1>3, TimesAre, MonitorBounds
    <2>2. QED
      BY <1>1, <1>2, <2>1 DEF SilenceLogged, Logged
  <1>6. QED
    BY <1>1, <1>2, <1>4, <1>5, SamplesStay, AlarmStays, SpikeStays DEF Quiet

LEMMA RoundEndsQuiet ==
    ASSUME MonitorTypeOK, Quiet, RoundEnds PROVE Quiet'
  <1>1. BeatsFollow /\ SilenceLogged /\ SamplesFollow
    BY DEF Quiet
  <1>2. /\ clock' = clock + 1 /\ turned' = {} /\ raised' = {} /\ clock \in Nat
        /\ step \in {"off", "done"} /\ step' = (IF step = "off" THEN "off" ELSE "due")
        /\ UNCHANGED <<upSince, beat, started, ticks, known, samples>>
        /\ \A s \in Services : Running(s) => s \in turned
    BY TimesAre DEF RoundEnds
  <1>3. BeatsFollow'
    <2>1. clock' - 1 = clock
      BY <1>2
    <2>2. ASSUME NEW s \in Services, Running(s)' PROVE beat'[s].at >= clock' - 1
      <3>1. Running(s)
        BY <1>2, <2>2 DEF Running
      <3>2. beat[s].at = clock
        BY <1>1, <1>2, <3>1 DEF BeatsFollow
      <3>3. QED
        BY <1>2, <2>1, <3>2
    <2>3. QED
      BY <1>2, <2>2 DEF BeatsFollow
  <1>4. step' # "done"
    BY <1>2
  <1>5. SamplesFollow'
    BY <1>1, <1>2 DEF SamplesFollow
  <1>6. NoFalseAlarm'
    BY <1>2 DEF NoFalseAlarm
  <1>7. QED
    BY <1>3, <1>4, <1>5, <1>6, NoSpikeBefore DEF Quiet

LEMMA MonitorStartsQuiet ==
    ASSUME MonitorTypeOK, TicksFollow, Quiet, MonitorStarts PROVE Quiet'
  <1>1. BeatsFollow /\ SamplesFollow /\ NoFalseAlarm
    BY DEF Quiet
  <1>2. /\ step = "off" /\ step' = "due" /\ UNCHANGED <<clock, upSince, turned, beat, known, ticks, samples, raised, failures>>
    BY DEF MonitorStarts, serviceVars
  <1>3. BeatsFollow'
    BY <1>1, <1>2 DEF BeatsFollow, Running
  <1>4. SamplesFollow'
    <2>1. Len(samples) = 0
      BY <1>1, <1>2 DEF SamplesFollow, TicksFollow
    <2>2. DOMAIN samples = {}
      BY <2>1, SampledIs
    <2>3. QED
      BY <1>1, <1>2, <2>2 DEF SamplesFollow
  <1>5. QED
    BY <1>1, <1>2, <1>3, <1>4, AlarmStays, NoSpikeBefore DEF Quiet

LEMMA AbsorbQuiet ==
    ASSUME MonitorTypeOK, Quiet, Absorb, failures' = failures PROVE Quiet'
  <1>1. BeatsFollow /\ SamplesFollow /\ NoFalseAlarm
    BY DEF Quiet
  <1>2. /\ step = "due" /\ step' = "absorbed" /\ ticks' = ticks + 1
        /\ UNCHANGED <<clock, upSince, turned, beat, started, samples, raised, failures>>
    BY DEF Absorb, serviceVars
  <1>3. known' = beat
    <2>1. failures \in Nat
      BY MonitorTypes
    <2>2. QED
      BY <2>1 DEF Absorb, Fault
  <1>4. BeatsFollow'
    BY <1>1, <1>2, <1>3 DEF BeatsFollow, Running
  <1>5. SamplesFollow'
    <2>1. ticks \in Nat
      BY MonitorTypes, MonitorBounds
    <2>2. ticks' - 1 = ticks
      BY <1>2, <2>1
    <2>3. QED
      BY <1>1, <1>2, <2>2 DEF SamplesFollow
  <1>6. QED
    BY <1>1, <1>2, <1>4, <1>5, AlarmStays, NoSpikeBefore DEF Quiet

LEMMA DeadLetterQuiet ==
    ASSUME MonitorTypeOK, Quiet, DeadLetter PROVE Quiet'
  <1>1. BeatsFollow /\ SilenceLogged /\ SamplesFollow /\ NoFalseAlarm /\ SpikeNoticed
    BY DEF Quiet
  <1>2. /\ letters' = Append(letters, clock) /\ dead' = (IF dead < MaxDead THEN dead + 1 ELSE dead)
        /\ UNCHANGED <<clock, upSince, turned, beat, failures>>
        /\ UNCHANGED <<step, started, ticks, known, samples, lastAlert, raised>>
    BY DEF DeadLetter, scanVars, serviceVars
  <1> DEFINE of == clock - SpikeWindow + 1 .. clock - 1
  <1>3. SpikeNoticed'
    <2>1. {i \in DOMAIN letters' : letters'[i] \in of} = {i \in DOMAIN letters : letters[i] \in of}
      <3>1. clock \notin of
        BY TimesAre
      <3> HIDE DEF of
      <3>2. QED
        BY <1>2, <3>1, OneLetterMore
    <2>2. dead' < MaxDead => dead < MaxDead
      BY <1>2
    <2>3. QED
      BY <1>1, <1>2, <2>1, <2>2 DEF SpikeNoticed, Logged
  <1>4. QED
    BY <1>1, <1>2, <1>3, BeatsStay, LogStays, SamplesStay, AlarmStays DEF Quiet

\* Which alerts an evaluation raises.
LEMMA AlertsAre ==
    ASSUME NEW all
    PROVE  /\ \A s \in Services : <<"missing", s>> \in Alerts(all) <=> clock - started >= Grace /\ Missing(s)
           /\ <<"spike">> \in Alerts(all) <=> Spike(all)
  <1>1. \A s \in Services : <<"missing", s>> \in Keys /\ <<"missing", s>>[1] = "missing" /\ <<"missing", s>>[2] = s
    BY DEF Keys
  <1>2. <<"spike">> \in Keys /\ <<"spike">>[1] = "spike"
    BY DEF Keys
  <1>3. "missing" # "spike" /\ "missing" # "storm" /\ "spike" # "storm"
    OBVIOUS
  <1>4. QED
    BY <1>1, <1>2, <1>3 DEF Alerts

LEMMA EvaluateSilence ==
    ASSUME MonitorTypeOK, TicksFollow, Evaluate, failures' = failures PROVE SilenceLogged'
  <1>1. /\ raised' = Alerts(Sampled) /\ \A alert \in raised' : ticks - lastAlert'[alert] < Repeat
        /\ UNCHANGED <<clock, started, beat, ticks>>
    BY EvaluateIs
  <1> SUFFICES ASSUME clock - started >= Grace, NEW s \in Services, clock - beat[s].at > Threshold
               PROVE  ticks - lastAlert'[<<"missing", s>>] < Repeat
    BY <1>1 DEF SilenceLogged, Logged
  <1>2. Missing(s)
    <2>1. known[s].at \in Int /\ beat[s].at \in Int /\ known[s].at <= beat[s].at /\ clock \in Nat
      BY UpIs
    <2>2. \A c, k, b, t \in Int : k <= b /\ c - b > t => c - k > t
      OBVIOUS
    <2>3. clock - known[s].at > Threshold
      BY <2>1, <2>2, MonitorBounds
    <2>4. QED
      BY <2>3 DEF Missing
  <1>3. QED
    BY <1>1, <1>2, AlertsAre

LEMMA EvaluateAlarms ==
    ASSUME Threshold >= 1, MonitorTypeOK, TicksFollow, Quiet, Evaluate, failures' = failures PROVE NoFalseAlarm'
  <1>1. /\ raised' = Alerts(Sampled) /\ step = "absorbed" /\ UNCHANGED <<clock, upSince>>
    BY EvaluateIs
  <1> SUFFICES ASSUME NEW s \in Services, Running(s), upSince[s] < clock PROVE <<"missing", s>> \notin raised'
    BY <1>1 DEF NoFalseAlarm, Running
  <1>2. known[s].at >= clock - 1
    BY <1>1 DEF Quiet, BeatsFollow
  <1>3. ~Missing(s)
    <2>1. known[s].at \in Int /\ clock \in Nat /\ upSince[s] \in Nat
      BY UpIs
    <2>2. \A c, u \in Nat : \A k \in Int, t \in Nat : u < c /\ k >= c - 1 /\ t >= 1 => k # -1 /\ ~(c - k > t)
      OBVIOUS
    <2>3. known[s].at # -1 /\ ~(clock - known[s].at > Threshold)
      BY <1>2, <2>1, <2>2, MonitorBounds
    <2>4. QED
      BY <2>3 DEF Missing
  <1>4. QED
    BY <1>1, <1>3, AlertsAre

LEMMA EvaluateSamples ==
    ASSUME MonitorTypeOK, TicksFollow, SamplesFollow, Evaluate, failures' = failures
    PROVE  SamplesFollow' /\ samples' = Sampled /\ Len(samples) = ticks - 1
  <1>1. /\ samples' = Sampled /\ step = "absorbed" /\ step' = "done" /\ ticks' = ticks
        /\ started' = started /\ ticks = clock - started + 1
    BY EvaluateIs
  <1>2. ticks \in Nat /\ clock \in Nat /\ started \in Int
    BY MonitorTypes, TimesAre, MonitorBounds
  <1>3. Len(samples) = ticks - 1 /\ \A i \in DOMAIN samples : samples[i].at = started + i - 1
    BY <1>1 DEF SamplesFollow
  <1>4. Len(Sampled) = ticks
    BY <1>2, <1>3, SampledIs
  <1>5. ASSUME NEW i \in DOMAIN Sampled PROVE Sampled[i].at = started + i - 1
    <2>1. CASE i \in DOMAIN samples
      BY <1>3, <2>1, SampledIs
    <2>2. CASE i = Len(samples) + 1
      <3>1. Sampled[i].at = clock
        BY <2>2, SampledIs
      <3>2. i = ticks
        BY <1>2, <1>3, <2>2
      <3>3. started + ticks - 1 = clock
        BY <1>1, <1>2
      <3>4. QED
        BY <3>1, <3>2, <3>3
    <2>3. QED
      BY <2>1, <2>2, SampledIs
  <1>6. QED
    BY <1>1, <1>3, <1>4, <1>5 DEF SamplesFollow

\* The letters of two stretches of time are no more than all of them.
LEMMA LettersApart ==
    ASSUME MonitorTypeOK, NEW A \in SUBSET DOMAIN letters, NEW B \in SUBSET DOMAIN letters, A \cap B = {}
    PROVE  Cardinality(A) + Cardinality(B) <= Len(letters)
  <1>1. IsFiniteSet(A) /\ IsFiniteSet(B) /\ Cardinality(A) \in Nat /\ Cardinality(B) \in Nat
    BY LettersAre
  <1>2. Cardinality(A \cup B) = Cardinality(A) + Cardinality(B) - Cardinality(A \cap B)
    BY <1>1, FS_Union
  <1>3. Cardinality(A \cap B) = 0
    BY FS_EmptySet
  <1>4. A \cup B \in SUBSET DOMAIN letters
    OBVIOUS
  <1>5. Cardinality(A \cup B) <= Len(letters)
    BY <1>4, LettersAre
  <1>6. QED
    BY <1>1, <1>2, <1>3, <1>5

LEMMA SpikeSeen ==
    ASSUME MonitorTypeOK, TicksFollow, LettersCounted, SamplesFollow, Evaluate, failures' = failures,
           started <= clock - SpikeWindow, dead < MaxDead,
           Cardinality({i \in DOMAIN letters : letters[i] \in clock - SpikeWindow + 1 .. clock - 1}) >= SpikeSize
    PROVE  Spike(Sampled)
  <1> DEFINE B == {i \in DOMAIN letters : letters[i] \in clock - SpikeWindow + 1 .. clock - 1}
             old == {i \in DOMAIN Sampled : Sampled[i].at <= clock - SpikeWindow}
             k == clock - SpikeWindow - started + 1
             m == Max(old)
  <1>1. clock \in Nat /\ started \in Int /\ SpikeWindow \in Nat /\ SpikeSize \in Nat /\ SpikeSize >= 1
    BY MonitorTypes, TimesAre, MonitorBounds
  <1>2. SpikeWindow >= 2
    <2>1. B # {}
      <3>1. Cardinality({}) = 0
        BY FS_EmptySet
      <3>2. ~(0 >= SpikeSize)
        BY <1>1
      <3>3. QED
        BY <3>1, <3>2
    <2>2. PICK i \in DOMAIN letters : letters[i] \in clock - SpikeWindow + 1 .. clock - 1
      BY <2>1
    <2>3. \A c, w \in Nat : \A x \in c - w + 1 .. c - 1 : w >= 2
      OBVIOUS
    <2>4. QED
      BY <1>1, <2>2, <2>3
  <1>3. /\ Len(samples) = ticks - 1 /\ ticks = clock - started + 1
        /\ \A i \in DOMAIN samples : samples[i].at = started + i - 1
    BY EvaluateSamples, EvaluateIs DEF SamplesFollow
  <1>4. /\ Len(Sampled) = ticks /\ ticks \in Nat /\ ticks >= 2 /\ ticks = Len(samples) + 1
        /\ Sampled[ticks].at = clock /\ Sampled[ticks].len = dead
    <2>1. ticks \in Nat /\ ticks >= 2
      BY <1>1, <1>2, <1>3
    <2>2. Len(samples) + 1 = ticks
      BY <1>3, <2>1
    <2>3. QED
      BY <2>1, <2>2, SampledIs
  <1>5. old \in SUBSET (1 .. ticks) /\ old # {}
    <2>1. k \in 1 .. Len(samples) /\ started + k - 1 = clock - SpikeWindow
      BY <1>1, <1>2, <1>3
    <2>2. k \in DOMAIN samples
      BY <2>1, SampledIs
    <2>3. samples[k].at = started + k - 1
      BY <1>3, <2>2
    <2> HIDE DEF k
    <2>4. k \in DOMAIN Sampled /\ Sampled[k].at = samples[k].at
      BY <2>2, SampledIs
    <2>5. clock - SpikeWindow <= clock - SpikeWindow
      BY <1>1
    <2>6. k \in old
      BY <2>1, <2>3, <2>4, <2>5
    <2>7. DOMAIN Sampled = 1 .. ticks
      <3>1. \A n \in Nat : 1 .. n + 1 = 1 .. n \cup {n + 1}
        OBVIOUS
      <3>2. QED
        BY <1>4, <3>1, SampledIs
    <2>8. QED
      BY <2>6, <2>7
  <1>6. m \in DOMAIN Sampled /\ Sampled[m].at <= clock - SpikeWindow
    <2>1. m \in old
      <3> HIDE DEF old
      <3>1. QED
        BY <1>4, <1>5, MaxOf
    <2> HIDE DEF m
    <2>2. QED
      BY <2>1
  <1> HIDE DEF m, k
  <1>7. m \in DOMAIN samples /\ Sampled[m] = samples[m]
    <2>1. ~(clock <= clock - SpikeWindow)
      BY <1>1, <1>2
    <2>2. m # ticks
      BY <1>4, <1>6, <2>1
    <2>3. QED
      BY <1>4, <1>6, <2>2, SampledIs
  <1> DEFINE A == {j \in DOMAIN letters : letters[j] <= samples[m].at}
  <1>8. samples[m].len <= Cardinality(A)
    BY <1>7 DEF LettersCounted
  <1>9. A \cap B = {}
    <2>1. \A t \in Int, c, w \in Nat : \A x \in c - w + 1 .. c - 1 : t <= c - w => ~(x <= t)
      OBVIOUS
    <2>2. samples[m].at \in Int /\ samples[m].at <= clock - SpikeWindow
      <3>1. samples[m].at \in 0 .. clock
        BY <1>7, SampleIs
      <3>2. QED
        BY <1>6, <1>7, <3>1
    <2>3. \A j \in DOMAIN letters :
              letters[j] \in clock - SpikeWindow + 1 .. clock - 1 => ~(letters[j] <= samples[m].at)
      BY <1>1, <2>1, <2>2
    <2>4. QED
      BY <2>3
  <1>10. A \in SUBSET DOMAIN letters /\ B \in SUBSET DOMAIN letters
    OBVIOUS
  <1> HIDE DEF A
  <1> DEFINE b == B
  <1>11. Cardinality(b) >= SpikeSize /\ A \cap b = {} /\ b \in SUBSET DOMAIN letters
    BY <1>9, <1>10
  <1> HIDE DEF B, b
  <1>12. dead - samples[m].len >= SpikeSize
    <2>1. Cardinality(A) + Cardinality(b) <= Len(letters)
      BY <1>10, <1>11, LettersApart
    <2>2. dead = Len(letters) /\ Len(letters) \in Nat
      BY LettersAre DEF LettersCounted
    <2>3. Cardinality(A) \in Nat /\ Cardinality(b) \in Nat
      BY <1>10, <1>11, LettersAre
    <2>4. samples[m].len \in Nat
      BY <1>7, SampleIs
    <2>5. \A x, y, l, e, z \in Nat : x + y <= l /\ e <= x /\ y >= z => l - e >= z
      OBVIOUS
    <2>6. QED
      BY <1>1, <1>8, <1>11, <2>1, <2>2, <2>3, <2>4, <2>5
  <1>13. Last(Sampled).len - Sampled[Max(old)].len >= SpikeSize
    BY <1>4, <1>7, <1>12 DEF Last, m
  <1>14. QED
    BY <1>4, <1>5, <1>13 DEF Spike

LEMMA EvaluateQuiet ==
    ASSUME Threshold >= 1, MonitorTypeOK, TicksFollow, LettersCounted, Quiet, Evaluate, failures' = failures
    PROVE  Quiet'
  <1>1. /\ step = "absorbed" /\ step' = "done" /\ raised' = Alerts(Sampled)
        /\ \A alert \in raised' : ticks - lastAlert'[alert] < Repeat
        /\ UNCHANGED <<clock, upSince, turned, beat, known, started, ticks, letters, dead>>
    BY EvaluateIs
  <1>2. BeatsFollow'
    BY <1>1 DEF Quiet, BeatsFollow, Running
  <1>3. SpikeNoticed'
    <2> SUFFICES ASSUME started <= clock - SpikeWindow, dead < MaxDead,
                        Cardinality({i \in DOMAIN letters : letters[i] \in clock - SpikeWindow + 1 .. clock - 1})
                        >= SpikeSize
                 PROVE  ticks - lastAlert'[<<"spike">>] < Repeat
      BY <1>1 DEF SpikeNoticed, Logged
    <2>1. Spike(Sampled)
      BY SpikeSeen DEF Quiet
    <2>2. QED
      BY <1>1, <2>1, AlertsAre
  <1>4. QED
    BY <1>2, <1>3, EvaluateSilence, EvaluateAlarms, EvaluateSamples DEF Quiet

LEMMA QuietGoesOn ==
    ASSUME Threshold >= 1, Basics, LettersCounted, failures = 0 => Quiet, MonitorNext, failures' = 0
    PROVE  Quiet'
  <1>1. MonitorTypeOK /\ TicksFollow
    BY DEF Basics
  <1>2. failures' = failures
    <2>1. failures \in Nat
      BY <1>1, MonitorTypes
    <2>2. failures' = failures \/ failures' = failures + 1
      BY DEF MonitorNext, RoundEnds, Reconnects, DeadLetter, Starts, Hangs, Beats, MonitorStarts, Absorb,
             Evaluate, Fault
    <2>3. QED
      BY <2>1, <2>2
  <1>3. Quiet
    BY <1>2
  <1>4. QED
    BY <1>1, <1>2, <1>3, StartsQuiet, HangsQuiet, ReconnectsQuiet, BeatsQuiet, RoundEndsQuiet, MonitorStartsQuiet,
       AbsorbQuiet, DeadLetterQuiet, EvaluateQuiet DEF MonitorNext

LEMMA MonitorInParts ==
    MonitorInv <=> Basics /\ LettersCounted /\ NoFalseAlarm /\ SpikeNoticed /\ (failures = 0 => Quiet)
  <1>1. SilenceLogged => SilenceNoticed
    BY DEF SilenceLogged, SilenceNoticed
  <1>2. failures # 0 => SilenceNoticed
    BY DEF SilenceNoticed
  <1>3. QED
    BY <1>1, <1>2 DEF MonitorInv, Basics, Quiet, AlertsAreRight

LEMMA MonitorInPartsNext ==
    Basics' /\ LettersCounted' /\ (failures' = 0 => Quiet') => MonitorInv'
  <1>1. SilenceLogged' => SilenceNoticed'
    BY DEF SilenceLogged, SilenceNoticed
  <1>2. failures' # 0 => SilenceNoticed' /\ NoFalseAlarm' /\ SpikeNoticed'
    BY DEF SilenceNoticed, NoFalseAlarm, SpikeNoticed
  <1>3. QED
    BY <1>1, <1>2 DEF MonitorInv, Basics, Quiet, AlertsAreRight

LEMMA MonitorInitially == ASSUME MonitorInit PROVE MonitorInv
  <1>1. /\ clock = 0 /\ upSince = [s \in Services |-> Down] /\ turned = {}
        /\ beat = [s \in Services |-> None] /\ reconnects = <<>> /\ storming = FALSE /\ dead = 0
        /\ step = "off" /\ started = 0 /\ ticks = 0 /\ known = [s \in Services |-> None]
        /\ samples = <<>> /\ lastAlert = [alert \in Keys |-> -Repeat] /\ raised = {}
        /\ drops = <<>> /\ letters = <<>> /\ failures = 0 /\ hangs = 0
    BY DEF MonitorInit
  <1>2. None \in BeatsAt(0) /\ None.storm = FALSE /\ None.drops = 0 /\ None.at = -1
    BY DEF None, BeatsAt
  <1>3. MonitorTypeOK
    <2>1. 0 \in 0 .. MaxTime /\ 0 \in 0 .. MaxDead /\ 0 \in 0 .. 0 /\ 0 \in 0 .. MaxTime + 1
      BY MonitorBounds
    <2>2. \A S : <<>> \in Seq(S)
      OBVIOUS
    <2>3. /\ upSince \in [Services -> {Down} \cup 0 .. clock]
          /\ lastAlert \in [Keys -> {-Repeat} \cup 1 .. ticks]
      BY <1>1
    <2>4. beat \in [Services -> BeatsAt(clock)] /\ known \in [Services -> BeatsAt(clock)]
      BY <1>1, <1>2
    <2>5. \A s \in Services : known[s].at <= beat[s].at
      BY <1>1, <1>2
    <2>6. /\ reconnects \in Seq(0 .. clock) /\ drops \in Seq(0 .. clock) /\ letters \in Seq(0 .. clock)
          /\ samples \in Seq([at: 0 .. clock, len: 0 .. MaxDead])
      BY <1>1, <2>2
    <2>7. /\ clock \in 0 .. MaxTime /\ turned \subseteq Services /\ storming \in BOOLEAN /\ dead \in 0 .. MaxDead
          /\ failures \in Nat /\ hangs \in Nat /\ step \in {"off", "due", "absorbed", "done"}
          /\ started \in 0 .. clock /\ ticks \in 0 .. MaxTime + 1 /\ raised \subseteq Keys
      BY <1>1, <2>1
    <2>8. QED
      BY <2>3, <2>4, <2>5, <2>6, <2>7, MonitorTypes
  <1>4. TicksFollow
    BY <1>1 DEF TicksFollow
  <1>5. WindowFollows /\ StormIsRecent
    BY <1>1, <1>2, MonitorBounds DEF WindowFollows, StormIsRecent, EndOf, Ascending
  <1>6. LettersCounted
    <2>1. Len(letters) = 0 /\ DOMAIN samples = {}
      BY <1>1
    <2>2. dead <= Len(letters) /\ dead = Len(letters)
      BY <1>1, <2>1
    <2>3. QED
      BY <2>1, <2>2 DEF LettersCounted
  <1>7. Quiet
    BY <1>1 DEF Quiet, BeatsFollow, SilenceLogged, SamplesFollow, NoFalseAlarm, SpikeNoticed, Running
  <1>8. QED
    BY <1>3, <1>4, <1>5, <1>6, <1>7, MonitorInParts DEF Basics, Quiet

LEMMA MonitorStill == ASSUME MonitorInv, UNCHANGED monitorVars PROVE MonitorInv'
  <1>1. MonitorTypeOK' /\ TicksFollow' /\ WindowFollows' /\ LettersCounted'
    BY DEF MonitorInv, monitorVars, MonitorTypeOK, TicksFollow, WindowFollows, LettersCounted, EndOf, Ascending
  <1>2. StormIsRecent'
    BY DEF MonitorInv, monitorVars, AlertsAreRight, StormIsRecent
  <1>3. failures = 0 => Quiet'
    BY MonitorInParts, BeatsStay, LogStays, SamplesStay, AlarmStays, SpikeStays DEF monitorVars, Quiet
  <1>4. QED
    BY <1>1, <1>2, <1>3, MonitorInPartsNext DEF Basics, monitorVars

\* With a threshold of at least one interval between heartbeats, the monitor reports each
\* service that has been silent for too long and each burst of dead letters, reports no
\* service that is at work, and is told of a storm only when there is one: for any number of
\* services, rounds, restarts, lost connections, letters and failing commands.
THEOREM AlertsAreRightHolds ==
    ASSUME Threshold >= 1
    PROVE  MonitorSpec => []AlertsAreRight
  <1>1. MonitorInit => MonitorInv
    BY MonitorInitially
  <1>2. MonitorInv /\ [MonitorNext]_monitorVars => MonitorInv'
    <2>1. ASSUME MonitorInv, MonitorNext PROVE MonitorInv'
      <3>1. Basics /\ LettersCounted /\ (failures = 0 => Quiet)
        BY <2>1, MonitorInParts
      <3>2. Basics' /\ LettersCounted' /\ (failures' = 0 => Quiet')
        BY <2>1, <3>1, BasicsKeep, LettersKeep, QuietGoesOn
      <3>3. QED
        BY <3>2, MonitorInPartsNext
    <2>2. QED
      BY <2>1, MonitorStill
  <1>3. MonitorInv => AlertsAreRight
    BY DEF MonitorInv
  <1>4. QED
    BY <1>1, <1>2, <1>3, PTL DEF MonitorSpec

-------------------------------------------------------------------------------
(* BatchEnrichment.  A record goes into the file in one way only, and all   *)
(* that the invariant says of the file is about what that way does to it.   *)

LEMMA RestrictedCalls ==
    \A f, i, x :
        /\ DOMAIN Drop(f, i) = DOMAIN f \ {i} /\ \A j \in DOMAIN f \ {i} : Drop(f, i)[j] = f[j]
        /\ DOMAIN With(f, i, x) = DOMAIN f \cup {i} /\ With(f, i, x)[i] = x
        /\ \A j \in DOMAIN f \ {i} : With(f, i, x)[j] = f[j]
    BY DEF Drop, With, Restrict

\* Where a record lands, and what it leaves alone (append_checkpoint).
LEMMA RecordLands ==
    ASSUME lines \in Seq(Lines), NEW rec \in [id : NewsIds, outcome : Outcomes],
           NEW ends \in {"whole", "bare", "cut"}
    PROVE  LET w == Written(rec, ends)
               n == IF Torn THEN Len(lines) ELSE Len(lines) + 1
           IN  /\ w \in Seq(Lines) /\ Len(w) = n /\ n \in Nat \ {0}
               /\ \A k \in 1 .. n - 1 : k \in DOMAIN lines /\ w[k] = lines[k]
               /\ w[n].ends = ends
               /\ Torn => w[n].recs = Append(lines[n].recs, rec)
               /\ ~Torn => w[n].recs = <<rec>>
  <1> DEFINE R == [id : NewsIds, outcome : Outcomes]
             w == Written(rec, ends)
  <1>1. CASE Torn
    <2> DEFINE n == Len(lines)
               l == [recs |-> Append(lines[n].recs, rec), ends |-> ends]
    <2>1. n \in Nat \ {0} /\ n \in DOMAIN lines /\ lines[n] \in Lines  BY <1>1 DEF Torn
    <2>2. lines[n].recs \in Seq(R)  BY <2>1 DEF Lines
    <2>3. Append(lines[n].recs, rec) \in Seq(R)  BY <2>2
    <2>4. l \in Lines  BY <2>3 DEF Lines
    <2>5. w = [lines EXCEPT ![n] = l]  BY <1>1 DEF Written
    <2> HIDE DEF l, w
    <2>6. /\ w \in Seq(Lines) /\ Len(w) = n /\ w[n] = l
          /\ \A k \in 1 .. n - 1 : k \in DOMAIN lines /\ w[k] = lines[k]
      BY <2>1, <2>4, <2>5
    <2>7. l.ends = ends /\ l.recs = Append(lines[n].recs, rec)  BY DEF l
    <2> QED  BY <1>1, <2>1, <2>6, <2>7 DEF w
  <1>2. CASE ~Torn
    <2> DEFINE l == [recs |-> <<rec>>, ends |-> ends]
    <2>1. l \in Lines  BY DEF Lines
    <2>2. w = Append(lines, l)  BY <1>2 DEF Written
    <2> HIDE DEF l, w
    <2>3. /\ w \in Seq(Lines) /\ Len(w) = Len(lines) + 1 /\ w[Len(lines) + 1] = l
          /\ \A k \in 1 .. Len(lines) : k \in DOMAIN lines /\ w[k] = lines[k]
      BY <2>1, <2>2
    <2>4. l.ends = ends /\ l.recs = <<rec>>  BY DEF l
    <2> QED  BY <1>2, <2>3, <2>4 DEF w
  <1> QED  BY <1>1, <1>2

\* What one more record does to the checkpoint: what is on record stays there, what can be
\* read is lost only in a torn line, and a line is spoiled only by a kill.
LEMMA RecordWritten ==
    ASSUME lines \in Seq(Lines), \A k \in DOMAIN lines : lines[k].recs # <<>>,
           NEW rec \in [id : NewsIds, outcome : Outcomes],
           NEW ends \in {"whole", "bare", "cut"}, lines' = Written(rec, ends)
    PROVE  /\ lines' \in Seq(Lines) /\ \A k \in DOMAIN lines' : lines'[k].recs # <<>>
           /\ \A j : OnRecord(j) => OnRecord(j)'
           /\ ends = "whole" => OnRecord(rec.id)'
           /\ Torn' = (ends # "whole")
           /\ Processed' \subseteq Processed \cup {rec.id}
           /\ ~Torn => Processed \subseteq Processed'
           /\ ~Torn /\ ends = "whole" => rec.id \in Processed'
           /\ OneRecordPerId /\ rec.id \notin Processed => OneRecordPerId'
           /\ Torn \/ ends = "whole" => Spoiled' = Spoiled
           /\ Spoiled \subseteq Spoiled' /\ Spoiled' \subseteq Spoiled \cup {Len(lines')}
           /\ \A k \in DOMAIN lines' :
                \/ k \in DOMAIN lines /\ lines'[k] = lines[k]
                \/ lines'[k].ends = ends /\ ~Torn /\ Len(lines'[k].recs) = 1
                \/ /\ lines'[k].ends = ends /\ k \in DOMAIN lines
                   /\ lines[k].ends # "whole" /\ Len(lines'[k].recs) = Len(lines[k].recs) + 1
  <1> DEFINE R == [id : NewsIds, outcome : Outcomes]
             n == IF Torn THEN Len(lines) ELSE Len(lines) + 1
  <1>1. /\ lines' \in Seq(Lines) /\ Len(lines') = n /\ n \in Nat \ {0}
        /\ \A k \in 1 .. n - 1 : k \in DOMAIN lines /\ lines'[k] = lines[k]
        /\ lines'[n].ends = ends
        /\ Torn => lines'[n].recs = Append(lines[n].recs, rec)
        /\ ~Torn => lines'[n].recs = <<rec>>
    BY RecordLands
  <1>2. DOMAIN lines' = 1 .. n /\ DOMAIN lines = 1 .. Len(lines) /\ Len(lines) \in Nat  BY <1>1
  <1>3. \A k \in DOMAIN lines : /\ lines[k].recs \in Seq(R) /\ Len(lines[k].recs) \in Nat \ {0}
                                /\ lines[k].recs[1] \in R
    <2> TAKE k \in DOMAIN lines
    <2>1. lines[k] \in Lines /\ lines[k].recs # <<>>  OBVIOUS
    <2>2. lines[k].recs \in Seq(R)  BY <2>1 DEF Lines
    <2> HIDE DEF R
    <2> QED  BY <2>1, <2>2
  <1>4. Torn => n \in DOMAIN lines /\ lines[n].ends # "whole" /\ n = Len(lines)  BY <1>2 DEF Torn
  <1>5. Torn => /\ Len(lines'[n].recs) = Len(lines[n].recs) + 1
                /\ \A k \in DOMAIN lines[n].recs : k \in DOMAIN lines'[n].recs
                                                   /\ lines'[n].recs[k] = lines[n].recs[k]
                /\ Len(lines'[n].recs) \in DOMAIN lines'[n].recs
                /\ lines'[n].recs[Len(lines'[n].recs)] = rec
    <2> SUFFICES ASSUME Torn PROVE <1>5!2  OBVIOUS
    <2>1. lines[n].recs \in Seq(R) /\ rec \in R  BY <1>3, <1>4
    <2>2. lines'[n].recs = Append(lines[n].recs, rec)  BY <1>1
    <2> HIDE DEF R, n
    <2>3. \A s \in Seq(R) : /\ Len(Append(s, rec)) = Len(s) + 1
                            /\ \A k \in DOMAIN s : k \in DOMAIN Append(s, rec) /\ Append(s, rec)[k] = s[k]
                            /\ Len(Append(s, rec)) \in DOMAIN Append(s, rec)
                            /\ Append(s, rec)[Len(Append(s, rec))] = rec
      BY <2>1
    <2> QED  BY <2>1, <2>2, <2>3
  <1>6. ~Torn => /\ Len(lines'[n].recs) = 1 /\ lines'[n].recs[1] = rec /\ 1 \in DOMAIN lines'[n].recs
                 /\ n = Len(lines) + 1
    <2>1. Len(<<rec>>) = 1 /\ <<rec>>[1] = rec /\ 1 \in DOMAIN <<rec>>  OBVIOUS
    <2>2. ~Torn => lines'[n].recs = <<rec>>  BY <1>1
    <2>3. ~Torn => n = Len(lines) + 1  OBVIOUS
    <2> HIDE DEF n
    <2> QED  BY <2>1, <2>2, <2>3
  <1> HIDE DEF n
  \* A line that is read is the new one or an old one.
  <1>7. \A k \in DOMAIN lines' : k # n => k \in DOMAIN lines /\ lines'[k] = lines[k]  BY <1>1, <1>2
  <1>8. \A k \in DOMAIN lines : k # n => k \in DOMAIN lines' /\ lines'[k] = lines[k]
    <2>1. n \in Nat /\ (n = Len(lines) \/ n = Len(lines) + 1)  BY <1>1, <1>4, <1>6
    <2>2. \A k \in DOMAIN lines : k # n => k \in 1 .. n - 1 /\ k \in 1 .. n
      <3>1. \A m \in Nat, l \in Nat : \A k \in 1 .. m : (l = m \/ l = m + 1) /\ k # l => k \in 1 .. l - 1 /\ k \in 1 .. l
        OBVIOUS
      <3>2. Len(lines) \in Nat /\ DOMAIN lines = 1 .. Len(lines)  BY <1>2
      <3> QED  BY <2>1, <3>1, <3>2
    <2> QED  BY <2>2, <1>1, <1>2
  <1>9. n \in DOMAIN lines'  BY <1>1, <1>2
  <1>10. Torn => ~WholeLine(lines'[n])  BY <1>3, <1>4, <1>5 DEF WholeLine
  <1>11. ~Torn => n \notin DOMAIN lines /\ (WholeLine(lines'[n]) <=> ends # "cut")
    BY <1>1, <1>2, <1>6 DEF WholeLine
  <1>12. \A k \in DOMAIN lines' : lines'[k].recs # <<>>
    <2>1. Len(lines'[n].recs) # 0  BY <1>3, <1>4, <1>5, <1>6
    <2>2. lines'[n].recs # <<>>  BY <2>1
    <2> QED  BY <2>2, <1>7
  <1>13. Torn' = (ends # "whole")
    BY <1>1, <1>2, <1>9 DEF Torn
  <1>14. \A j : OnRecord(j) => OnRecord(j)'
    <2> TAKE j
    <2> HAVE OnRecord(j)
    <2>1. PICK k \in DOMAIN lines : \/ WholeLine(lines[k]) /\ lines[k].recs[1].id = j
                                    \/ /\ Len(lines[k].recs) > 1
                                       /\ \E m \in DOMAIN lines[k].recs : lines[k].recs[m].id = j
      BY DEF OnRecord, Range
    <2>2. CASE k # n
      BY <2>1, <2>2, <1>8 DEF OnRecord, Range, WholeLine
    <2>3. CASE k = n
      <3>1. Torn  BY <2>1, <2>3, <1>11
      <3>2. \E m \in DOMAIN lines[n].recs : lines[n].recs[m].id = j
        <4>1. 1 \in DOMAIN lines[n].recs  BY <2>1, <2>3, <1>3
        <4> QED  BY <2>1, <2>3, <4>1
      <3>3. Len(lines'[n].recs) > 1  BY <3>1, <1>3, <1>4, <1>5
      <3>4. \E m \in DOMAIN lines'[n].recs : lines'[n].recs[m].id = j  BY <3>1, <3>2, <1>5
      <3> QED  BY <3>3, <3>4, <1>9 DEF OnRecord, Range
    <2> QED  BY <2>2, <2>3
  <1>15. ends = "whole" => OnRecord(rec.id)'
    <2> HAVE ends = "whole"
    <2>1. CASE Torn
      <3>1. Len(lines'[n].recs) > 1  BY <2>1, <1>3, <1>4, <1>5
      <3>2. \E m \in DOMAIN lines'[n].recs : lines'[n].recs[m].id = rec.id  BY <2>1, <1>5
      <3> QED  BY <3>1, <3>2, <1>9 DEF OnRecord, Range
    <2>2. CASE ~Torn
      BY <2>2, <1>6, <1>9, <1>11 DEF OnRecord, Range, WholeLine
    <2> QED  BY <2>1, <2>2
  <1>16. \A x : x \in Processed <=> \E k \in DOMAIN lines : WholeLine(lines[k]) /\ lines[k].recs[1].id = x
    BY DEF Processed, Range
  <1>17. \A x : x \in Processed' <=> \E k \in DOMAIN lines' : WholeLine(lines'[k]) /\ lines'[k].recs[1].id = x
    BY DEF Processed, Range, WholeLine
  <1>18. Processed' \subseteq Processed \cup {rec.id}
    <2> SUFFICES ASSUME NEW x \in Processed', x # rec.id PROVE x \in Processed  OBVIOUS
    <2>1. PICK k \in DOMAIN lines' : WholeLine(lines'[k]) /\ lines'[k].recs[1].id = x  BY <1>17
    <2>2. k # n  BY <2>1, <1>6, <1>10
    <2> QED  BY <2>1, <2>2, <1>7, <1>16
  <1>19. ~Torn => Processed \subseteq Processed'
    <2> SUFFICES ASSUME ~Torn, NEW x \in Processed PROVE x \in Processed'  OBVIOUS
    <2>1. PICK k \in DOMAIN lines : WholeLine(lines[k]) /\ lines[k].recs[1].id = x  BY <1>16
    <2>2. k # n  BY <1>11
    <2> QED  BY <2>1, <2>2, <1>8, <1>17
  <1>20. ~Torn /\ ends = "whole" => rec.id \in Processed'
    BY <1>6, <1>9, <1>11, <1>17
  <1>21. OneRecordPerId /\ rec.id \notin Processed => OneRecordPerId'
    <2> SUFFICES ASSUME OneRecordPerId, rec.id \notin Processed,
                        NEW i \in DOMAIN lines', NEW j \in DOMAIN lines',
                        WholeLine(lines'[i]), WholeLine(lines'[j]),
                        lines'[i].recs[1].id = lines'[j].recs[1].id
                 PROVE  i = j
      BY DEF OneRecordPerId, WholeLine
    <2>1. CASE i = n /\ j # n
      <3>1. ~Torn /\ lines'[j].recs[1].id = rec.id  BY <2>1, <1>6, <1>10
      <3>2. rec.id \in Processed  BY <3>1, <2>1, <1>7, <1>16
      <3> QED  BY <3>2
    <2>2. CASE i # n /\ j = n
      <3>1. ~Torn /\ lines'[i].recs[1].id = rec.id  BY <2>2, <1>6, <1>10
      <3>2. rec.id \in Processed  BY <3>1, <2>2, <1>7, <1>16
      <3> QED  BY <3>2
    <2>3. CASE i # n /\ j # n
      BY <2>3, <1>7 DEF OneRecordPerId
    <2> QED  BY <2>1, <2>2, <2>3
  <1>22. /\ Torn \/ ends = "whole" => Spoiled' = Spoiled
         /\ Spoiled \subseteq Spoiled' /\ Spoiled' \subseteq Spoiled \cup {Len(lines')}
    <2>1. \A k : k # n => (k \in Spoiled <=> k \in Spoiled')  BY <1>7, <1>8 DEF Spoiled, WholeLine
    <2>2. Torn => n \in Spoiled /\ n \in Spoiled'
      BY <1>4, <1>9, <1>10 DEF Spoiled, WholeLine
    <2>3. ~Torn => n \notin Spoiled /\ (ends = "whole" => n \notin Spoiled')
      BY <1>1, <1>11 DEF Spoiled, WholeLine
    <2>4. Spoiled' \subseteq Spoiled \cup {n} /\ Spoiled \subseteq Spoiled'  BY <2>1, <2>2, <2>3
    <2>5. Torn \/ ends = "whole" => (n \in Spoiled <=> n \in Spoiled')  BY <2>2, <2>3, <2>4
    <2>6. Torn \/ ends = "whole" => Spoiled' = Spoiled
      <3> SUFFICES ASSUME Torn \/ ends = "whole" PROVE Spoiled' = Spoiled  OBVIOUS
      <3>1. \A k : k \in Spoiled <=> k \in Spoiled'  BY <2>1, <2>5
      <3> QED  BY <3>1
    <2> QED  BY <1>1, <2>4, <2>6
  <1>23. \A k \in DOMAIN lines' :
           \/ k \in DOMAIN lines /\ lines'[k] = lines[k]
           \/ lines'[k].ends = ends /\ ~Torn /\ Len(lines'[k].recs) = 1
           \/ /\ lines'[k].ends = ends /\ k \in DOMAIN lines
              /\ lines[k].ends # "whole" /\ Len(lines'[k].recs) = Len(lines[k].recs) + 1
    BY <1>1, <1>4, <1>5, <1>6, <1>7
  <1> QED  BY <1>1, <1>12, <1>13, <1>14, <1>15, <1>18, <1>19, <1>20, <1>21, <1>22, <1>23

\* The checkpoint is empty before the first run.
LEMMA CheckpointStart == BatchInit => CheckpointInv
  <1> SUFFICES ASSUME BatchInit PROVE CheckpointInv  OBVIOUS
  <1> USE BatchAssumption
  <1>1. DOMAIN lines = {} /\ Range(lines) = {} /\ lines = <<>>  BY DEF BatchInit, Range
  <1>2. DOMAIN calling = {} /\ DOMAIN answered = {}  BY DEF BatchInit, NoneOf
  <1>3. Spoiled = {} /\ Processed = {} /\ ~Torn  BY <1>1 DEF Spoiled, Processed, Torn
  <1>4. IsFiniteSet({}) /\ Cardinality({}) = 0  BY FS_EmptySet
  <1>5. BatchTypeOK
    <2>1. calling \in [DOMAIN calling -> 1 .. MaxTries] /\ answered \in [DOMAIN answered -> Outcomes]
      BY DEF BatchInit, NoneOf
    <2>2. lines \in Seq(Lines)  BY <1>1
    <2>3. Cardinality(DOMAIN calling) <= Concurrency  BY <1>2, <1>4 DEF BatchAssumption
    <2>4. \A k \in DOMAIN lines : lines[k].recs # <<>>  BY <1>1
    <2>5. troubles \in 0 .. MaxTroubles /\ kills \in 0 .. MaxKills  BY DEF BatchInit, BatchAssumption
    <2>6. asked \in [NewsIds -> Nat]  BY DEF BatchInit
    <2>7. waiting = {} /\ given = {} /\ completed = FALSE /\ live = FALSE  BY DEF BatchInit
    <2> QED  BY <1>2, <2>1, <2>2, <2>3, <2>4, <2>5, <2>6, <2>7 DEF BatchTypeOK
  <1>6. \A i \in NewsIds : asked[i] + ToPay(i) <= 1 + 2 * kills
    BY <1>2, <1>3 DEF ToPay, BatchInit
  <1>7. OneRecordPerId /\ RunIsComplete  BY <1>1 DEF OneRecordPerId, RunIsComplete, BatchInit
  <1> QED
    BY <1>1, <1>2, <1>3, <1>4, <1>5, <1>6, <1>7 DEF CheckpointInv, InHand, BatchInit

\* A step that leaves the file alone.
LEMMA FileKept ==
    ASSUME UNCHANGED lines
    PROVE  /\ Torn' = Torn /\ Processed' = Processed /\ Spoiled' = Spoiled
           /\ OneRecordPerId' = OneRecordPerId /\ \A i : OnRecord(i)' = OnRecord(i)
    BY DEF Torn, Processed, Spoiled, OneRecordPerId, OnRecord, WholeLine, Range

\* A run starts (load_processed_ids).
LEMMA RunStarts == CheckpointInv /\ StartRun => CheckpointInv'
  <1> SUFFICES ASSUME CheckpointInv, StartRun PROVE CheckpointInv'  OBVIOUS
  <1>1. UNCHANGED lines  BY DEF StartRun
  <1> USE <1>1, FileKept, BatchAssumption
  <1>2. DOMAIN calling = {} /\ DOMAIN answered = {}  BY DEF CheckpointInv, BatchTypeOK, StartRun
  <1>3. \A i : ToPay(i)' = ToPay(i)  BY DEF ToPay, StartRun
  <1>4. InHand' = Pending  BY <1>2 DEF InHand, StartRun
  <1>5. BatchTypeOK'
    BY <1>2 DEF CheckpointInv, BatchTypeOK, StartRun, Pending
  <1>6. \A i \in Processed : OnRecord(i)  BY DEF Processed, OnRecord
  <1>7. live' => \A i \in NewsIds \ (given' \cup InHand') : OnRecord(i)'
    BY <1>4, <1>6 DEF Pending
  <1>8. InHand' \cap Processed' = {}  BY <1>4 DEF Pending
  <1>9. RunIsComplete'  BY DEF RunIsComplete, StartRun
  <1> QED
    BY <1>3, <1>5, <1>7, <1>8, <1>9 DEF CheckpointInv, StartRun

\* A step within a run that leaves the file alone, and takes nothing out of hand that is not
\* given up: what it has to keep.
LEMMA RunGoesOn ==
    ASSUME CheckpointInv, UNCHANGED <<lines, live, completed, kills>>, live, BatchTypeOK',
           IsFiniteSet(DOMAIN calling)', InHand' \subseteq InHand,
           given \subseteq given', InHand \subseteq InHand' \cup given',
           \A i \in NewsIds : asked'[i] + ToPay(i)' <= asked[i] + ToPay(i)
    PROVE  CheckpointInv'
  <1> USE FileKept
  <1>1. RunIsComplete'  BY DEF CheckpointInv, BatchTypeOK, RunIsComplete
  <1>2. InHand' \cap Processed' = {}  BY DEF CheckpointInv
  <1>3. live' => \A i \in NewsIds \ (given' \cup InHand') : OnRecord(i)'  BY DEF CheckpointInv
  <1>4. \A i \in NewsIds : asked'[i] + ToPay(i)' <= 1 + 2 * kills'
    <2> TAKE i \in NewsIds
    <2>1. ToPay(i) \in Int /\ ToPay(i)' \in Int  BY DEF ToPay
    <2>2. asked[i] \in Int /\ asked'[i] \in Int  BY DEF CheckpointInv, BatchTypeOK
    <2>3. kills \in Int /\ kills' = kills  BY BatchAssumption DEF BatchAssumption, CheckpointInv, BatchTypeOK
    <2>4. asked[i] + ToPay(i) <= 1 + 2 * kills  BY DEF CheckpointInv
    <2>5. asked'[i] + ToPay(i)' <= asked[i] + ToPay(i)  OBVIOUS
    <2> HIDE DEF ToPay
    <2> QED  BY <2>1, <2>2, <2>3, <2>4, <2>5
  <1> QED  BY <1>1, <1>2, <1>3, <1>4 DEF CheckpointInv

LEMMA CallEntered == CheckpointInv /\ EnterCall => CheckpointInv'
  <1> SUFFICES ASSUME CheckpointInv, EnterCall PROVE CheckpointInv'  OBVIOUS
  <1> USE BatchAssumption
  <1>1. PICK i \in waiting : waiting' = waiting \ {i} /\ calling' = With(calling, i, 1)
    BY DEF EnterCall
  <1>2. BatchTypeOK /\ IsFiniteSet(DOMAIN calling)  BY DEF CheckpointInv
  <1>3. i \notin DOMAIN calling /\ i \notin DOMAIN answered /\ live /\ i \in NewsIds
    BY <1>2 DEF BatchTypeOK
  <1>4. DOMAIN calling' = DOMAIN calling \cup {i}  BY <1>1, RestrictedCalls
  <1>5. calling' \in [DOMAIN calling' -> 1 .. MaxTries]
    <2>1. \A j \in DOMAIN calling' : calling'[j] \in 1 .. MaxTries
      <3>1. calling'[i] = 1 /\ \A j \in DOMAIN calling \ {i} : calling'[j] = calling[j]
        BY <1>1 DEF With
      <3>2. \A j \in DOMAIN calling : calling[j] \in 1 .. MaxTries  BY <1>2 DEF BatchTypeOK
      <3>3. 1 \in 1 .. MaxTries  BY DEF BatchAssumption
      <3>4. \A j \in DOMAIN calling' : j = i \/ j \in DOMAIN calling \ {i}  BY <1>4
      <3> QED  BY <3>1, <3>2, <3>3, <3>4
    <2>2. calling' = [j \in DOMAIN calling' |-> calling'[j]]  BY <1>1 DEF With
    <2> QED  BY <2>1, <2>2
  <1>6. IsFiniteSet(DOMAIN calling') /\ Cardinality(DOMAIN calling') <= Concurrency
    <2>1. /\ IsFiniteSet(DOMAIN calling \cup {i})
          /\ Cardinality(DOMAIN calling \cup {i}) = Cardinality(DOMAIN calling) + 1
      BY <1>2, <1>3, FS_AddElement
    <2>2. Cardinality(DOMAIN calling) \in Nat  BY <1>2, FS_CardinalityType
    <2> QED  BY <1>4, <2>1, <2>2 DEF EnterCall, SlotFree, BatchAssumption
  <1>7. BatchTypeOK'
    BY <1>1, <1>2, <1>3, <1>4, <1>5, <1>6 DEF BatchTypeOK, EnterCall
  <1>8. InHand' = InHand  BY <1>1, <1>4 DEF InHand, EnterCall
  <1>9. \A j \in NewsIds : asked'[j] + ToPay(j)' = asked[j] + ToPay(j)
    BY FileKept DEF ToPay, EnterCall
  <1>10. \A j \in NewsIds : asked'[j] + ToPay(j)' <= asked[j] + ToPay(j)
    BY <1>2, <1>9 DEF BatchTypeOK, ToPay
  <1> QED  BY <1>3, <1>6, <1>7, <1>8, <1>10, RunGoesOn DEF EnterCall

\* Dropping a row from those inside the semaphore.
LEMMA CallLeaves ==
    ASSUME CheckpointInv, NEW i \in DOMAIN calling, calling' = Drop(calling, i)
    PROVE  /\ DOMAIN calling' = DOMAIN calling \ {i} /\ IsFiniteSet(DOMAIN calling')
           /\ Cardinality(DOMAIN calling') <= Concurrency
           /\ calling' \in [DOMAIN calling' -> 1 .. MaxTries]
           /\ live /\ i \in NewsIds /\ i \notin waiting /\ i \notin DOMAIN answered
           /\ i \notin Processed
  <1> USE BatchAssumption
  <1>1. BatchTypeOK /\ IsFiniteSet(DOMAIN calling)  BY DEF CheckpointInv
  <1>2. DOMAIN calling' = DOMAIN calling \ {i}  BY RestrictedCalls
  <1>3. /\ IsFiniteSet(DOMAIN calling \ {i})
        /\ Cardinality(DOMAIN calling \ {i}) = Cardinality(DOMAIN calling) - 1
    BY <1>1, FS_RemoveElement
  <1>4. Cardinality(DOMAIN calling) \in Nat  BY <1>1, FS_CardinalityType
  <1>5. Cardinality(DOMAIN calling') <= Concurrency
    BY <1>1, <1>2, <1>3, <1>4 DEF BatchTypeOK, BatchAssumption
  <1>6. calling' \in [DOMAIN calling' -> 1 .. MaxTries]
    <2>1. \A j \in DOMAIN calling' : calling'[j] \in 1 .. MaxTries
      <3>1. \A j \in DOMAIN calling \ {i} : calling'[j] = calling[j]  BY DEF Drop, Restrict
      <3>2. \A j \in DOMAIN calling : calling[j] \in 1 .. MaxTries  BY <1>1 DEF BatchTypeOK
      <3> QED  BY <3>1, <3>2, <1>2
    <2>2. calling' = [j \in DOMAIN calling' |-> calling'[j]]  BY DEF Drop, Restrict
    <2> QED  BY <2>1, <2>2
  <1>7. live /\ i \in NewsIds /\ i \notin waiting /\ i \notin DOMAIN answered
    BY <1>1 DEF BatchTypeOK
  <1>8. i \notin Processed  BY DEF CheckpointInv, InHand
  <1> QED  BY <1>2, <1>3, <1>5, <1>6, <1>7, <1>8

\* An answer is paid for: its id was one that nobody had an answer of.
LEMMA CallPaid ==
    ASSUME CheckpointInv, NEW i \in DOMAIN calling, CallAnswered(i) PROVE CheckpointInv'
  <1> USE BatchAssumption
  <1>1. calling' = Drop(calling, i) /\ asked' = [asked EXCEPT ![i] = @ + 1]  BY DEF CallAnswered
  <1>2. PICK o \in Outcomes : /\ answered' = With(answered, i, o)
                              /\ o = "terminal" => troubles < MaxTroubles
                              /\ troubles' = IF o = "terminal" THEN troubles + 1 ELSE troubles
    BY DEF CallAnswered
  <1>3. /\ DOMAIN calling' = DOMAIN calling \ {i} /\ IsFiniteSet(DOMAIN calling')
        /\ Cardinality(DOMAIN calling') <= Concurrency
        /\ calling' \in [DOMAIN calling' -> 1 .. MaxTries]
        /\ live /\ i \in NewsIds /\ i \notin waiting /\ i \notin DOMAIN answered
        /\ i \notin Processed
    BY <1>1, CallLeaves
  <1>4. BatchTypeOK  BY DEF CheckpointInv
  <1>5. DOMAIN answered' = DOMAIN answered \cup {i}  BY <1>2, RestrictedCalls
  <1>6. answered' \in [DOMAIN answered' -> Outcomes]
    <2>1. \A j \in DOMAIN answered' : answered'[j] \in Outcomes
      BY <1>2, <1>4, <1>5, RestrictedCalls DEF BatchTypeOK
    <2>2. answered' = [j \in DOMAIN answered' |-> answered'[j]]  BY <1>2 DEF With
    <2> QED  BY <2>1, <2>2
  <1>7. troubles' \in 0 .. MaxTroubles  BY <1>2, <1>4 DEF BatchTypeOK, BatchAssumption
  <1>8. asked' \in [NewsIds -> Nat] /\ asked'[i] = asked[i] + 1 /\ asked[i] \in Nat
        /\ \A j \in NewsIds \ {i} : asked'[j] = asked[j] /\ asked[j] \in Nat
    BY <1>1, <1>3, <1>4 DEF BatchTypeOK
  <1>9. BatchTypeOK'
    BY <1>3, <1>4, <1>5, <1>6, <1>7, <1>8 DEF BatchTypeOK, CallAnswered
  <1>10. InHand' = InHand  BY <1>3, <1>5 DEF InHand, CallAnswered
  <1>11. \A j \in NewsIds : asked'[j] + ToPay(j)' <= asked[j] + ToPay(j)
    <2>1. Torn' = Torn /\ Processed' = Processed  BY FileKept DEF CallAnswered
    <2>2. asked'[i] + ToPay(i)' <= asked[i] + ToPay(i)
      BY <1>3, <1>5, <1>8, <2>1 DEF ToPay
    <2>3. \A j \in NewsIds \ {i} : asked'[j] + ToPay(j)' <= asked[j] + ToPay(j)
      BY <1>5, <1>8, <2>1 DEF ToPay
    <2> QED  BY <2>2, <2>3
  <1> QED  BY <1>3, <1>9, <1>10, <1>11, RunGoesOn DEF CallAnswered

\* An attempt that fails is repeated, or the row is given up for this run.
LEMMA CallFailed ==
    ASSUME CheckpointInv, NEW i \in DOMAIN calling, FailedForNow(i) PROVE CheckpointInv'
  <1> USE BatchAssumption
  <1>1. BatchTypeOK /\ IsFiniteSet(DOMAIN calling)  BY DEF CheckpointInv
  <1>2. i \in NewsIds /\ live  BY <1>1 DEF BatchTypeOK
  <1>3. troubles' \in 0 .. MaxTroubles  BY <1>1 DEF FailedForNow, BatchTypeOK, BatchAssumption
  <1>4. \A j \in NewsIds : asked'[j] + ToPay(j)' <= asked[j] + ToPay(j)
    <2>1. answered' = answered /\ asked' = asked  BY DEF FailedForNow, GiveUp
    <2>2. \A j : ToPay(j)' = ToPay(j) /\ ToPay(j) \in Nat
      BY <2>1, FileKept DEF ToPay, FailedForNow
    <2>3. asked \in [NewsIds -> Nat]  BY <1>1 DEF BatchTypeOK
    <2> HIDE DEF ToPay
    <2> QED  BY <2>1, <2>2, <2>3
  <1>5. CASE calling[i] < MaxTries
    <2>1. calling' = [calling EXCEPT ![i] = @ + 1] /\ given' = given /\ answered' = answered
      BY <1>5 DEF FailedForNow
    <2>2. DOMAIN calling' = DOMAIN calling  BY <2>1
    <2>3. calling' \in [DOMAIN calling -> 1 .. MaxTries]
      BY <1>1, <1>5, <2>1 DEF BatchTypeOK, BatchAssumption
    <2>4. BatchTypeOK'  BY <1>1, <1>3, <2>1, <2>2, <2>3 DEF BatchTypeOK, FailedForNow
    <2>5. InHand' = InHand  BY <2>1, <2>2 DEF InHand, FailedForNow
    <2>6. IsFiniteSet(DOMAIN calling')  BY <1>1, <2>2
    <2> QED  BY <1>2, <1>4, <2>1, <2>4, <2>5, <2>6, RunGoesOn DEF FailedForNow
  <1>6. CASE ~(calling[i] < MaxTries)
    <2>1. calling' = Drop(calling, i) /\ given' = given \cup {i} /\ answered' = answered
      BY <1>6 DEF FailedForNow, GiveUp
    <2>2. /\ DOMAIN calling' = DOMAIN calling \ {i} /\ IsFiniteSet(DOMAIN calling')
          /\ Cardinality(DOMAIN calling') <= Concurrency
          /\ calling' \in [DOMAIN calling' -> 1 .. MaxTries]
      BY <2>1, CallLeaves
    <2>3. BatchTypeOK'  BY <1>1, <1>2, <1>3, <2>1, <2>2 DEF BatchTypeOK, FailedForNow
    <2>4. InHand' \subseteq InHand /\ InHand \subseteq InHand' \cup given'
      BY <2>1, <2>2 DEF InHand, FailedForNow
    <2> QED  BY <1>2, <1>4, <2>1, <2>2, <2>3, <2>4, RunGoesOn DEF FailedForNow
  <1> QED  BY <1>5, <1>6

\* gather() is done: what the run has not given up is on record.
LEMMA RunEnds == CheckpointInv /\ EndRun => CheckpointInv'
  <1> SUFFICES ASSUME CheckpointInv, EndRun PROVE CheckpointInv'  OBVIOUS
  <1>1. UNCHANGED lines  BY DEF EndRun
  <1> USE <1>1, FileKept
  <1>2. InHand = {} /\ InHand' = {}  BY DEF EndRun, InHand
  <1>3. BatchTypeOK'  BY DEF EndRun, CheckpointInv, BatchTypeOK
  <1>4. RunIsComplete'  BY <1>2 DEF EndRun, CheckpointInv, RunIsComplete
  <1>5. \A i : ToPay(i)' = ToPay(i)  BY DEF ToPay, EndRun
  <1> QED  BY <1>2, <1>3, <1>4, <1>5 DEF EndRun, CheckpointInv

\* What a record leaves of the bounds on the file, the kill that may come with it counted.
LEMMA RecordCounted ==
    ASSUME CheckpointInv, NEW rec \in [id : NewsIds, outcome : Outcomes],
           NEW ends \in {"whole", "bare", "cut"}, lines' = Written(rec, ends),
           kills' \in Nat, kills' = IF ends = "whole" THEN kills ELSE kills + 1
    PROVE  /\ IsFiniteSet(Spoiled') /\ Cardinality(Spoiled') <= kills'
           /\ \A k \in DOMAIN lines' :
                Len(lines'[k].recs) <= IF lines'[k].ends = "whole" THEN kills' + 1 ELSE kills'
  <1>1. lines \in Seq(Lines) /\ \A k \in DOMAIN lines : lines[k].recs # <<>>
    BY DEF CheckpointInv, BatchTypeOK
  <1>2. kills \in Nat  BY BatchAssumption DEF BatchAssumption, CheckpointInv, BatchTypeOK
  <1>3. /\ IsFiniteSet(Spoiled) /\ Cardinality(Spoiled) <= kills
        /\ \A k \in DOMAIN lines :
             Len(lines[k].recs) <= IF lines[k].ends = "whole" THEN kills + 1 ELSE kills
    BY DEF CheckpointInv
  <1>4. /\ Torn \/ ends = "whole" => Spoiled' = Spoiled
        /\ Spoiled \subseteq Spoiled' /\ Spoiled' \subseteq Spoiled \cup {Len(lines')}
        /\ \A k \in DOMAIN lines' :
             \/ k \in DOMAIN lines /\ lines'[k] = lines[k]
             \/ lines'[k].ends = ends /\ ~Torn /\ Len(lines'[k].recs) = 1
             \/ /\ lines'[k].ends = ends /\ k \in DOMAIN lines
                /\ lines[k].ends # "whole" /\ Len(lines'[k].recs) = Len(lines[k].recs) + 1
    BY <1>1, RecordWritten
  <1>5. Cardinality(Spoiled) \in Nat  BY <1>3, FS_CardinalityType
  <1>6. IsFiniteSet(Spoiled') /\ Cardinality(Spoiled') <= kills'
    <2>1. CASE Spoiled' = Spoiled  BY <2>1, <1>2, <1>3, <1>5
    <2>2. CASE Spoiled' # Spoiled
      <3> DEFINE n == Len(lines')
      <3> HIDE DEF n
      <3> DEFINE S == Spoiled
                 T == Spoiled'
      <3> HIDE DEF S, T
      <3>0. S \subseteq T /\ T \subseteq S \cup {n} /\ T # S /\ ends # "whole"
        BY <2>2, <1>4 DEF n, S, T
      <3>1. ends # "whole" /\ Spoiled' = Spoiled \cup {n} /\ n \notin Spoiled
        <4>1. n \in T /\ n \notin S  BY <3>0
        <4>2. T = S \cup {n}  BY <3>0, <4>1
        <4> QED  BY <3>0, <4>1, <4>2 DEF S, T
      <3>2. IsFiniteSet(Spoiled \cup {n}) /\ Cardinality(Spoiled \cup {n}) = Cardinality(Spoiled) + 1
        BY <1>3, <3>1, FS_AddElement
      <3> QED  BY <1>2, <1>3, <1>5, <3>1, <3>2
    <2> QED  BY <2>1, <2>2
  <1>7. \A k \in DOMAIN lines : Len(lines[k].recs) \in Nat
    <2> TAKE k \in DOMAIN lines
    <2>1. lines[k] \in Lines  BY <1>1
    <2>2. lines[k].recs \in Seq([id : NewsIds, outcome : Outcomes])  BY <2>1 DEF Lines
    <2> QED  BY <2>2
  <1>8. \A k \in DOMAIN lines' :
          Len(lines'[k].recs) <= IF lines'[k].ends = "whole" THEN kills' + 1 ELSE kills'
    <2> TAKE k \in DOMAIN lines'
    <2>1. CASE k \in DOMAIN lines /\ lines'[k] = lines[k]  BY <2>1, <1>2, <1>3, <1>7
    <2>2. CASE lines'[k].ends = ends /\ ~Torn /\ Len(lines'[k].recs) = 1  BY <2>2, <1>2
    <2>3. CASE /\ lines'[k].ends = ends /\ k \in DOMAIN lines
               /\ lines[k].ends # "whole" /\ Len(lines'[k].recs) = Len(lines[k].recs) + 1
      <3>1. Len(lines[k].recs) <= kills  BY <2>3, <1>3
      <3> QED  BY <3>1, <2>3, <1>2, <1>7
    <2> QED  BY <2>1, <2>2, <2>3, <1>4
  <1> QED  BY <1>6, <1>8

\* An answer of the current run is one that nobody else has, and is of the right kind.
LEMMA AnswerInHand ==
    ASSUME CheckpointInv, NEW i \in DOMAIN answered
    PROVE  /\ i \in NewsIds /\ live /\ i \notin waiting /\ i \notin DOMAIN calling
           /\ i \notin Processed /\ [id |-> i, outcome |-> answered[i]] \in [id : NewsIds, outcome : Outcomes]
  <1>1. BatchTypeOK  BY DEF CheckpointInv
  <1>2. i \notin Processed  BY DEF CheckpointInv, InHand
  <1> QED  BY <1>1, <1>2 DEF BatchTypeOK

\* A record lands in the file (append_checkpoint).  In a torn line it is lost again, and
\* with it perhaps the one that was there: those are the answers that the torn line takes.
LEMMA RecordKept ==
    ASSUME CheckpointInv, NEW i \in DOMAIN answered, WriteRecord(i) PROVE CheckpointInv'
  <1> USE BatchAssumption
  <1> DEFINE rec == [id |-> i, outcome |-> answered[i]]
  <1>1. BatchTypeOK /\ IsFiniteSet(DOMAIN calling)  BY DEF CheckpointInv
  <1>2. /\ i \in NewsIds /\ live /\ i \notin waiting /\ i \notin DOMAIN calling
        /\ i \notin Processed /\ rec \in [id : NewsIds, outcome : Outcomes]
    BY AnswerInHand
  <1>3. lines' = Written(rec, "whole") /\ answered' = Drop(answered, i)  BY DEF WriteRecord
  <1>4. kills \in Nat  BY <1>1 DEF BatchTypeOK, BatchAssumption
  <1>5. rec.id = i  OBVIOUS
  <1> HIDE DEF rec
  <1>6. /\ lines' \in Seq(Lines) /\ \A k \in DOMAIN lines' : lines'[k].recs # <<>>
        /\ \A j : OnRecord(j) => OnRecord(j)'
        /\ OnRecord(i)' /\ ~Torn'
        /\ Processed' \subseteq Processed \cup {i}
        /\ ~Torn => Processed \subseteq Processed' /\ i \in Processed'
        /\ OneRecordPerId'
    <2>1. lines \in Seq(Lines) /\ \A k \in DOMAIN lines : lines[k].recs # <<>>
      BY <1>1 DEF BatchTypeOK
    <2>2. OneRecordPerId  BY DEF CheckpointInv
    <2> QED  BY <1>2, <1>3, <1>5, <2>1, <2>2, RecordWritten
  <1>7. /\ IsFiniteSet(Spoiled') /\ Cardinality(Spoiled') <= kills'
        /\ \A k \in DOMAIN lines' :
             Len(lines'[k].recs) <= IF lines'[k].ends = "whole" THEN kills' + 1 ELSE kills'
    <2>1. kills' = kills  BY DEF WriteRecord
    <2> QED  BY <1>2, <1>3, <1>4, <2>1, RecordCounted
  <1>8. DOMAIN answered' = DOMAIN answered \ {i}  BY <1>3, RestrictedCalls
  <1>9. answered' \in [DOMAIN answered' -> Outcomes]
    <2>1. \A j \in DOMAIN answered' : answered'[j] \in Outcomes
      <3>1. \A j \in DOMAIN answered \ {i} : answered'[j] = answered[j]
        BY <1>3 DEF Drop, Restrict
      <3>2. \A j \in DOMAIN answered : answered[j] \in Outcomes  BY <1>1 DEF BatchTypeOK
      <3> QED  BY <3>1, <3>2, <1>8
    <2>2. answered' = [j \in DOMAIN answered' |-> answered'[j]]  BY <1>3 DEF Drop, Restrict
    <2> QED  BY <2>1, <2>2
  <1>10. BatchTypeOK'  BY <1>1, <1>2, <1>6, <1>8, <1>9 DEF BatchTypeOK, WriteRecord
  <1>11. InHand' = InHand \ {i}  BY <1>2, <1>8 DEF InHand, WriteRecord
  <1>12. InHand' \cap Processed' = {}  BY <1>6, <1>11 DEF CheckpointInv
  <1>13. \A j \in NewsIds : asked'[j] + ToPay(j)' <= 1 + 2 * kills'
    <2> TAKE j \in NewsIds
    <2>1. asked[j] \in Nat /\ asked'[j] = asked[j] /\ kills' = kills
      BY <1>1 DEF BatchTypeOK, WriteRecord
    <2>2. ToPay(j)' <= ToPay(j) /\ ToPay(j) \in Nat /\ ToPay(j)' \in Nat
      BY <1>6, <1>8 DEF ToPay
    <2>3. asked[j] + ToPay(j) <= 1 + 2 * kills  BY DEF CheckpointInv
    <2> HIDE DEF ToPay
    <2> QED  BY <1>4, <2>1, <2>2, <2>3
  <1>14. RunIsComplete'  BY <1>2, <1>10 DEF BatchTypeOK, WriteRecord, RunIsComplete
  <1>15. live' => \A j \in NewsIds \ (given' \cup InHand') : OnRecord(j)'
    BY <1>2, <1>6, <1>11 DEF CheckpointInv, WriteRecord
  <1>16. IsFiniteSet(DOMAIN calling')  BY <1>1 DEF WriteRecord
  <1> QED  BY <1>6, <1>7, <1>10, <1>12, <1>13, <1>14, <1>15, <1>16 DEF CheckpointInv

\* The process is killed: the answers on their way are lost, and one line may be torn.  That
\* is at most two answers of one id, the lost one and the one that the torn line will take.
LEMMA RunKilled == CheckpointInv /\ Kill => CheckpointInv'
  <1> SUFFICES ASSUME CheckpointInv, Kill PROVE CheckpointInv'  OBVIOUS
  <1> USE BatchAssumption
  <1>1. BatchTypeOK /\ IsFiniteSet(DOMAIN calling)  BY DEF CheckpointInv
  <1>2. kills \in Nat /\ kills' = kills + 1 /\ kills' \in 0 .. MaxKills
    BY <1>1 DEF Kill, BatchTypeOK, BatchAssumption
  <1>3. ~live' /\ ~completed /\ completed' = completed  BY <1>1 DEF Kill, BatchTypeOK
  <1>4. waiting' = {} /\ calling' = NoneOf /\ answered' = NoneOf  BY DEF Kill
  <1>5. DOMAIN calling' = {} /\ DOMAIN answered' = {}  BY <1>4 DEF NoneOf
  <1>6. calling' \in [DOMAIN calling' -> 1 .. MaxTries] /\ answered' \in [DOMAIN answered' -> Outcomes]
    BY <1>4 DEF NoneOf
  <1>7. IsFiniteSet({}) /\ Cardinality({}) = 0  BY FS_EmptySet
  <1>8. IsFiniteSet(DOMAIN calling') /\ Cardinality(DOMAIN calling') <= Concurrency
    BY <1>5, <1>7 DEF BatchAssumption
  <1>9. InHand' = {}  BY <1>4, <1>5 DEF InHand
  <1>10. RunIsComplete'  BY <1>3 DEF RunIsComplete
  <1>11. \A j \in NewsIds : asked'[j] + ToPay(j)' <= 1 + 2 * kills'
    <2> TAKE j \in NewsIds
    <2>1. asked[j] \in Nat /\ asked'[j] = asked[j]  BY <1>1 DEF BatchTypeOK, Kill
    <2>2. ToPay(j) \in Nat /\ ToPay(j)' \in 0 .. 2  BY DEF ToPay
    <2>3. asked[j] + ToPay(j) <= 1 + 2 * kills  BY DEF CheckpointInv
    <2> HIDE DEF ToPay
    <2> QED  BY <1>2, <2>1, <2>2, <2>3
  <1>12. lines' \in Seq(Lines) /\ (\A k \in DOMAIN lines' : lines'[k].recs # <<>>) => BatchTypeOK'
    BY <1>1, <1>2, <1>3, <1>4, <1>5, <1>6, <1>8 DEF BatchTypeOK, Kill
  <1>13. CASE UNCHANGED lines
    <2>1. BatchTypeOK'  BY <1>1, <1>12, <1>13 DEF BatchTypeOK
    <2>2. OneRecordPerId' /\ Spoiled' = Spoiled  BY <1>13, FileKept DEF CheckpointInv
    <2>3. Cardinality(Spoiled) \in Nat  BY FS_CardinalityType DEF CheckpointInv
    <2>4. IsFiniteSet(Spoiled') /\ Cardinality(Spoiled') <= kills'
      BY <1>2, <2>2, <2>3 DEF CheckpointInv
    <2>5. \A k \in DOMAIN lines' :
            Len(lines'[k].recs) <= IF lines'[k].ends = "whole" THEN kills' + 1 ELSE kills'
      <3> TAKE k \in DOMAIN lines'
      <3>1. lines' = lines /\ lines[k] \in Lines  BY <1>1, <1>13 DEF BatchTypeOK
      <3>2. lines[k].recs \in Seq([id : NewsIds, outcome : Outcomes])  BY <3>1 DEF Lines
      <3>3. Len(lines[k].recs) \in Nat  BY <3>2
      <3>4. Len(lines[k].recs) <= IF lines[k].ends = "whole" THEN kills + 1 ELSE kills
        BY <3>1 DEF CheckpointInv
      <3> QED  BY <1>2, <3>1, <3>3, <3>4
    <2> QED  BY <1>3, <1>8, <1>9, <1>10, <1>11, <2>1, <2>2, <2>4, <2>5 DEF CheckpointInv
  <1>14. CASE ~UNCHANGED lines
    <2>1. PICK i \in DOMAIN answered, ends \in {"cut", "bare"} :
            lines' = Written([id |-> i, outcome |-> answered[i]], ends)
      BY <1>14 DEF Kill
    <2> DEFINE rec == [id |-> i, outcome |-> answered[i]]
    <2>2. i \notin Processed /\ rec \in [id : NewsIds, outcome : Outcomes]  BY AnswerInHand
    <2>3. rec.id = i  OBVIOUS
    <2> HIDE DEF rec
    <2>4. lines \in Seq(Lines) /\ \A k \in DOMAIN lines : lines[k].recs # <<>>
      BY <1>1 DEF BatchTypeOK
    <2>5. lines' = Written(rec, ends) /\ ends \in {"whole", "bare", "cut"} /\ ends # "whole"
      BY <2>1 DEF rec
    <2>6. OneRecordPerId  BY DEF CheckpointInv
    <2>7. lines' \in Seq(Lines) /\ (\A k \in DOMAIN lines' : lines'[k].recs # <<>>) /\ OneRecordPerId'
      BY <2>2, <2>3, <2>4, <2>5, <2>6, RecordWritten
    <2>8. /\ IsFiniteSet(Spoiled') /\ Cardinality(Spoiled') <= kills'
          /\ \A k \in DOMAIN lines' :
               Len(lines'[k].recs) <= IF lines'[k].ends = "whole" THEN kills' + 1 ELSE kills'
      BY <1>2, <2>2, <2>5, RecordCounted
    <2>9. BatchTypeOK'  BY <1>12, <2>7
    <2> QED  BY <1>3, <1>8, <1>9, <1>10, <1>11, <2>7, <2>8, <2>9 DEF CheckpointInv
  <1> QED  BY <1>13, <1>14

\* Lines of a set of indices, counted once each.
LEMMA LinesOf ==
    ASSUME NEW f, NEW D, D \subseteq DOMAIN f, IsFiniteSet(D)
    PROVE  IsFiniteSet({f[k] : k \in D}) /\ Cardinality({f[k] : k \in D}) <= Cardinality(D)
  <1> DEFINE g == [k \in D |-> f[k]]
             T == {f[k] : k \in D}
  <1>1. g \in Surjection(D, T)  BY DEF Surjection
  <1> HIDE DEF g, T
  <1>2. IsFiniteSet(T) /\ Cardinality(T) <= Cardinality(D)  BY <1>1, FS_Surjection
  <1> QED  BY <1>2 DEF T

LEMMA PaidOnce == CheckpointInv => AnswersPaidOnce
  <1> SUFFICES ASSUME CheckpointInv PROVE AnswersPaidOnce  OBVIOUS
  <1>1. kills \in Nat  BY BatchAssumption DEF BatchAssumption, CheckpointInv, BatchTypeOK
  <1> DEFINE D == {k \in DOMAIN lines : ~WholeLine(lines[k])}
             torn == {l \in Range(lines) : ~WholeLine(l)}
  <1>2. torn = {lines[k] : k \in D}  BY DEF Range
  <1>3. D \subseteq Spoiled /\ D \subseteq DOMAIN lines  BY DEF Spoiled
  <1>4. IsFiniteSet(Spoiled) /\ Cardinality(Spoiled) <= kills  BY DEF CheckpointInv
  <1> HIDE DEF D
  <1>5. IsFiniteSet(D) /\ Cardinality(D) <= Cardinality(Spoiled)  BY <1>3, <1>4, FS_Subset
  <1>6. IsFiniteSet(torn) /\ Cardinality(torn) <= Cardinality(D)
    BY <1>2, <1>3, <1>5, LinesOf
  <1> HIDE DEF torn
  <1>7. Cardinality(torn) <= kills /\ (kills = 0 => torn = {})
    <2>1. Cardinality(torn) \in Nat /\ Cardinality(D) \in Nat /\ Cardinality(Spoiled) \in Nat
      BY <1>4, <1>5, <1>6, FS_CardinalityType
    <2>2. Cardinality(torn) = 0 => torn = {}  BY <1>6, FS_EmptySet
    <2> QED  BY <1>1, <1>4, <1>5, <1>6, <2>1, <2>2
  <1>8. \A l \in torn : Len(l.recs) <= 1 + kills
    <2> TAKE l \in torn
    <2>1. PICK k \in DOMAIN lines : l = lines[k]  BY DEF torn, Range
    <2>2. Len(l.recs) <= kills + 1 \/ Len(l.recs) <= kills  BY <2>1 DEF CheckpointInv
    <2>3. l \in Lines  BY <2>1 DEF CheckpointInv, BatchTypeOK
    <2>4. l.recs \in Seq([id : NewsIds, outcome : Outcomes])  BY <2>3 DEF Lines
    <2>5. Len(l.recs) \in Nat  BY <2>4
    <2> QED  BY <1>1, <2>2, <2>5
  <1>9. \A i \in NewsIds : asked[i] <= 1 + 2 * kills
    <2> TAKE i \in NewsIds
    <2>1. asked[i] \in Nat /\ ToPay(i) \in Nat  BY DEF CheckpointInv, BatchTypeOK, ToPay
    <2>2. asked[i] + ToPay(i) <= 1 + 2 * kills  BY DEF CheckpointInv
    <2> QED  BY <1>1, <2>1, <2>2
  <1> QED  BY <1>7, <1>8, <1>9 DEF AnswersPaidOnce, torn

THEOREM CheckpointInvariant == BatchSpec => []CheckpointInv
  <1>1. CheckpointInv /\ [BatchNext]_batchVars => CheckpointInv'
    <2> SUFFICES ASSUME CheckpointInv, [BatchNext]_batchVars PROVE CheckpointInv'  OBVIOUS
    <2>1. CASE StartRun  BY <2>1, RunStarts
    <2>2. CASE EnterCall  BY <2>2, CallEntered
    <2>3. CASE EndRun  BY <2>3, RunEnds
    <2>4. CASE Kill  BY <2>4, RunKilled
    <2>5. CASE \E i \in DOMAIN calling : CallAnswered(i) \/ FailedForNow(i)
      BY <2>5, CallPaid, CallFailed
    <2>6. CASE \E i \in DOMAIN answered : WriteRecord(i)  BY <2>6, RecordKept
    <2>7. CASE UNCHANGED batchVars
      <3>1. /\ lines' = lines /\ waiting' = waiting /\ calling' = calling /\ answered' = answered
            /\ live' = live /\ completed' = completed /\ given' = given /\ asked' = asked
            /\ troubles' = troubles /\ kills' = kills
        BY <2>7 DEF batchVars
      <3>2. BatchTypeOK'  BY <3>1 DEF CheckpointInv, BatchTypeOK
      <3>3. InHand' = InHand /\ \A i : ToPay(i)' = ToPay(i)  BY <3>1, FileKept DEF InHand, ToPay
      <3> QED  BY <3>1, <3>2, <3>3, FileKept DEF CheckpointInv, RunIsComplete
    <2> QED  BY <2>1, <2>2, <2>3, <2>4, <2>5, <2>6, <2>7 DEF BatchNext
  <1> QED  BY <1>1, CheckpointStart, PTL DEF BatchSpec

\* CheckpointIsSound: however often the script is killed, also within a write, the checkpoint
\* has one readable record of each id, an answer is paid for at most twice more per kill, and
\* a run that came to its end has a record of every id it did not give up.
THEOREM CheckpointIsSoundHolds == BatchSpec => []CheckpointIsSound
  <1>1. CheckpointInv => CheckpointIsSound
    BY PaidOnce DEF CheckpointInv, CheckpointIsSound
  <1> QED  BY <1>1, CheckpointInvariant, PTL

-------------------------------------------------------------------------------
(* QuikFeed.  First the rows that a cycle of the script writes: those of    *)
(* the tickers one after the other, each in the order of time.             *)

\* FlattenSeq joins one sequence after the other.
LEMMA Flattened ==
    ASSUME NEW S, NEW n \in Nat \ {0}, NEW s \in [1 .. n -> Seq(S)]
    PROVE  \E f \in [1 .. n -> Seq(S)] :
              FlattenSeq(s) = f[n] /\ f[1] = s[1] /\ \A i \in 2 .. n : f[i] = f[i - 1] \o s[i]
  <1> DEFINE P(h) == h = [i \in 1 .. n |-> IF i = 1 THEN s[i] ELSE h[i - 1] \o s[i]]
             next == [p \in Nat \X Seq(S) |-> IF p[1] \in 1 .. n THEN p[2] \o s[p[1]] ELSE p[2]]
  <1>1. s \in Seq(Seq(S)) /\ Len(s) = n /\ n # 0  OBVIOUS
  <1>2. FlattenSeq(s) = (CHOOSE h : P(h))[n]  BY <1>1 DEF FlattenSeq
  <1>3. \A a, b \in Seq(S) : a \o b \in Seq(S) /\ <<>> \o b = b /\ <<>> \in Seq(S)  OBVIOUS
  <1>4. \A i \in 1 .. n : s[i] \in Seq(S) /\ i \in Nat  OBVIOUS
  <1>5. next \in [Nat \X Seq(S) -> Seq(S)] /\ <<>> \in Seq(S)
    <2>1. \A p \in Nat \X Seq(S) : p[2] \in Seq(S) /\ (p[1] \in 1 .. n => p[2] \o s[p[1]] \in Seq(S))
      BY <1>3, <1>4
    <2> QED  BY <2>1
  <1>6. \A i \in 1 .. n, a \in Seq(S) : next[<<i, a>>] = a \o s[i]  BY <1>4
  <1> HIDE DEF next
  <1>7. PICK g \in [0 .. n -> Seq(S)] : g[0] = <<>> /\ \A i \in 1 .. n : g[i] = next[<<i, g[i - 1]>>]
    <2>1. Runs(Seq(S), <<>>, next, n) # {}  BY <1>5, StepByStep
    <2> QED  BY <2>1 DEF Runs
  <1>8. \A i \in 1 .. n : i - 1 \in 0 .. n /\ i \in 0 .. n  OBVIOUS
  <1>9. \A i \in 1 .. n : g[i] = g[i - 1] \o s[i]  BY <1>6, <1>7, <1>8
  <1>10. 1 \in 1 .. n /\ n \in 1 .. n /\ 1 - 1 = 0 /\ \A i \in 1 .. n : i # 1 => i - 1 \in 1 .. n  OBVIOUS
  <1>11. g[1] = s[1]
    <2>1. g[1] = g[1 - 1] \o s[1] /\ s[1] \in Seq(S)  BY <1>4, <1>9, <1>10
    <2>2. g[1 - 1] = <<>>  BY <1>7, <1>10
    <2> QED  BY <2>1, <2>2, <1>3
  <1> DEFINE h0 == [i \in 1 .. n |-> g[i]]
  <1>12. \A i \in 1 .. n : h0[i] = IF i = 1 THEN s[i] ELSE h0[i - 1] \o s[i]
    <2> TAKE i \in 1 .. n
    <2>1. CASE i = 1  BY <2>1, <1>11
    <2>2. CASE i # 1
      <3>1. i - 1 \in 1 .. n  BY <2>2, <1>10
      <3>2. h0[i - 1] = g[i - 1] /\ h0[i] = g[i]  BY <3>1
      <3> QED  BY <2>2, <3>2, <1>9
    <2> QED  BY <2>1, <2>2
  <1>13. P(h0)  BY <1>12
  <1>14. P(CHOOSE h : P(h))
    <2> HIDE DEF P
    <2> QED  BY <1>13
  <1>15. PICK f : P(f) /\ FlattenSeq(s) = f[n]  BY <1>2, <1>14
  <1>16. DOMAIN f = 1 .. n /\ \A i \in 1 .. n : f[i] = IF i = 1 THEN s[i] ELSE f[i - 1] \o s[i]
    <2>1. f = [i \in 1 .. n |-> IF i = 1 THEN s[i] ELSE f[i - 1] \o s[i]]  BY <1>15
    <2> QED  BY <2>1
  <1>17. f = [i \in 1 .. n |-> f[i]]
    <2>1. f = [i \in 1 .. n |-> IF i = 1 THEN s[i] ELSE f[i - 1] \o s[i]]  BY <1>15
    <2> QED  BY <2>1
  <1> HIDE DEF P
  <1> DEFINE Good == {m \in Nat : m + 1 \in 1 .. n => f[m + 1] \in Seq(S)}
  <1>18. 0 \in Good
    <2>1. f[1] = s[1] /\ 0 + 1 = 1  BY <1>10, <1>16
    <2> QED  BY <2>1, <1>4, <1>10
  <1>19. ASSUME NEW m \in Good PROVE m + 1 \in Good
    <2> SUFFICES ASSUME (m + 1) + 1 \in 1 .. n PROVE f[(m + 1) + 1] \in Seq(S)  OBVIOUS
    <2> DEFINE i == (m + 1) + 1
    <2>1. m \in Nat /\ m + 1 \in 1 .. n /\ i # 1 /\ i - 1 = m + 1 /\ i \in 1 .. n  OBVIOUS
    <2>2. f[m + 1] \in Seq(S)  BY <2>1
    <2> HIDE DEF i, Good
    <2>3. f[i] = f[m + 1] \o s[i]  BY <2>1, <1>16
    <2>4. f[i] \in Seq(S)  BY <2>1, <2>2, <2>3, <1>3, <1>4
    <2> QED  BY <2>4 DEF i
  <1>20. Good \in SUBSET Nat  OBVIOUS
  <1> HIDE DEF Good
  <1>21. \A m \in Nat : m \in Good  BY <1>18, <1>19, <1>20, AllNumbers
  <1>22. \A i \in 1 .. n : f[i] \in Seq(S)
    <2> TAKE i \in 1 .. n
    <2>1. i - 1 \in Nat /\ (i - 1) + 1 = i  OBVIOUS
    <2>2. (i - 1) + 1 \in 1 .. n => f[(i - 1) + 1] \in Seq(S)  BY <2>1, <1>21 DEF Good
    <2> QED  BY <2>1, <2>2
  <1>23. f \in [1 .. n -> Seq(S)]  BY <1>17, <1>22
  <1>24. f[1] = s[1] /\ \A i \in 2 .. n : f[i] = f[i - 1] \o s[i]
    <2>1. \A i \in 2 .. n : i \in 1 .. n /\ i # 1  OBVIOUS
    <2> QED  BY <1>10, <1>16, <2>1
  <1> QED  BY <1>15, <1>23, <1>24

LEMMA FeedBounds ==
    /\ MaxMinute \in Nat /\ Window \in Nat /\ ScanMax \in Nat /\ MaxTrouble \in Nat
    /\ Legacy \subseteq Tickers /\ Modes \subseteq {"all", "tail", "xlsx"}
  BY FeedAssumption

LEMMA TickersListed ==
    ASSUME listed \in Scripts
    PROVE  /\ Len(listed) \in Nat \ {0} /\ DOMAIN listed = 1 .. Len(listed)
           /\ ToSet(listed) \subseteq Tickers /\ \A k \in DOMAIN listed : listed[k] \in ToSet(listed)
           /\ \A k, l \in DOMAIN listed : listed[k] = listed[l] => k = l
  <1>1. listed \in Seq(ToSet(listed)) /\ listed # <<>> /\ IsInjective(listed)  BY FeedAssumption
  <1>2. ToSet(listed) \subseteq Tickers  BY DEF Tickers
  <1> DEFINE S == ToSet(listed)
  <1>3. listed \in Seq(S)  BY <1>1
  <1> HIDE DEF S
  <1>4. Len(listed) \in Nat /\ DOMAIN listed = 1 .. Len(listed) /\ Len(listed) # 0
    BY <1>1, <1>3
  <1>5. \A k \in DOMAIN listed : listed[k] \in ToSet(listed)  BY DEF ToSet
  <1> QED  BY <1>1, <1>2, <1>4, <1>5 DEF IsInjective

\* The bars of one ticker.
LEMMA FreshRows ==
    ASSUME now \in Nat, lastDump \in [Tickers -> 0 .. now], NEW t \in Tickers, NEW from \in 1 .. now
    PROVE  /\ Fresh(t, from) \in Seq(Completed)
           /\ \A i \in DOMAIN Fresh(t, from) :
                Fresh(t, from)[i].t = t /\ Fresh(t, from)[i].m > lastDump[t]
           /\ \A i, j \in DOMAIN Fresh(t, from) : i < j => Fresh(t, from)[i].m < Fresh(t, from)[j].m
  <1> DEFINE first == IF from > lastDump[t] THEN from ELSE lastDump[t] + 1
             n == now - first + 1
  <1>1. first \in 1 .. now + 1 /\ first > lastDump[t] /\ first \in Nat  OBVIOUS
  <1> HIDE DEF first
  <1>2. n \in Nat  BY <1>1
  <1>3. \A i \in 1 .. n : first + i - 1 \in 1 .. now /\ first + i - 1 > lastDump[t]  BY <1>1
  <1> DEFINE s == [i \in 1 .. n |-> [t |-> t, m |-> first + i - 1]]
  <1>4. Fresh(t, from) = s  BY DEF Fresh, first
  <1>5. \A i \in 1 .. n : s[i] = [t |-> t, m |-> first + i - 1] /\ s[i] \in Completed
    BY <1>3 DEF Completed
  <1> HIDE DEF n
  <1>6. s \in Seq(Completed) /\ DOMAIN s = 1 .. n  BY <1>2, <1>5
  <1>7. \A i, j \in 1 .. n : i < j => first + i - 1 < first + j - 1  BY <1>1, <1>2
  <1> QED  BY <1>3, <1>4, <1>5, <1>6, <1>7

\* What a sequence of bars is like that belongs to a set of tickers.
RowsOf(s, tickers) ==
    /\ s \in Seq(Completed)
    /\ \A i \in DOMAIN s : s[i].t \in tickers /\ s[i].m > lastDump[s[i].t]
    /\ \A i, j \in DOMAIN s : i < j /\ s[i].t = s[j].t => s[i].m < s[j].m

LEMMA RowsJoined ==
    ASSUME now \in Nat, lastDump \in [Tickers -> 0 .. now],
           NEW a, NEW b, NEW S, NEW T, RowsOf(a, S), RowsOf(b, T), S \cap T = {}
    PROVE  RowsOf(a \o b, S \cup T)
  <1>1. a \in Seq(Completed) /\ b \in Seq(Completed)  BY DEF RowsOf
  <1> DEFINE c == a \o b
  <1>2. /\ c \in Seq(Completed)
        /\ \A i \in DOMAIN c : \/ i \in DOMAIN a /\ c[i] = a[i]
                               \/ i - Len(a) \in DOMAIN b /\ c[i] = b[i - Len(a)] /\ i > Len(a)
        /\ Len(a) \in Nat /\ DOMAIN a = 1 .. Len(a) /\ DOMAIN c \subseteq Nat
    <2> DEFINE R == Completed
    <2>1. a \in Seq(R) /\ b \in Seq(R)  BY <1>1
    <2> HIDE DEF R
    <2> QED  BY <2>1 DEF R
  <1> HIDE DEF c
  <1>3. \A i \in DOMAIN c : c[i].t \in S \cup T /\ c[i].m > lastDump[c[i].t]
    BY <1>2 DEF RowsOf
  <1>4. \A i, j \in DOMAIN c : i < j /\ c[i].t = c[j].t => c[i].m < c[j].m
    <2> SUFFICES ASSUME NEW i \in DOMAIN c, NEW j \in DOMAIN c, i < j, c[i].t = c[j].t
                 PROVE  c[i].m < c[j].m
      OBVIOUS
    <2>1. CASE i \in DOMAIN a /\ c[i] = a[i] /\ j \in DOMAIN a /\ c[j] = a[j]
      BY <2>1 DEF RowsOf
    <2>2. CASE i > Len(a) /\ j > Len(a)
      <3>1. /\ i - Len(a) \in DOMAIN b /\ c[i] = b[i - Len(a)]
            /\ j - Len(a) \in DOMAIN b /\ c[j] = b[j - Len(a)]
        BY <2>2, <1>2
      <3>2. i - Len(a) < j - Len(a)  BY <1>2
      <3> QED  BY <3>1, <3>2 DEF RowsOf
    <2>3. CASE i \in DOMAIN a /\ c[i] = a[i] /\ j > Len(a)
      <3>1. c[i].t \in S /\ c[j].t \in T  BY <2>3, <1>2 DEF RowsOf
      <3> QED  BY <3>1
    <2>4. CASE i > Len(a) /\ j \in DOMAIN a  BY <2>4, <1>2
    <2> QED  BY <2>1, <2>2, <2>3, <2>4, <1>2
  <1> QED  BY <1>2, <1>3, <1>4 DEF RowsOf, c

\* dump_completed_bars.
LEMMA NewRows ==
    ASSUME now \in Nat, lastDump \in [Tickers -> 0 .. now], listed \in Scripts,
           NEW from \in [DOMAIN listed -> 1 .. now]
    PROVE  RowsOf(FlattenSeq([k \in DOMAIN listed |-> Fresh(listed[k], from[k])]), ToSet(listed))
  <1> DEFINE n == Len(listed)
             s == [k \in DOMAIN listed |-> Fresh(listed[k], from[k])]
             Names(i) == {listed[k] : k \in 1 .. i}
  <1>1. /\ n \in Nat \ {0} /\ DOMAIN listed = 1 .. n
        /\ ToSet(listed) \subseteq Tickers /\ \A k \in 1 .. n : listed[k] \in ToSet(listed)
        /\ \A k, l \in 1 .. n : listed[k] = listed[l] => k = l
    BY TickersListed
  <1> HIDE DEF n
  <1>2. \A k \in 1 .. n : s[k] = Fresh(listed[k], from[k]) /\ listed[k] \in Tickers /\ from[k] \in 1 .. now
    BY <1>1
  <1>3. \A k \in 1 .. n : RowsOf(s[k], {listed[k]})
    <2> TAKE k \in 1 .. n
    <2> DEFINE r == s[k]
               t == listed[k]
    <2>1. r = Fresh(t, from[k]) /\ t \in Tickers /\ from[k] \in 1 .. now  BY <1>2
    <2> HIDE DEF r, t, s
    <2>2. /\ r \in Seq(Completed) /\ \A i \in DOMAIN r : r[i].t = t /\ r[i].m > lastDump[t]
          /\ \A i, j \in DOMAIN r : i < j => r[i].m < r[j].m
      BY <2>1, FreshRows
    <2>3. RowsOf(r, {t})  BY <2>2 DEF RowsOf
    <2> QED  BY <2>3 DEF r, t
  <1>4. s \in [1 .. n -> Seq(Completed)]  BY <1>1, <1>3 DEF RowsOf
  <1> HIDE DEF s
  <1>5. PICK f \in [1 .. n -> Seq(Completed)] :
          FlattenSeq(s) = f[n] /\ f[1] = s[1] /\ \A i \in 2 .. n : f[i] = f[i - 1] \o s[i]
    <2>1. n \in Nat \ {0}  BY <1>1
    <2>2. \A S : \A m \in Nat \ {0} : \A q \in [1 .. m -> Seq(S)] :
            \E f \in [1 .. m -> Seq(S)] :
               FlattenSeq(q) = f[m] /\ f[1] = q[1] /\ \A i \in 2 .. m : f[i] = f[i - 1] \o q[i]
      BY Flattened
    <2>3. \A q \in [1 .. n -> Seq(Completed)] :
            \E f \in [1 .. n -> Seq(Completed)] :
               FlattenSeq(q) = f[n] /\ f[1] = q[1] /\ \A i \in 2 .. n : f[i] = f[i - 1] \o q[i]
      BY <2>1, <2>2
    <2>4. \E q \in [1 .. n -> Seq(Completed)] : q = s  BY <1>4
    <2> QED  BY <2>3, <2>4
  <1> DEFINE Good == {m \in Nat : m + 1 \in 1 .. n => RowsOf(f[m + 1], Names(m + 1))}
  <1>6. 0 \in Good
    <2>1. Names(1) = {listed[1]}  OBVIOUS
    <2>0. 1 \in 1 .. n  BY <1>1
    <2>2. RowsOf(f[1], Names(1))
      <3> HIDE DEF Names
      <3> QED  BY <1>3, <1>5, <2>0, <2>1
    <2> HIDE DEF Names
    <2>3. 0 + 1 = 1  OBVIOUS
    <2> QED  BY <2>2, <2>3
  <1>7. ASSUME NEW m \in Good PROVE m + 1 \in Good
    <2> DEFINE i == (m + 1) + 1
    <2> SUFFICES ASSUME i \in 1 .. n PROVE RowsOf(f[i], Names(i))  OBVIOUS
    <2>1. m \in Nat /\ m + 1 \in 1 .. n /\ i \in 2 .. n /\ i - 1 = m + 1  BY <1>1
    <2>2. RowsOf(f[m + 1], Names(m + 1))  BY <2>1
    <2>3. f[i] = f[m + 1] \o s[i]  BY <2>1, <1>5
    <2>4. Names(i) = Names(m + 1) \cup {listed[i]}
      <3>1. \A k : k \in 1 .. i <=> k \in 1 .. m + 1 \/ k = i  BY <2>1
      <3> HIDE DEF i
      <3> QED  BY <3>1
    <2>5. Names(m + 1) \cap {listed[i]} = {}
      <3>1. \A k \in 1 .. m + 1 : k \in 1 .. n /\ k # i  BY <2>1, <1>1
      <3> QED  BY <3>1, <1>1
    <2> HIDE DEF i, Names, Good
    <2>6. RowsOf(s[i], {listed[i]})  BY <1>3
    <2>7. RowsOf(f[m + 1] \o s[i], Names(m + 1) \cup {listed[i]})
      BY <2>2, <2>5, <2>6, RowsJoined
    <2> QED  BY <2>3, <2>4, <2>7
  <1>8. Good \in SUBSET Nat  OBVIOUS
  <1> HIDE DEF Good
  <1>9. \A m \in Nat : m \in Good  BY <1>6, <1>7, <1>8, AllNumbers
  <1>10. n - 1 \in Nat /\ (n - 1) + 1 = n /\ n \in 1 .. n  BY <1>1
  <1>11. RowsOf(f[n], Names(n))
    <2>1. (n - 1) + 1 \in 1 .. n => RowsOf(f[(n - 1) + 1], Names((n - 1) + 1))
      BY <1>9, <1>10 DEF Good
    <2> HIDE DEF Names
    <2> QED  BY <1>10, <2>1
  <1>12. Names(n) = ToSet(listed)  BY <1>1 DEF ToSet
  <1> QED  BY <1>5, <1>11, <1>12 DEF s

-------------------------------------------------------------------------------
(* The feeder.  What it takes next, and what a published bar adds to the    *)
(* stream.                                                                 *)

LEMMA FirstWanted ==
    ASSUME todo \in Seq(Completed)
    PROVE  /\ NextWanted \in Nat
           /\ NextWanted > 0 => /\ NextWanted \in DOMAIN todo /\ Wanted(todo[NextWanted])
                                /\ \A i \in DOMAIN todo : i < NextWanted => ~Wanted(todo[i])
           /\ NextWanted = 0 => \A i \in DOMAIN todo : ~Wanted(todo[i])
  <1> DEFINE I == {i \in 1 .. Len(todo) : Wanted(todo[i])}
  <1>1. NextWanted = IF I # {} THEN Min(I) ELSE 0  BY DEF NextWanted, SelectInSeq
  <1>2. DOMAIN todo = 1 .. Len(todo) /\ Len(todo) \in Nat
    <2> DEFINE R == Completed
    <2>1. todo \in Seq(R)  OBVIOUS
    <2> HIDE DEF R
    <2> QED  BY <2>1
  <1>3. I \in SUBSET Nat /\ \A i \in I : i > 0  BY <1>2
  <1>4. CASE I = {}  BY <1>1, <1>2, <1>4
  <1>5. CASE I # {}
    <2>1. Min(I) \in I /\ \A y \in I : Min(I) <= y  BY <1>3, <1>5, MinOf
    <2>2. NextWanted = Min(I)  BY <1>1, <1>5
    <2>3. \A i \in DOMAIN todo : i < NextWanted => i \notin I  BY <1>2, <1>3, <2>1, <2>2
    <2>4. NextWanted \in Nat /\ NextWanted > 0 /\ NextWanted \in I  BY <1>3, <2>1, <2>2
    <2> QED  BY <1>2, <2>3, <2>4
  <1> QED  BY <1>4, <1>5

LEMMA StreamKept ==
    ASSUME candles' = candles
    PROVE  \A t, m : Published(t, m)' = Published(t, m) /\ Superseded(t, m)' = Superseded(t, m)
  BY DEF Published, Superseded

LEMMA StreamGrows ==
    ASSUME candles \in Seq(Completed), NEW bar \in Completed, candles' = Append(candles, bar)
    PROVE  /\ \A t, m : Published(t, m) => Published(t, m)'
           /\ \A t, m : Superseded(t, m) => Superseded(t, m)'
           /\ Published(bar.t, bar.m)'
           /\ candles' \in Seq(Completed)
           /\ \A i \in DOMAIN candles' : \/ i \in DOMAIN candles /\ candles'[i] = candles[i]
                                         \/ i = Len(candles) + 1 /\ candles'[i] = bar
           /\ DOMAIN candles = 1 .. Len(candles) /\ Len(candles) \in Nat
  <1> DEFINE R == Completed
  <1>1. candles \in Seq(R) /\ bar \in R  OBVIOUS
  <1> HIDE DEF R
  <1>2. /\ DOMAIN candles = 1 .. Len(candles) /\ Len(candles) \in Nat
        /\ candles' \in Seq(R) /\ Len(candles') = Len(candles) + 1
        /\ DOMAIN candles' = 1 .. Len(candles) + 1
        /\ \A i \in 1 .. Len(candles) : candles'[i] = candles[i]
        /\ candles'[Len(candles) + 1] = bar
    BY <1>1
  <1>3. \A t, m : Published(t, m) => Published(t, m)'
    BY <1>2 DEF Published
  <1>4. Published(bar.t, bar.m)'  BY <1>2 DEF Published
  <1>5. \A t, m : Superseded(t, m) => Superseded(t, m)'  BY <1>3 DEF Superseded
  <1>6. candles' \in Seq(Completed)  BY <1>2 DEF R
  <1> QED  BY <1>2, <1>3, <1>4, <1>5, <1>6

\* A bar that is in the stream, or an older one that is: superseded.
LEMMA NewerSupersedes ==
    ASSUME FeedTypeOK, NEW k \in DOMAIN rows, NEW n \in 0 .. now, rows[k].m <= n, Published(rows[k].t, n)
    PROVE  Superseded(rows[k].t, rows[k].m)
  <1>1. rows[k] \in Completed  BY DEF FeedTypeOK
  <1>2. rows[k].m \in 1 .. now /\ now \in 0 .. MaxMinute  BY <1>1 DEF FeedTypeOK, Completed
  <1>3. n \in rows[k].m .. MaxMinute  BY <1>2, FeedBounds
  <1> QED  BY <1>3 DEF Superseded

\* The types, one by one.
LEMMA RowTypes ==
    ASSUME FeedTypeOK
    PROVE  /\ now \in Nat /\ now <= MaxMinute
           /\ DOMAIN rows = 1 .. Len(rows) /\ Len(rows) \in Nat
           /\ \A k \in DOMAIN rows : rows[k].t \in Tickers /\ rows[k].m \in 1 .. now
           /\ DOMAIN todo = 1 .. Len(todo) /\ Len(todo) \in Nat
           /\ \A i \in DOMAIN todo : todo[i].t \in Tickers /\ todo[i].m \in 1 .. now
           /\ DOMAIN candles = 1 .. Len(candles) /\ Len(candles) \in Nat
           /\ \A i \in DOMAIN candles : candles[i].t \in Tickers /\ candles[i].m \in 1 .. now
           /\ \A t \in Tickers : lastTs[t] \in 0 .. now
  <1>1. now \in Nat /\ now <= MaxMinute  BY FeedBounds DEF FeedTypeOK
  <1>2. ASSUME NEW s \in Seq(Completed)
        PROVE  /\ DOMAIN s = 1 .. Len(s) /\ Len(s) \in Nat
               /\ \A k \in DOMAIN s : s[k].t \in Tickers /\ s[k].m \in 1 .. now
    <2> DEFINE R == Completed
    <2>1. s \in Seq(R)  OBVIOUS
    <2> HIDE DEF R
    <2>2. DOMAIN s = 1 .. Len(s) /\ Len(s) \in Nat /\ \A k \in DOMAIN s : s[k] \in R  BY <2>1
    <2> QED  BY <2>2 DEF R, Completed
  <1>3. rows \in Seq(Completed) /\ todo \in Seq(Completed) /\ candles \in Seq(Completed)
    BY DEF FeedTypeOK
  <1>4. \A t \in Tickers : lastTs[t] \in 0 .. now  BY DEF FeedTypeOK
  <1> HIDE DEF FeedTypeOK
  <1> QED  BY <1>1, <1>2, <1>3, <1>4

-------------------------------------------------------------------------------
(* The script and the clock.                                               *)

LEMMA FeedStarts == FeedInit => FeedInv
  <1> SUFFICES ASSUME FeedInit PROVE FeedInv  OBVIOUS
  <1> USE FeedBounds
  <1>1. /\ DOMAIN rows = {} /\ DOMAIN todo = {} /\ DOMAIN candles = {} /\ Len(rows) = 0
        /\ \A S : rows \in Seq(S) /\ todo \in Seq(S) /\ candles \in Seq(S)
    BY DEF FeedInit
  <1>2. FeedTypeOK
    <2>1. now = 0 /\ now \in 0 .. MaxMinute /\ {starts, restarts, faults, lost, blind} \subseteq Nat
      BY DEF FeedInit
    <2>2. lastDump \in [Tickers -> 0 .. now] /\ lastTs \in [Tickers -> 0 .. now]  BY DEF FeedInit
    <2>3. shown \in 0 .. SizeOf(rows)  BY <1>1 DEF FeedInit, SizeOf
    <2>4. starts + restarts + faults <= IF starts = 0 THEN MaxTrouble ELSE MaxTrouble + 1
      BY DEF FeedInit
    <2>5. /\ mode \in Modes /\ listed \in Scripts /\ offset \in Nat /\ upTo \in Nat
          /\ script \in {"off", "idle", "dumping"}
          /\ seen = {} /\ passed = {} /\ floor \in Nat \ {0}
      BY DEF FeedInit
    <2>6. polling \in BOOLEAN /\ rewritten \in BOOLEAN  BY DEF FeedInit
    <2> QED  BY <1>1, <2>1, <2>2, <2>3, <2>4, <2>5, <2>6 DEF FeedTypeOK
  <1>3. PassedIsPublished /\ PublishedOnce /\ InOrder
    BY <1>1 DEF PassedIsPublished, PublishedOnce, InOrder
  <1>4. OneScript  BY <1>1 DEF FeedInit, OneScript
  <1>5. LegacyFollows  BY DEF FeedInit, LegacyFollows, Refilling
  <1>6. ReaderFollows  BY <1>1 DEF FeedInit, ReaderFollows
  <1>7. FeederRemembers  BY <1>1 DEF FeedInit, FeederRemembers
  <1> QED  BY <1>2, <1>3, <1>4, <1>5, <1>6, <1>7 DEF FeedInv

\* What the clock and the script leave alone: the feeder, the stream and what is known of it.
LEMMA FeederUntouched ==
    ASSUME FeedInv, UNCHANGED <<feederVars, runVars>>
    PROVE  /\ PublishedOnce' /\ InOrder' /\ FeederRemembers'
           /\ \A t, m : Published(t, m)' = Published(t, m) /\ Superseded(t, m)' = Superseded(t, m)
           /\ floor' = floor /\ passed' = passed /\ lastTs' = lastTs /\ offset' = offset
           /\ polling' = polling /\ todo' = todo /\ upTo' = upTo /\ candles' = candles
           /\ seen' = seen /\ lost' = lost /\ mode' = mode /\ listed' = listed
           /\ restarts' = restarts /\ faults' = faults /\ blind' = blind
  <1>1. /\ floor' = floor /\ passed' = passed /\ lastTs' = lastTs /\ offset' = offset
        /\ polling' = polling /\ todo' = todo /\ upTo' = upTo /\ candles' = candles
        /\ seen' = seen /\ lost' = lost /\ mode' = mode /\ listed' = listed
        /\ restarts' = restarts /\ faults' = faults /\ blind' = blind
    BY DEF feederVars, runVars
  <1>2. PublishedOnce' /\ InOrder'  BY <1>1 DEF FeedInv, PublishedOnce, InOrder, KeyOf
  <1>3. \A t, m : Published(t, m)' = Published(t, m) /\ Superseded(t, m)' = Superseded(t, m)
    BY <1>1, StreamKept
  <1>4. FeederRemembers'  BY <1>1, <1>3 DEF FeedInv, FeederRemembers, KeyOf
  <1> QED  BY <1>1, <1>2, <1>3, <1>4

\* A poll goes on as it was while the rows it is about stay.
LEMMA PollKept ==
    ASSUME FeedTypeOK, UNCHANGED <<feederVars, runVars>>, starts' = starts,
           DOMAIN rows \subseteq DOMAIN rows', \A k \in DOMAIN rows : rows'[k] = rows[k],
           \A k \in DOMAIN rows' \ DOMAIN rows :
               ~(2 * k + 2 <= upTo) /\ (Refilling => IsAhead(k)'),
           NEW b \in 0 .. Len(rows), PollAt(b)
    PROVE  PollAt(b)'
  <1>1. /\ floor' = floor /\ passed' = passed /\ lastTs' = lastTs
        /\ todo' = todo /\ upTo' = upTo /\ candles' = candles /\ mode' = mode
        /\ restarts' = restarts /\ faults' = faults
    BY DEF feederVars, runVars
  <1>2. \A t, m : Published(t, m)' = Published(t, m) /\ Superseded(t, m)' = Superseded(t, m)
    BY <1>1, StreamKept
  <1>3. Refilling' = Refilling  BY <1>1 DEF Refilling
  <1>4. \A k \in DOMAIN rows : DueRow(k)' = DueRow(k) /\ IsAhead(k)' = IsAhead(k)
    BY <1>1 DEF DueRow, IsAhead, KeyOf
  <1>5. \A k \in DOMAIN rows' : 2 * k + 2 <= upTo => k \in DOMAIN rows  OBVIOUS
  <1>6. /\ 2 * b < upTo'
        /\ \A i \in DOMAIN todo' : b + i \in DOMAIN rows' /\ todo'[i] = rows'[b + i] /\ 2 * (b + i) < upTo'
    BY <1>1 DEF PollAt
  <1>7. \A k \in DOMAIN rows' : 2 * k + 2 <= upTo' /\ k > b => k - b \in DOMAIN todo'
    BY <1>1, <1>5 DEF PollAt
  <1>8. \A k \in DOMAIN rows' : 2 * k + 2 <= upTo' /\ k <= b /\ DueRow(k)' =>
          /\ Superseded(rows[k].t, rows[k].m)'
          /\ Refilling' /\ rows'[k].t \in Legacy => Published(rows[k].t, rows[k].m)'
    BY <1>1, <1>3, <1>4, <1>5 DEF PollAt, Superseded, Published
  <1>9. Refilling' => \A k \in DOMAIN rows' : k > b => IsAhead(k)'
    BY <1>3, <1>4 DEF PollAt
  <1> QED  BY <1>6, <1>7, <1>8, <1>9 DEF PollAt

LEMMA MinutePassed == FeedInv /\ MinutePasses => FeedInv'
  <1> SUFFICES ASSUME FeedInv, MinutePasses PROVE FeedInv'  OBVIOUS
  <1>1. /\ UNCHANGED <<feederVars, runVars>> /\ UNCHANGED <<script, lastDump, starts, rows, shown, rewritten>>
        /\ now' = now + 1 /\ now < MaxMinute
    BY DEF MinutePasses
  <1>2. FeedTypeOK  BY DEF FeedInv
  <1>3. /\ PublishedOnce' /\ InOrder' /\ FeederRemembers'
        /\ \A t, m : Published(t, m)' = Published(t, m) /\ Superseded(t, m)' = Superseded(t, m)
        /\ floor' = floor /\ passed' = passed /\ lastTs' = lastTs /\ offset' = offset
        /\ polling' = polling /\ todo' = todo /\ upTo' = upTo /\ candles' = candles
        /\ seen' = seen /\ lost' = lost /\ mode' = mode /\ listed' = listed
        /\ restarts' = restarts /\ faults' = faults /\ blind' = blind
    BY <1>1, FeederUntouched
  <1>4. now \in Nat /\ 1 .. now \subseteq 1 .. now' /\ 0 .. now \subseteq 0 .. now' /\ now' \in 0 .. MaxMinute
    BY <1>1, <1>2, FeedBounds DEF FeedTypeOK
  <1>5. Completed \subseteq Completed'  BY <1>4 DEF Completed
  <1>6. \A S : \A T : S \subseteq T => Seq(S) \subseteq Seq(T)  OBVIOUS
  <1>7. FeedTypeOK'
    <2>1. rows' \in Seq(Completed') /\ todo' \in Seq(Completed') /\ candles' \in Seq(Completed')
      BY <1>1, <1>2, <1>3, <1>5, <1>6 DEF FeedTypeOK
    <2>2. lastDump' \in [Tickers -> 0 .. now'] /\ lastTs' \in [Tickers -> 0 .. now']
      BY <1>1, <1>2, <1>3, <1>4 DEF FeedTypeOK
    <2>3. seen' \subseteq Tickers \X (1 .. now') /\ passed' \subseteq Tickers \X (1 .. now')
      BY <1>2, <1>3, <1>4 DEF FeedTypeOK
    <2>4. shown' \in 0 .. SizeOf(rows')  BY <1>1, <1>2 DEF FeedTypeOK, SizeOf
    <2> QED  BY <1>1, <1>2, <1>3, <1>4, <2>1, <2>2, <2>3, <2>4 DEF FeedTypeOK
  <1>8. PassedIsPublished'  BY <1>1, <1>3 DEF FeedInv, PassedIsPublished, KeyOf, Superseded, Published
  <1>9. OneScript'  BY <1>1, <1>3 DEF FeedInv, OneScript
  <1>10. LegacyFollows'
    BY <1>1, <1>3 DEF FeedInv, LegacyFollows, Refilling, DueRow, KeyOf, IsAhead, Published
  <1>11. ReaderFollows'
    <2>1. \A b \in 0 .. Len(rows) : PollAt(b) => PollAt(b)'  BY <1>1, <1>2, PollKept
    <2>2. ReaderFollows  BY DEF FeedInv
    <2> QED  BY <1>1, <1>3, <2>1, <2>2 DEF ReaderFollows, KeyOf
  <1> QED  BY <1>3, <1>7, <1>8, <1>9, <1>10, <1>11 DEF FeedInv

\* The script ends; what it wrote stays.
LEMMA ScriptStopped == FeedInv /\ ScriptStops => FeedInv'
  <1> SUFFICES ASSUME FeedInv, ScriptStops PROVE FeedInv'  OBVIOUS
  <1>1. /\ UNCHANGED <<feederVars, runVars>> /\ UNCHANGED <<now, starts, rows, shown, rewritten>>
        /\ script' = "off" /\ lastDump' = [t \in Tickers |-> 0]
    BY DEF ScriptStops
  <1>2. FeedTypeOK  BY DEF FeedInv
  <1>3. /\ PublishedOnce' /\ InOrder' /\ FeederRemembers'
        /\ \A t, m : Published(t, m)' = Published(t, m) /\ Superseded(t, m)' = Superseded(t, m)
        /\ floor' = floor /\ passed' = passed /\ lastTs' = lastTs /\ offset' = offset
        /\ polling' = polling /\ todo' = todo /\ upTo' = upTo /\ candles' = candles
        /\ seen' = seen /\ lost' = lost /\ mode' = mode /\ listed' = listed
        /\ restarts' = restarts /\ faults' = faults /\ blind' = blind
    BY <1>1, FeederUntouched
  <1>4. FeedTypeOK'
    <2>1. 0 \in 0 .. now  BY <1>2, RowTypes
    <2>2. lastDump' \in [Tickers -> 0 .. now']  BY <1>1, <2>1
    <2>3. Completed' = Completed  BY <1>1 DEF Completed
    <2> QED  BY <1>1, <1>2, <1>3, <2>2, <2>3 DEF FeedTypeOK, SizeOf
  <1>5. PassedIsPublished'  BY <1>1, <1>3 DEF FeedInv, PassedIsPublished, KeyOf, Superseded, Published
  <1>6. OneScript'  BY <1>1, <1>3 DEF FeedInv, OneScript
  <1>7. LegacyFollows'
    BY <1>1, <1>3 DEF FeedInv, LegacyFollows, Refilling, DueRow, KeyOf, IsAhead, Published
  <1>8. ReaderFollows'
    <2>1. \A b \in 0 .. Len(rows) : PollAt(b) => PollAt(b)'  BY <1>1, <1>2, PollKept
    <2>2. ReaderFollows  BY DEF FeedInv
    <2> QED  BY <1>1, <1>3, <2>1, <2>2 DEF ReaderFollows, KeyOf
  <1> QED  BY <1>3, <1>4, <1>5, <1>6, <1>7, <1>8 DEF FeedInv

\* The buffer is written to the end.
LEMMA FileFlushed == FeedInv /\ Flush => FeedInv'
  <1> SUFFICES ASSUME FeedInv, Flush PROVE FeedInv'  OBVIOUS
  <1>1. /\ UNCHANGED <<feederVars, runVars>> /\ UNCHANGED <<now, lastDump, starts, rows, rewritten>>
        /\ script = "dumping" /\ script' = "idle" /\ shown' = SizeOf(rows)
    BY DEF Flush
  <1>2. FeedTypeOK  BY DEF FeedInv
  <1>3. /\ PublishedOnce' /\ InOrder' /\ FeederRemembers'
        /\ \A t, m : Published(t, m)' = Published(t, m) /\ Superseded(t, m)' = Superseded(t, m)
        /\ floor' = floor /\ passed' = passed /\ lastTs' = lastTs /\ offset' = offset
        /\ polling' = polling /\ todo' = todo /\ upTo' = upTo /\ candles' = candles
        /\ seen' = seen /\ lost' = lost /\ mode' = mode /\ listed' = listed
        /\ restarts' = restarts /\ faults' = faults /\ blind' = blind
    BY <1>1, FeederUntouched
  <1>4. SizeOf(rows) \in Nat /\ SizeOf(rows) >= 2 /\ shown \in Nat /\ shown <= SizeOf(rows)
    <2>1. Len(rows) \in Nat  BY <1>2, RowTypes
    <2> QED  BY <1>2, <2>1 DEF FeedTypeOK, SizeOf
  <1>5. FeedTypeOK'
    <2>1. Completed' = Completed  BY <1>1 DEF Completed
    <2>2. shown' \in 0 .. SizeOf(rows')  BY <1>1, <1>4 DEF SizeOf
    <2> QED  BY <1>1, <1>2, <1>3, <2>1, <2>2 DEF FeedTypeOK
  <1>6. PassedIsPublished'  BY <1>1, <1>3 DEF FeedInv, PassedIsPublished, KeyOf, Superseded, Published
  <1>7. OneScript'  BY <1>1, <1>3 DEF FeedInv, OneScript
  <1>8. LegacyFollows'
    BY <1>1, <1>3 DEF FeedInv, LegacyFollows, Refilling, DueRow, KeyOf, IsAhead, Published
  <1>9. ReaderFollows'
    <2>1. \A b \in 0 .. Len(rows) : PollAt(b) => PollAt(b)'  BY <1>1, <1>2, PollKept
    <2>2. ReaderFollows  BY DEF FeedInv
    <2>3. ~rewritten' => offset' <= shown' /\ upTo' <= shown'
      <3>1. offset \in Nat /\ upTo \in Nat  BY <1>2 DEF FeedTypeOK
      <3>2. ~rewritten => offset <= shown /\ upTo <= shown  BY <2>2 DEF ReaderFollows
      <3> QED  BY <1>1, <1>3, <1>4, <3>1, <3>2
    <2>4. shown' # 1 /\ shown' >= 2  BY <1>1, <1>4
    <2> QED  BY <1>1, <1>3, <2>1, <2>2, <2>3, <2>4 DEF ReaderFollows, KeyOf
  <1> QED  BY <1>3, <1>5, <1>6, <1>7, <1>8, <1>9 DEF FeedInv

\* OnInit: the file is empty, and nobody knows yet.
LEMMA ScriptStarted == FeedInv /\ ScriptStarts => FeedInv'
  <1> SUFFICES ASSUME FeedInv, ScriptStarts PROVE FeedInv'  OBVIOUS
  <1>1. /\ UNCHANGED <<feederVars, runVars>> /\ UNCHANGED <<now, lastDump>>
        /\ script' = "idle" /\ starts' = starts + 1 /\ rows' = <<>> /\ shown' = SizeOf(<<>>)
        /\ rewritten' = TRUE /\ (starts = 0 \/ Trouble)
    BY DEF ScriptStarts
  <1>2. FeedTypeOK  BY DEF FeedInv
  <1>3. /\ PublishedOnce' /\ InOrder' /\ FeederRemembers'
        /\ floor' = floor /\ passed' = passed /\ lastTs' = lastTs /\ offset' = offset
        /\ polling' = polling /\ todo' = todo /\ upTo' = upTo /\ candles' = candles
        /\ seen' = seen /\ lost' = lost /\ mode' = mode /\ listed' = listed
        /\ restarts' = restarts /\ faults' = faults /\ blind' = blind
    BY <1>1, FeederUntouched
  <1>4. DOMAIN rows' = {} /\ shown' = 2 /\ SizeOf(rows') = 2 /\ rows' \in Seq(Completed')
    BY <1>1 DEF SizeOf
  <1>5. starts \in Nat /\ restarts \in Nat /\ faults \in Nat /\ starts' # 0 /\ starts' \in Nat
        /\ (starts' <= 1 => starts = 0)
    BY <1>1, <1>2 DEF FeedTypeOK
  <1>6. FeedTypeOK'
    <2>1. starts' + restarts' + faults' <= MaxTrouble + 1
      <3>1. starts + restarts + faults <= MaxTrouble
        BY <1>1, <1>2, <1>5, FeedBounds DEF FeedTypeOK, Trouble
      <3> QED  BY <1>1, <1>3, <1>5, <3>1, FeedBounds
    <2>2. starts' + restarts' + faults' <= IF starts' = 0 THEN MaxTrouble ELSE MaxTrouble + 1
      BY <2>1, <1>5
    <2>3. Completed' = Completed  BY <1>1 DEF Completed
    <2>4. {starts', restarts', faults', lost', blind'} \subseteq Nat
      BY <1>2, <1>3, <1>5 DEF FeedTypeOK
    <2>5. shown' \in 0 .. SizeOf(rows')  BY <1>4
    <2>6. rewritten' \in BOOLEAN  BY <1>1
    <2> QED  BY <1>1, <1>2, <1>3, <1>4, <2>2, <2>3, <2>4, <2>5, <2>6 DEF FeedTypeOK
  <1>7. PassedIsPublished'  BY <1>1 DEF PassedIsPublished
  <1>8. OneScript'
    <2>1. starts = 0 => offset = 0 /\ ~polling  BY <1>2 DEF FeedInv, OneScript
    <2> QED  BY <1>1, <1>3, <1>4, <1>5, <2>1 DEF OneScript
  <1>9. LegacyFollows'
    <2> SUFFICES ASSUME Refilling' PROVE \A t \in Legacy : ~(lastTs'[t] > 0)
      BY <1>4 DEF LegacyFollows
    <2>1. starts = 0 /\ Refilling  BY <1>3, <1>5 DEF Refilling
    <2>2. DOMAIN rows = {}  BY <2>1, <1>5 DEF FeedInv, OneScript
    <2> QED  BY <1>3, <2>1, <2>2 DEF FeedInv, LegacyFollows
  <1>10. ReaderFollows'  BY <1>1, <1>3, <1>4 DEF FeedInv, ReaderFollows
  <1> QED  BY <1>3, <1>6, <1>7, <1>8, <1>9, <1>10 DEF FeedInv

\* A cycle of the script: the file grows behind what was read of it.
LEMMA RowsDumped == FeedInv /\ Dump => FeedInv'
  <1> SUFFICES ASSUME FeedInv, Dump PROVE FeedInv'  OBVIOUS
  <1> DEFINE Joined(from) == FlattenSeq([k \in DOMAIN listed |-> Fresh(listed[k], from[k])])
  <1>1. /\ UNCHANGED <<feederVars, runVars>> /\ UNCHANGED <<now, starts, rewritten>>
        /\ script = "idle" /\ script' = "dumping" /\ shown' \in shown .. SizeOf(rows')
        /\ lastDump' = [t \in Tickers |-> IF t \in ToSet(listed) THEN now ELSE 0]
    BY DEF Dump
  <1>2. PICK from \in [DOMAIN listed -> 1 .. now] : rows' = rows \o Joined(from)  BY DEF Dump
  <1>3. FeedTypeOK  BY DEF FeedInv
  <1>4. /\ PublishedOnce' /\ InOrder' /\ FeederRemembers'
        /\ \A t, m : Published(t, m)' = Published(t, m) /\ Superseded(t, m)' = Superseded(t, m)
        /\ floor' = floor /\ passed' = passed /\ lastTs' = lastTs /\ offset' = offset
        /\ polling' = polling /\ todo' = todo /\ upTo' = upTo /\ candles' = candles
        /\ seen' = seen /\ lost' = lost /\ mode' = mode /\ listed' = listed
        /\ restarts' = restarts /\ faults' = faults /\ blind' = blind
    BY <1>1, FeederUntouched
  <1>5. now \in Nat /\ lastDump \in [Tickers -> 0 .. now] /\ listed \in Scripts
    BY <1>3, RowTypes DEF FeedTypeOK
  <1> DEFINE new == Joined(from)
  <1>6. RowsOf(new, ToSet(listed))  BY <1>5, NewRows
  <1> HIDE DEF Joined, new
  <1>7. rows' = rows \o new  BY <1>2 DEF new
  <1> DEFINE n == Len(rows)
  <1>8. /\ n \in Nat /\ DOMAIN rows = 1 .. n /\ DOMAIN rows \subseteq DOMAIN rows'
        /\ \A k \in DOMAIN rows : rows'[k] = rows[k]
        /\ \A k \in DOMAIN rows' \ DOMAIN rows :
             k \in Nat /\ k > n /\ k - n \in DOMAIN new /\ rows'[k] = new[k - n]
        /\ rows' \in Seq(Completed) /\ Len(rows') \in Nat /\ Len(rows') >= n
        /\ DOMAIN rows' \subseteq Nat
    <2> DEFINE R == Completed
    <2>1. rows \in Seq(R) /\ new \in Seq(R)  BY <1>3, <1>6 DEF FeedTypeOK, RowsOf
    <2> HIDE DEF R
    <2>2. /\ n \in Nat /\ DOMAIN rows = 1 .. n /\ DOMAIN new = 1 .. Len(new) /\ Len(new) \in Nat
          /\ rows' \in Seq(R) /\ Len(rows') = n + Len(new) /\ DOMAIN rows' = 1 .. n + Len(new)
          /\ \A k \in 1 .. n + Len(new) : rows'[k] = IF k <= n THEN rows[k] ELSE new[k - n]
      BY <1>7, <2>1
    <2> HIDE DEF n
    <2>3. \A k \in DOMAIN rows' \ DOMAIN rows : k \in Nat /\ k > n /\ k - n \in DOMAIN new  BY <2>2
    <2>4. \A k \in DOMAIN rows' : k <= n => rows'[k] = rows[k]  BY <2>2
    <2>5. \A k \in DOMAIN rows' : ~(k <= n) => rows'[k] = new[k - n]  BY <2>2
    <2>6. \A k \in DOMAIN rows : k \in DOMAIN rows' /\ k <= n  BY <2>2
    <2>7. \A k \in DOMAIN rows' \ DOMAIN rows : ~(k <= n)  BY <2>2
    <2>8. rows' \in Seq(Completed)  BY <2>2 DEF R
    <2>9. Len(rows') \in Nat /\ Len(rows') >= n /\ DOMAIN rows' \subseteq Nat  BY <2>2
    <2> QED  BY <2>2, <2>3, <2>4, <2>5, <2>6, <2>7, <2>8, <2>9
  <1>9. Completed' = Completed  BY <1>1 DEF Completed
  <1>10. shown \in Nat /\ shown <= shown' /\ shown' \in 0 .. SizeOf(rows') /\ shown >= 2
         /\ shown <= 2 * (1 + n)
    <2>1. shown \in 0 .. SizeOf(rows) /\ SizeOf(rows) = 2 * (1 + n) /\ SizeOf(rows') \in Nat
      BY <1>3, <1>8 DEF FeedTypeOK, SizeOf
    <2>2. shown >= 2  BY <1>1 DEF FeedInv, ReaderFollows
    <2> HIDE DEF n
    <2> QED  BY <1>1, <1>8, <2>1, <2>2
  <1>11. FeedTypeOK'
    <2>1. 0 \in 0 .. now /\ now \in 0 .. now  BY <1>5
    <2>2. lastDump' \in [Tickers -> 0 .. now]  BY <1>1, <2>1
    <2> QED  BY <1>1, <1>3, <1>4, <1>8, <1>9, <1>10, <2>2 DEF FeedTypeOK
  <1> HIDE DEF n
  \* The new rows lie behind the part that readers see.
  <1>12. ~rewritten => \A k \in DOMAIN rows' \ DOMAIN rows :
           ~(2 * k + 2 <= offset) /\ ~(2 * k + 2 <= upTo) /\ 2 * k + 1 \notin {offset, upTo}
    <2>1. offset \in Nat /\ upTo \in Nat  BY <1>3 DEF FeedTypeOK
    <2>2. ~rewritten => offset <= shown /\ upTo <= shown  BY DEF FeedInv, ReaderFollows
    <2> QED  BY <1>8, <1>10, <2>1, <2>2
  <1>13. PassedIsPublished'
    <2>1. \A k \in DOMAIN rows' : ~rewritten /\ 2 * k + 2 <= offset => k \in DOMAIN rows  BY <1>12
    <2> QED  BY <1>1, <1>4, <1>8, <2>1 DEF FeedInv, PassedIsPublished, KeyOf, Superseded, Published
  <1>14. \A k \in DOMAIN rows' \ DOMAIN rows : \A l \in DOMAIN rows :
           starts <= 1 /\ rows'[k].t = rows[l].t => rows[l].m < rows'[k].m
    <2> SUFFICES ASSUME NEW k \in DOMAIN rows' \ DOMAIN rows, NEW l \in DOMAIN rows,
                        starts <= 1, rows'[k].t = rows[l].t
                 PROVE  rows[l].m < rows'[k].m
      OBVIOUS
    <2>1. rows[l].m <= lastDump[rows[l].t] /\ rows[l].t \in Tickers /\ rows[l].m \in Nat
      BY <1>1, <1>3, RowTypes DEF FeedInv, OneScript
    <2>2. rows'[k].m > lastDump[rows'[k].t]  BY <1>6, <1>8 DEF RowsOf
    <2>3. rows'[k].m \in Nat
      <3>1. rows'[k] \in Completed  BY <1>8
      <3> QED  BY <3>1, <1>5 DEF Completed
    <2>4. lastDump[rows[l].t] \in Nat  BY <2>1, <1>5
    <2> QED  BY <2>1, <2>2, <2>3, <2>4
  <1>15. \A k \in DOMAIN rows' : rows'[k].t \in ToSet(listed)
    <2>1. \A k \in DOMAIN rows : rows[k].t \in ToSet(listed)  BY DEF FeedInv, ReaderFollows
    <2>2. \A k \in DOMAIN rows' \ DOMAIN rows : rows'[k].t \in ToSet(listed)  BY <1>6, <1>8 DEF RowsOf
    <2> QED  BY <1>8, <2>1, <2>2
  <1>16. OneScript'
    <2> SUFFICES ASSUME starts <= 1 PROVE OneScript'  BY <1>1 DEF OneScript
    <2>1. ASSUME NEW i \in DOMAIN rows', NEW j \in DOMAIN rows', i < j, rows'[i].t = rows'[j].t
          PROVE  rows'[i].m < rows'[j].m
      <3>1. CASE j \in DOMAIN rows
        <4>1. i \in DOMAIN rows  BY <1>8, <2>1, <3>1
        <4> QED  BY <1>8, <2>1, <3>1, <4>1 DEF FeedInv, OneScript
      <3>2. CASE j \notin DOMAIN rows /\ i \in DOMAIN rows
        BY <1>8, <1>14, <2>1, <3>2
      <3>3. CASE j \notin DOMAIN rows /\ i \notin DOMAIN rows
        <4>1. i - n \in DOMAIN new /\ j - n \in DOMAIN new /\ i - n < j - n
          BY <1>8, <2>1, <3>3
        <4>2. rows'[i] = new[i - n] /\ rows'[j] = new[j - n]  BY <1>8, <3>3
        <4> QED  BY <1>6, <2>1, <4>1, <4>2 DEF RowsOf
      <3> QED  BY <3>1, <3>2, <3>3
    <2>2. \A k \in DOMAIN rows' : rows'[k].m <= lastDump'[rows'[k].t]
      <3> TAKE k \in DOMAIN rows'
      <3>1. rows'[k] \in Completed  BY <1>8
      <3>2. rows'[k].m <= now /\ rows'[k].t \in Tickers  BY <3>1, <1>5 DEF Completed
      <3>3. lastDump'[rows'[k].t] = now  BY <1>1, <1>15, <3>2
      <3> QED  BY <3>2, <3>3
    <2>3. starts # 0  BY <1>1 DEF FeedInv, OneScript
    <2>4. rewritten => offset = 0 /\ ~polling  BY DEF FeedInv, OneScript
    <2> QED  BY <1>1, <1>4, <2>1, <2>2, <2>3, <2>4 DEF OneScript
  <1>17. \A k \in DOMAIN rows' \ DOMAIN rows : Refilling => IsAhead(k)'
    <2> SUFFICES ASSUME NEW k \in DOMAIN rows' \ DOMAIN rows, Refilling, rows'[k].t \in Legacy
                 PROVE  lastTs[rows'[k].t] < rows'[k].m
      BY <1>4 DEF IsAhead
    <2> DEFINE t == rows'[k].t
    <2>1. lastTs[t] \in Nat /\ rows'[k].m \in Nat \ {0}
      <3>1. rows'[k] \in Completed  BY <1>8
      <3>2. t \in Tickers /\ rows'[k].m \in 1 .. now  BY <3>1 DEF Completed
      <3>3. lastTs[t] \in 0 .. now  BY <3>2, <1>3, RowTypes
      <3> QED  BY <3>2, <3>3, <1>5
    <2> HIDE DEF t
    <2>2. t \in Legacy  BY DEF t
    <2>3. CASE lastTs[t] = 0  BY <2>1, <2>3 DEF t
    <2>4. CASE lastTs[t] > 0
      <3>1. PICK l \in DOMAIN rows : rows[l] = [t |-> t, m |-> lastTs[t]]
        BY <2>2, <2>4 DEF FeedInv, LegacyFollows
      <3>2. rows[l].t = t /\ rows[l].m = lastTs[t]  BY <3>1
      <3> QED  BY <1>14, <3>2 DEF t, Refilling
    <2> QED  BY <2>1, <2>3, <2>4
  <1>18. LegacyFollows'
    <2> SUFFICES ASSUME Refilling' PROVE LegacyFollows'  BY DEF LegacyFollows
    <2>1. Refilling  BY <1>1, <1>4 DEF Refilling
    <2>2. LegacyFollows /\ OneScript  BY DEF FeedInv
    <2>3. \A t \in Legacy : lastTs'[t] > 0 => \E k \in DOMAIN rows' : rows'[k] = [t |-> t, m |-> lastTs'[t]]
      BY <1>4, <1>8, <2>1, <2>2 DEF LegacyFollows
    <2>4. \A k \in DOMAIN rows' : 2 * k + 2 <= offset /\ DueRow(k)' /\ rows'[k].t \in Legacy
            => Published(rows[k].t, rows[k].m)'
      <3> SUFFICES ASSUME NEW k \in DOMAIN rows', 2 * k + 2 <= offset, DueRow(k)', rows'[k].t \in Legacy
                   PROVE  Published(rows[k].t, rows[k].m)'
        OBVIOUS
      <3>1. k \in DOMAIN rows
        <4>1. CASE ~rewritten  BY <4>1, <1>12
        <4>2. CASE rewritten
          <5>1. offset = 0  BY <4>2, <2>1, <2>2 DEF OneScript, Refilling
          <5>2. k \in Nat  BY <1>8
          <5> QED  BY <5>1, <5>2
        <4> QED  BY <4>1, <4>2
      <3>2. rows'[k] = rows[k] /\ DueRow(k)  BY <1>4, <1>8, <3>1 DEF DueRow, KeyOf
      <3>3. Published(rows[k].t, rows[k].m)  BY <2>1, <2>2, <3>1, <3>2 DEF LegacyFollows
      <3> QED  BY <1>4, <3>2, <3>3 DEF Published
    <2>5. ~polling' => \A k \in DOMAIN rows' : 2 * k >= offset' => IsAhead(k)'
      <3>1. \A k \in DOMAIN rows : IsAhead(k)' = IsAhead(k)  BY <1>4, <1>8 DEF IsAhead
      <3>2. \A k \in DOMAIN rows' \ DOMAIN rows : IsAhead(k)'  BY <1>17, <2>1
      <3> QED  BY <1>4, <2>1, <2>2, <3>1, <3>2 DEF LegacyFollows
    <2> QED  BY <1>4, <2>3, <2>4, <2>5 DEF LegacyFollows
  <1>19. ReaderFollows'
    <2>1. ReaderFollows  BY DEF FeedInv
    <2>2. ~rewritten /\ polling => \E b \in 0 .. Len(rows') : PollAt(b)'
      <3> SUFFICES ASSUME ~rewritten, polling PROVE \E b \in 0 .. Len(rows') : PollAt(b)'  OBVIOUS
      <3>1. PICK b \in 0 .. Len(rows) : PollAt(b)  BY <2>1 DEF ReaderFollows
      <3>2. PollAt(b)'  BY <1>1, <1>3, <1>8, <1>12, <1>17, <3>1, PollKept
      <3>3. b \in 0 .. Len(rows')  BY <1>8 DEF n
      <3> QED  BY <3>2, <3>3
    <2>3. ~rewritten => \A k \in DOMAIN rows' : 2 * k + 1 \in {offset, upTo} => KeyOf(rows'[k]) \in passed
      <3>1. ~rewritten => \A k \in DOMAIN rows : 2 * k + 1 \in {offset, upTo} => KeyOf(rows[k]) \in passed
        BY <2>1 DEF ReaderFollows
      <3> QED  BY <1>8, <1>12, <3>1 DEF KeyOf
    <2>4. ~rewritten => offset <= shown' /\ upTo <= shown'
      <3>1. ~rewritten => offset <= shown /\ upTo <= shown  BY <2>1 DEF ReaderFollows
      <3>2. offset \in Nat /\ upTo \in Nat /\ shown' \in Nat  BY <1>3, <1>10, <1>8 DEF FeedTypeOK, SizeOf
      <3> QED  BY <1>10, <3>1, <3>2
    <2>5. shown' # 1 /\ shown' >= 2
      <3>1. shown' \in Nat  BY <1>10, <1>8 DEF SizeOf
      <3> QED  BY <1>10, <3>1
    <2>6. ~polling' => todo' = <<>> /\ upTo' = 0  BY <1>4, <2>1 DEF ReaderFollows
    <2>7. ~rewritten' => \A k \in DOMAIN rows' : 2 * k + 1 \in {offset', upTo'} => KeyOf(rows[k])' \in passed'
      BY <1>1, <1>4, <2>3 DEF KeyOf
    <2> QED  BY <1>1, <1>4, <1>15, <2>2, <2>4, <2>5, <2>6, <2>7 DEF ReaderFollows
  <1> QED  BY <1>4, <1>11, <1>13, <1>16, <1>18, <1>19 DEF FeedInv

-------------------------------------------------------------------------------
(* The reader.                                                             *)

LEMMA GreaterOf == ASSUME NEW x \in Nat PROVE Max({1, x}) = IF x > 1 THEN x ELSE 1
  <1> DEFINE y == IF x > 1 THEN x ELSE 1
  <1>1. y \in {1, x} /\ \A z \in {1, x} : y >= z  OBVIOUS
  <1>2. \A z \in {1, x} : (\A u \in {1, x} : z >= u) => z = y  OBVIOUS
  <1> QED  BY <1>1, <1>2 DEF Max

\* Which rows lie between two positions: those after row b, as far as they are whole.
LEMMA RowsBetween ==
    ASSUME FeedTypeOK, shown >= 2, NEW a \in Nat, a <= shown
    PROVE  \E b \in 0 .. Len(rows) :
             /\ Whole(a, shown) \in Seq(Completed) /\ 2 * b < shown
             /\ \A k \in DOMAIN rows : k > b <=> 2 * k >= a
             /\ \A i \in DOMAIN Whole(a, shown) :
                  /\ b + i \in DOMAIN rows /\ Whole(a, shown)[i] = rows[b + i]
                  /\ 2 * (b + i) + 2 <= shown
             /\ \A k \in DOMAIN rows : 2 * k + 2 <= shown /\ k > b => k - b \in DOMAIN Whole(a, shown)
             /\ \A k \in DOMAIN rows : 2 * k + 1 = shown /\ a <= 2 * k =>
                  shown \div 2 = k /\ Len(Whole(a, shown)) = k - 1 - b
  <1> DEFINE n == Len(rows)
             p == IF (a + 1) \div 2 > 1 THEN (a + 1) \div 2 ELSE 1
             q == shown \div 2 - 1
             b == p - 1
             w == Whole(a, shown)
             m == IF p <= q THEN q - p + 1 ELSE 0
  <1>1. n \in Nat /\ DOMAIN rows = 1 .. n  BY RowTypes
  <1>2. shown \in Nat /\ shown <= 2 * (1 + n)  BY <1>1 DEF FeedTypeOK, SizeOf
  <1>3. (a + 1) \div 2 \in Nat /\ 2 * ((a + 1) \div 2) <= a + 1 /\ a <= 2 * ((a + 1) \div 2)  OBVIOUS
  <1>4. /\ shown \div 2 \in Nat /\ 2 * (shown \div 2) <= shown /\ shown <= 2 * (shown \div 2) + 1
        /\ q \in Nat
    BY <1>2
  <1>5. w = SubSeq(rows, p, q)
    <2>1. Max({1, (a + 1) \div 2}) = p  BY <1>3, GreaterOf
    <2> QED  BY <2>1 DEF Whole
  <1> DEFINE c == (a + 1) \div 2
             h == shown \div 2
  <1>6. /\ c \in Nat /\ 2 * c <= a + 1 /\ a <= 2 * c /\ p = IF c > 1 THEN c ELSE 1
        /\ h \in Nat /\ 2 * h <= shown /\ shown <= 2 * h + 1 /\ q = h - 1
    BY <1>3, <1>4
  <1> HIDE DEF c, h, p, q, n
  <1>7. p \in Nat \ {0} /\ b \in Nat /\ 2 * b < shown /\ b <= n /\ q \in Nat /\ q <= n
    BY <1>1, <1>2, <1>6
  <1>8. w \in Seq(Completed) /\ DOMAIN w = 1 .. m /\ Len(w) = m /\ m \in Nat
        /\ \A i \in 1 .. m : w[i] = rows[i + p - 1]
    <2> DEFINE R == Completed
    <2>1. rows \in Seq(R) /\ Len(rows) = n  BY DEF FeedTypeOK, n
    <2> HIDE DEF R, w
    <2>2. m \in Nat  BY <1>7
    <2>3. SubSeq(rows, p, q) = [i \in 1 .. m |-> rows[i + p - 1]]
      <3>1. 1 + q - p = m \/ (1 + q - p <= 0 /\ m = 0)  BY <1>7
      <3>2. 1 .. (1 + q - p) = 1 .. m  BY <1>7, <3>1
      <3>3. SubSeq(rows, p, q) = [i \in 1 .. (1 + q - p) |-> rows[i + p - 1]]  BY <2>1, <1>7
      <3> QED  BY <3>2, <3>3
    <2>4. \A i \in 1 .. m : i + p - 1 \in 1 .. n
      <3>1. CASE p <= q  BY <3>1, <1>1, <1>7
      <3>2. CASE ~(p <= q)  BY <3>2
      <3> QED  BY <3>1, <3>2
    <2>5. \A i \in 1 .. m : rows[i + p - 1] \in R  BY <1>1, <2>1, <2>4
    <2> HIDE DEF m
    <2>6. w = [i \in 1 .. m |-> rows[i + p - 1]]  BY <1>5, <2>3
    <2>7. w \in Seq(R) /\ DOMAIN w = 1 .. m /\ Len(w) = m  BY <2>2, <2>5, <2>6
    <2>8. \A i \in 1 .. m : w[i] = rows[i + p - 1]  BY <2>6
    <2> QED  BY <2>2, <2>7, <2>8 DEF R
  <1>9. \A k \in 1 .. n : k > b <=> 2 * k >= a  BY <1>1, <1>6, <1>7
  <1>10. \A i \in 1 .. m : b + i \in 1 .. n /\ i + p - 1 = b + i /\ 2 * (b + i) + 2 <= shown
    BY <1>1, <1>2, <1>6, <1>7
  <1>11. \A k \in 1 .. n : 2 * k + 2 <= shown /\ k > b => k - b \in 1 .. m
    BY <1>1, <1>2, <1>6, <1>7
  <1>12. \A k \in 1 .. n : 2 * k + 1 = shown /\ a <= 2 * k => h = k /\ m = k - 1 - b
    <2> TAKE k \in 1 .. n
    <2> HAVE 2 * k + 1 = shown /\ a <= 2 * k
    <2>1. h = k /\ q = k - 1  BY <1>1, <1>2, <1>6
    <2>2. c <= k /\ p <= k  BY <1>1, <1>6
    <2> QED  BY <2>1, <2>2, <1>1, <1>7
  <1> HIDE DEF m, b, w
  <1>13. b \in 0 .. n  BY <1>1, <1>7
  <1> QED  BY <1>1, <1>7, <1>8, <1>9, <1>10, <1>11, <1>12, <1>13 DEF h, n, w

\* What a start of a poll leaves alone, and what it finds.
LEMMA PollFinds ==
    ASSUME FeedInv, PollStart
    PROVE  /\ UNCHANGED <<scriptVars, runVars>>
           /\ lastTs' = lastTs /\ seen' = seen /\ floor' = floor /\ candles' = candles /\ lost' = lost
           /\ now' = now /\ script' = script /\ lastDump' = lastDump /\ starts' = starts
           /\ rows' = rows /\ shown' = shown /\ mode' = mode /\ listed' = listed
           /\ restarts' = restarts /\ faults' = faults /\ blind' = blind
           /\ ~rewritten' /\ ~polling /\ todo = <<>> /\ upTo = 0
           /\ shown \in Nat /\ shown >= 2 /\ starts # 0
           /\ StartOf \in Nat /\ StartOf <= shown
           /\ PublishedOnce' /\ InOrder' /\ FeederRemembers' /\ OneScript'
           /\ \A t, m : Published(t, m)' = Published(t, m) /\ Superseded(t, m)' = Superseded(t, m)
  <1>1. /\ UNCHANGED <<scriptVars, runVars>>
        /\ lastTs' = lastTs /\ seen' = seen /\ floor' = floor /\ candles' = candles /\ lost' = lost
        /\ rewritten' = FALSE /\ ~polling /\ shown > 0
    BY DEF PollStart
  <1>2. /\ now' = now /\ script' = script /\ lastDump' = lastDump /\ starts' = starts
        /\ rows' = rows /\ shown' = shown /\ mode' = mode /\ listed' = listed
        /\ restarts' = restarts /\ faults' = faults /\ blind' = blind
    BY <1>1 DEF scriptVars, runVars
  <1>3. FeedTypeOK  BY DEF FeedInv
  <1>4. todo = <<>> /\ upTo = 0 /\ shown # 1  BY <1>1 DEF FeedInv, ReaderFollows
  <1>5. shown \in Nat /\ offset \in Nat
    <2>1. SizeOf(rows) \in Nat  BY <1>3, RowTypes DEF SizeOf
    <2> QED  BY <1>3, <2>1 DEF FeedTypeOK
  <1>6. shown >= 2  BY <1>1, <1>4, <1>5
  <1>7. starts # 0  BY <1>1 DEF FeedInv, OneScript
  <1>8. StartOf \in Nat /\ StartOf <= shown  BY <1>5 DEF StartOf
  <1>9. PublishedOnce' /\ InOrder'  BY <1>1, <1>2 DEF FeedInv, PublishedOnce, InOrder, KeyOf
  <1>10. \A t, m : Published(t, m)' = Published(t, m) /\ Superseded(t, m)' = Superseded(t, m)
    BY <1>1, StreamKept
  <1>11. FeederRemembers'  BY <1>1, <1>2, <1>10 DEF FeedInv, FeederRemembers, KeyOf
  <1>12. OneScript'  BY <1>1, <1>2, <1>7 DEF FeedInv, OneScript
  <1> QED  BY <1>1, <1>2, <1>4, <1>5, <1>6, <1>7, <1>8, <1>9, <1>10, <1>11, <1>12

\* The first cycle of the mode "tail": what is there is skipped.
LEMMA TailSkips == FeedInv /\ PollStart /\ mode = "tail" /\ StartOf = 0 => FeedInv'
  <1> SUFFICES ASSUME FeedInv, PollStart, mode = "tail", StartOf = 0 PROVE FeedInv'  OBVIOUS
  <1> DEFINE skipped == {<<rows[k].t, rows[k].m>> : k \in {k \in DOMAIN rows : 2 * k < shown}}
  <1>1. offset' = shown /\ passed' = passed \cup skipped /\ polling' = polling /\ todo' = todo /\ upTo' = upTo
    BY DEF PollStart
  <1>2. /\ lastTs' = lastTs /\ seen' = seen /\ floor' = floor /\ candles' = candles /\ lost' = lost
        /\ now' = now /\ script' = script /\ lastDump' = lastDump /\ starts' = starts
        /\ rows' = rows /\ shown' = shown /\ mode' = mode /\ listed' = listed
        /\ restarts' = restarts /\ faults' = faults /\ blind' = blind
        /\ ~rewritten' /\ ~polling /\ todo = <<>> /\ upTo = 0
        /\ shown \in Nat /\ shown >= 2
        /\ PublishedOnce' /\ InOrder' /\ FeederRemembers' /\ OneScript'
    BY PollFinds
  <1>3. FeedTypeOK  BY DEF FeedInv
  <1>4. \A k \in DOMAIN rows : 2 * k < shown => KeyOf(rows[k]) \in passed'  BY <1>1 DEF KeyOf
  <1>5. skipped \subseteq Tickers \X (1 .. now)  BY <1>3, RowTypes
  <1>6. DOMAIN rows = 1 .. Len(rows) /\ Len(rows) \in Nat  BY <1>3, RowTypes
  <1> HIDE DEF skipped
  <1>7. FeedTypeOK'
    <2>1. Completed' = Completed  BY <1>2 DEF Completed
    <2>2. passed' \subseteq Tickers \X (1 .. now')  BY <1>1, <1>2, <1>3, <1>5 DEF FeedTypeOK
    <2>3. rewritten' \in BOOLEAN
      <3>1. rewritten' = FALSE  BY DEF PollStart
      <3> QED  BY <3>1
    <2> QED  BY <1>1, <1>2, <1>3, <2>1, <2>2, <2>3 DEF FeedTypeOK, SizeOf
  <1>8. PassedIsPublished'
    <2>1. \A k \in DOMAIN rows : 2 * k + 2 <= shown => KeyOf(rows[k]) \in passed'
      <3>1. \A k \in DOMAIN rows : 2 * k + 2 <= shown => 2 * k < shown  BY <1>2, <1>6
      <3> QED  BY <1>4, <3>1
    <2> QED  BY <1>1, <1>2, <2>1 DEF PassedIsPublished, KeyOf
  <1>9. LegacyFollows'  BY <1>2 DEF LegacyFollows, Refilling
  <1>10. ReaderFollows'
    <2>1. \A k \in DOMAIN rows : 2 * k + 1 \in {shown, 0} => KeyOf(rows[k]) \in passed'
      <3>1. \A k \in DOMAIN rows : 2 * k + 1 \in {shown, 0} => 2 * k < shown  BY <1>2, <1>6
      <3> QED  BY <1>4, <3>1
    <2> QED  BY <1>1, <1>2, <2>1 DEF FeedInv, ReaderFollows, KeyOf
  <1> QED  BY <1>2, <1>7, <1>8, <1>9, <1>10 DEF FeedInv

\* A poll opens the file and reads on from where it was, or from the start.
LEMMA PollOpened == FeedInv /\ PollStart /\ ~(mode = "tail" /\ StartOf = 0) => FeedInv'
  <1> SUFFICES ASSUME FeedInv, PollStart, ~(mode = "tail" /\ StartOf = 0) PROVE FeedInv'  OBVIOUS
  <1> DEFINE a == StartOf
             w == Whole(a, shown)
             torn == \E k \in DOMAIN rows : 2 * k + 1 = shown /\ a <= 2 * k
  <1>1. /\ offset' = a /\ polling' = TRUE /\ upTo' = shown
        /\ todo' = w \/ (torn /\ todo' = Append(w, rows[shown \div 2]))
        /\ passed' = passed \cup Overlooked(a, shown)
    BY DEF PollStart
  <1>2. /\ lastTs' = lastTs /\ seen' = seen /\ floor' = floor /\ candles' = candles /\ lost' = lost
        /\ now' = now /\ script' = script /\ lastDump' = lastDump /\ starts' = starts
        /\ rows' = rows /\ shown' = shown /\ mode' = mode /\ listed' = listed
        /\ restarts' = restarts /\ faults' = faults /\ blind' = blind
        /\ ~rewritten' /\ ~polling /\ todo = <<>> /\ upTo = 0
        /\ shown \in Nat /\ shown >= 2 /\ starts # 0
        /\ a \in Nat /\ a <= shown
        /\ PublishedOnce' /\ InOrder' /\ FeederRemembers' /\ OneScript'
    BY PollFinds
  <1>3. FeedTypeOK  BY DEF FeedInv
  <1>4. DOMAIN rows = 1 .. Len(rows) /\ Len(rows) \in Nat /\ offset \in Nat
    BY <1>3, RowTypes DEF FeedTypeOK
  <1>5. \A t, m : Published(t, m)' = Published(t, m) /\ Superseded(t, m)' = Superseded(t, m)
    BY PollFinds
  <1>6. a = 0 \/ (a = offset /\ shown >= offset)  BY <1>2, <1>4 DEF StartOf
  \* What the poll overlooks is not due.
  <1>7. \A k \in DOMAIN rows :
          /\ 2 * k + 1 = shown => KeyOf(rows[k]) \in passed'
          /\ 2 * k < a /\ rewritten => KeyOf(rows[k]) \in passed'
          /\ KeyOf(rows[k]) \in passed => KeyOf(rows[k]) \in passed'
    <2>0. \A k \in DOMAIN rows : 2 * k < a => shown >= offset  BY <1>4, <1>6
    <2>1. \A k \in DOMAIN rows : 2 * k + 1 = shown \/ (rewritten /\ shown >= offset /\ 2 * k < a)
            => <<rows[k].t, rows[k].m>> \in Overlooked(a, shown)
      <3> HIDE DEF a
      <3> QED  BY DEF Overlooked
    <2> HIDE DEF a
    <2> QED  BY <1>1, <2>0, <2>1 DEF KeyOf
  <1>8. \A k \in DOMAIN rows : DueRow(k)' => DueRow(k)
    BY <1>2, <1>7 DEF DueRow, KeyOf
  <1>9. PICK b \in 0 .. Len(rows) :
          /\ w \in Seq(Completed) /\ 2 * b < shown
          /\ \A k \in DOMAIN rows : k > b <=> 2 * k >= a
          /\ \A i \in DOMAIN w : b + i \in DOMAIN rows /\ w[i] = rows[b + i] /\ 2 * (b + i) + 2 <= shown
          /\ \A k \in DOMAIN rows : 2 * k + 2 <= shown /\ k > b => k - b \in DOMAIN w
          /\ \A k \in DOMAIN rows : 2 * k + 1 = shown /\ a <= 2 * k =>
               shown \div 2 = k /\ Len(w) = k - 1 - b
    BY <1>2, <1>3, RowsBetween
  <1>10. b \in Nat  BY <1>4
  <1> HIDE DEF w, a
  <1>11. /\ todo' \in Seq(Completed)
         /\ \A i \in DOMAIN todo' : b + i \in DOMAIN rows /\ todo'[i] = rows[b + i] /\ 2 * (b + i) < shown
         /\ DOMAIN w \subseteq DOMAIN todo'
    <2>0. \A i \in DOMAIN w : i \in Nat /\ 2 * (b + i) < shown
      <3>1. \A i \in DOMAIN w : b + i \in Nat /\ 2 * (b + i) + 2 <= shown  BY <1>4, <1>9
      <3>2. \A i \in DOMAIN w : i \in Nat
        <4> DEFINE R == Completed
        <4>1. w \in Seq(R)  BY <1>9
        <4> HIDE DEF R
        <4> QED  BY <4>1
      <3> QED  BY <1>2, <1>10, <3>1, <3>2
    <2>1. CASE todo' = w
      <3>1. \A i \in DOMAIN w : b + i \in DOMAIN rows /\ w[i] = rows[b + i]  BY <1>9
      <3>2. w \in Seq(Completed)  BY <1>9
      <3> QED  BY <2>0, <2>1, <3>1, <3>2
    <2>2. CASE torn /\ todo' = Append(w, rows[shown \div 2])
      <3>1. PICK k \in DOMAIN rows : 2 * k + 1 = shown /\ a <= 2 * k  BY <2>2
      <3>2. shown \div 2 = k /\ Len(w) = k - 1 - b  BY <1>9, <3>1
      <3>3. rows[k] \in Completed  BY <1>3 DEF FeedTypeOK
      <3> DEFINE R == Completed
      <3>4. w \in Seq(R) /\ rows[k] \in R  BY <1>9, <3>3
      <3> HIDE DEF R
      <3>5. /\ Append(w, rows[k]) \in Seq(R) /\ DOMAIN w = 1 .. Len(w) /\ Len(w) \in Nat
            /\ DOMAIN Append(w, rows[k]) = 1 .. Len(w) + 1
            /\ \A i \in 1 .. Len(w) : Append(w, rows[k])[i] = w[i]
            /\ Append(w, rows[k])[Len(w) + 1] = rows[k]
        BY <3>4
      <3>6. todo' = Append(w, rows[k])  BY <2>2, <3>2
      <3>7. \A i \in DOMAIN todo' : \/ i \in DOMAIN w /\ todo'[i] = w[i]
                                    \/ i = Len(w) + 1 /\ todo'[i] = rows[k]
        <4>1. \A i \in 1 .. Len(w) + 1 : i \in 1 .. Len(w) \/ i = Len(w) + 1  BY <3>5
        <4>2. DOMAIN todo' = 1 .. Len(w) + 1  BY <3>5, <3>6
        <4>3. \A i \in DOMAIN w : todo'[i] = w[i]  BY <3>5, <3>6
        <4>4. todo'[Len(w) + 1] = rows[k]  BY <3>5, <3>6
        <4>5. DOMAIN w = 1 .. Len(w)  BY <3>5
        <4> QED  BY <4>1, <4>2, <4>3, <4>4, <4>5
      <3>8. b + (Len(w) + 1) = k /\ 2 * k < shown  BY <1>2, <1>4, <1>10, <3>1, <3>2
      <3>9. todo' \in Seq(Completed)  BY <3>5, <3>6 DEF R
      <3>10. DOMAIN w \subseteq DOMAIN todo'  BY <3>5, <3>6
      <3>11. \A i \in DOMAIN todo' : b + i \in DOMAIN rows /\ todo'[i] = rows[b + i] /\ 2 * (b + i) < shown
        BY <1>9, <2>0, <3>7, <3>8
      <3> QED  BY <3>9, <3>10, <3>11
    <2> QED  BY <1>1, <2>1, <2>2
  <1>12. FeedTypeOK'
    <2>1. Completed' = Completed  BY <1>2 DEF Completed
    <2>2. passed' \subseteq Tickers \X (1 .. now')
      <3>1. Overlooked(a, shown) \subseteq Tickers \X (1 .. now)  BY <1>3, RowTypes DEF Overlooked
      <3> QED  BY <1>1, <1>2, <1>3, <3>1 DEF FeedTypeOK
    <2>3. rewritten' \in BOOLEAN /\ polling' \in BOOLEAN
      <3>1. rewritten' = FALSE /\ polling' = TRUE  BY <1>1 DEF PollStart
      <3> QED  BY <3>1
    <2> QED  BY <1>1, <1>2, <1>3, <1>11, <2>1, <2>2, <2>3 DEF FeedTypeOK, SizeOf
  \* Before the start of the poll.
  <1>13. \A k \in DOMAIN rows : 2 * k < a /\ DueRow(k)' =>
           /\ ~rewritten /\ 2 * k + 2 <= offset
           /\ Superseded(rows[k].t, rows[k].m)
           /\ Refilling /\ rows[k].t \in Legacy => Published(rows[k].t, rows[k].m)
    <2> SUFFICES ASSUME NEW k \in DOMAIN rows, 2 * k < a, DueRow(k)'
                 PROVE  /\ ~rewritten /\ 2 * k + 2 <= offset
                        /\ Superseded(rows[k].t, rows[k].m)
                        /\ Refilling /\ rows[k].t \in Legacy => Published(rows[k].t, rows[k].m)
      OBVIOUS
    <2>1. KeyOf(rows[k]) \notin passed'  BY <1>2 DEF DueRow, KeyOf
    <2>2. ~rewritten  BY <1>7, <2>1
    <2>3. a = offset /\ 2 * k < offset  BY <1>4, <1>6
    <2>4. 2 * k + 1 # offset
      <3>1. 2 * k + 1 \in {offset, upTo} => KeyOf(rows[k]) \in passed  BY <2>2 DEF FeedInv, ReaderFollows
      <3> QED  BY <1>7, <2>1, <3>1
    <2>5. 2 * k + 2 <= offset  BY <1>4, <2>3, <2>4
    <2>6. DueRow(k)  BY <1>8
    <2>7. Superseded(rows[k].t, rows[k].m)  BY <2>2, <2>5, <2>6 DEF FeedInv, PassedIsPublished, DueRow
    <2>8. Refilling /\ rows[k].t \in Legacy => Published(rows[k].t, rows[k].m)
      BY <2>5, <2>6 DEF FeedInv, LegacyFollows
    <2> QED  BY <2>2, <2>5, <2>7, <2>8
  <1>14. \A k \in DOMAIN rows : 2 * k + 2 <= a => 2 * k < a  BY <1>2, <1>4
  <1>15. PassedIsPublished'
    <2>1. \A k \in DOMAIN rows : 2 * k + 2 <= a /\ DueRow(k)' => Superseded(rows[k].t, rows[k].m)
      BY <1>13, <1>14
    <2>2. \A k \in DOMAIN rows : 2 * k + 2 <= a /\ KeyOf(rows[k])' \notin passed' /\ rows'[k].m >= floor'
            => Superseded(rows[k].t, rows[k].m)'
      BY <1>2, <1>5, <2>1 DEF DueRow, KeyOf, Superseded, Published
    <2> QED  BY <1>1, <1>2, <2>2 DEF PassedIsPublished
  <1>16. Refilling' = Refilling  BY <1>2 DEF Refilling
  <1>17. LegacyFollows'
    <2> SUFFICES ASSUME Refilling PROVE LegacyFollows'  BY <1>16 DEF LegacyFollows
    <2>1. LegacyFollows  BY DEF FeedInv
    <2>2. \A k \in DOMAIN rows : 2 * k + 2 <= a /\ DueRow(k)' /\ rows[k].t \in Legacy
            => Published(rows[k].t, rows[k].m)
      BY <1>13, <1>14
    <2> QED  BY <1>1, <1>2, <1>5, <2>1, <2>2 DEF LegacyFollows, Published
  <1>18. Refilling => \A k \in DOMAIN rows : k > b => IsAhead(k)'
    <2> SUFFICES ASSUME Refilling, NEW k \in DOMAIN rows, k > b PROVE IsAhead(k)'  OBVIOUS
    <2>1. 2 * k >= a  BY <1>9
    <2>2. 2 * k >= offset
      <3>1. CASE a = offset  BY <2>1, <3>1
      <3>2. CASE a # offset
        <4>1. a = 0 /\ mode # "xlsx" /\ shown < offset  BY <1>6, <3>2 DEF Refilling, a, StartOf
        <4>2. rewritten  BY <1>2, <1>4, <4>1 DEF FeedInv, ReaderFollows
        <4>3. offset = 0  BY <4>2 DEF FeedInv, OneScript, Refilling
        <4> QED  BY <3>2, <4>1, <4>3
      <3> QED  BY <3>1, <3>2
    <2>3. IsAhead(k)  BY <1>2, <2>2 DEF FeedInv, LegacyFollows
    <2> QED  BY <1>2, <2>3 DEF IsAhead
  <1>19. PollAt(b)'
    <2>1. 2 * b < upTo'  BY <1>1, <1>9
    <2>2. \A i \in DOMAIN todo' : b + i \in DOMAIN rows' /\ todo'[i] = rows'[b + i] /\ 2 * (b + i) < upTo'
      BY <1>1, <1>2, <1>11
    <2>3. \A k \in DOMAIN rows' : 2 * k + 2 <= upTo' /\ k > b => k - b \in DOMAIN todo'
      BY <1>1, <1>2, <1>9, <1>11
    <2>4. \A k \in DOMAIN rows : k <= b => 2 * k < a  BY <1>2, <1>4, <1>9, <1>10
    <2>5. \A k \in DOMAIN rows' : 2 * k + 2 <= upTo' /\ k <= b /\ DueRow(k)' =>
            /\ Superseded(rows[k].t, rows[k].m)'
            /\ Refilling' /\ rows'[k].t \in Legacy => Published(rows[k].t, rows[k].m)'
      BY <1>2, <1>5, <1>13, <1>16, <2>4 DEF Superseded, Published
    <2>6. Refilling' => \A k \in DOMAIN rows' : k > b => IsAhead(k)'  BY <1>2, <1>16, <1>18
    <2> QED  BY <2>1, <2>2, <2>3, <2>5, <2>6 DEF PollAt
  <1>20. ReaderFollows'
    <2>1. \A k \in DOMAIN rows : 2 * k + 1 \in {a, shown} => KeyOf(rows[k]) \in passed'
      <3> SUFFICES ASSUME NEW k \in DOMAIN rows, 2 * k + 1 = a, KeyOf(rows[k]) \notin passed' PROVE FALSE
        BY <1>7
      <3>1. 2 * k < a /\ a = offset  BY <1>4, <1>6
      <3>2. ~rewritten  BY <1>7, <3>1
      <3>3. KeyOf(rows[k]) \in passed  BY <3>1, <3>2 DEF FeedInv, ReaderFollows
      <3> QED  BY <1>7, <3>3
    <2>2. b \in 0 .. Len(rows')  BY <1>2
    <2>3. \A k \in DOMAIN rows' : 2 * k + 1 \in {offset', upTo'} => KeyOf(rows[k])' \in passed'
      BY <1>1, <1>2, <2>1 DEF KeyOf
    <2>4. offset' <= shown' /\ upTo' <= shown'  BY <1>1, <1>2
    <2>5. /\ shown' # 1 /\ (script' # "off" => shown' >= 2)
          /\ \A k \in DOMAIN rows' : rows'[k].t \in ToSet(listed')
      BY <1>2 DEF FeedInv, ReaderFollows
    <2>6. polling'  BY <1>1
    <2> QED  BY <1>19, <2>2, <2>3, <2>4, <2>5, <2>6 DEF ReaderFollows
  <1> QED  BY <1>2, <1>12, <1>15, <1>17, <1>20 DEF FeedInv

LEMMA PollStarted == FeedInv /\ PollStart => FeedInv'
  BY TailSkips, PollOpened

-------------------------------------------------------------------------------
(* What a poll publishes, and what it skips.                               *)

\* Of a due row that the filters skip, the stream has it or a newer one.
LEMMA RowSkipped ==
    ASSUME FeedInv, NEW b \in 0 .. Len(rows), PollAt(b), NEW k \in DOMAIN rows,
           k - b \in DOMAIN todo, ~Wanted(todo[k - b]), DueRow(k), k > b
    PROVE  /\ Superseded(rows[k].t, rows[k].m)
           /\ Refilling /\ rows[k].t \in Legacy => Published(rows[k].t, rows[k].m)
  <1>1. FeedTypeOK  BY DEF FeedInv
  <1>2. /\ rows[k].t \in Tickers /\ rows[k].m \in 1 .. now /\ now \in Nat
        /\ DOMAIN rows = 1 .. Len(rows) /\ Len(rows) \in Nat
    BY <1>1, RowTypes
  <1> DEFINE r == rows[k]
  <1>3. todo[k - b] = r
    <2>1. todo[k - b] = rows[b + (k - b)] /\ b + (k - b) = k  BY <1>2 DEF PollAt
    <2> QED  BY <2>1
  <1>4. lastTs[r.t] \in 0 .. now  BY <1>1, <1>2, RowTypes
  <1>5. r.m <= lastTs[r.t] \/ KeyOf(r) \in seen
    <2>1. ~Wanted(r) /\ r.m >= floor  BY <1>3 DEF DueRow
    <2>2. floor \in Nat  BY <1>1 DEF FeedTypeOK
    <2> QED  BY <1>2, <1>4, <2>1, <2>2 DEF Wanted
  <1>6. CASE KeyOf(r) \in seen
    <2>1. Published(KeyOf(r)[1], KeyOf(r)[2])  BY <1>6 DEF FeedInv, FeederRemembers
    <2>2. Published(r.t, r.m)  BY <2>1 DEF KeyOf
    <2>3. r.m \in 0 .. now /\ r.m <= r.m  BY <1>2
    <2>4. Superseded(r.t, r.m)  BY <1>1, <2>2, <2>3, NewerSupersedes
    <2> QED  BY <2>2, <2>4
  <1>7. CASE r.m <= lastTs[r.t]
    <2>1. lastTs[r.t] > 0  BY <1>2, <1>4, <1>7
    <2>2. Published(r.t, lastTs[r.t])  BY <1>2, <2>1 DEF FeedInv, FeederRemembers
    <2>3. Superseded(r.t, r.m)  BY <1>1, <1>4, <1>7, <2>2, NewerSupersedes
    <2>4. Refilling /\ r.t \in Legacy => lastTs[r.t] < r.m  BY DEF PollAt, IsAhead
    <2> QED  BY <1>2, <1>4, <1>7, <2>3, <2>4
  <1> QED  BY <1>5, <1>6, <1>7

\* What is left of a sequence after its first n entries.
LEMMA RestOf ==
    ASSUME NEW R, NEW s \in Seq(R), NEW n \in 1 .. Len(s)
    PROVE  /\ SubSeq(s, n + 1, Len(s)) \in Seq(R)
           /\ DOMAIN SubSeq(s, n + 1, Len(s)) = 1 .. Len(s) - n
           /\ \A i \in 1 .. Len(s) - n : SubSeq(s, n + 1, Len(s))[i] = s[n + i] /\ n + i \in DOMAIN s
  <1> DEFINE r == SubSeq(s, n + 1, Len(s))
             l == Len(s)
             k == l - n
  <1>1. l \in Nat /\ n \in Nat \ {0} /\ n <= l /\ DOMAIN s = 1 .. l /\ k \in Nat  OBVIOUS
  <1> DEFINE f == [i \in 1 .. k |-> s[n + i]]
  <1>2. r = f
    <2>1. r = [i \in 1 .. (1 + l - (n + 1)) |-> s[i + (n + 1) - 1]]  BY <1>1
    <2>2. 1 + l - (n + 1) = k  BY <1>1
    <2>3. \A i \in 1 .. k : i + (n + 1) - 1 = n + i  BY <1>1
    <2> QED  BY <2>1, <2>2, <2>3
  <1>3. \A i \in 1 .. k : n + i \in DOMAIN s  BY <1>1
  <1>4. \A i \in 1 .. k : s[n + i] \in R  BY <1>3
  <1>5. f \in Seq(R) /\ DOMAIN f = 1 .. k  BY <1>1, <1>4
  <1> QED  BY <1>2, <1>3, <1>5

\* What is in the stream of the file stays there.
LEMMA RowsKept ==
    ASSUME rows' = rows, \A t, m : Published(t, m) => Published(t, m)', NEW k \in DOMAIN rows
    PROVE  /\ Published(rows[k].t, rows[k].m) => Published(rows[k].t, rows[k].m)'
           /\ Superseded(rows[k].t, rows[k].m) => Superseded(rows[k].t, rows[k].m)'
  <1>1. PICK t : t = rows[k].t  OBVIOUS
  <1>2. PICK m : m = rows[k].m  OBVIOUS
  <1>3. t = rows'[k].t /\ m = rows'[k].m  BY <1>1, <1>2
  <1>4. Superseded(t, m) => Superseded(t, m)'  BY DEF Superseded
  <1>5. Published(rows[k].t, rows[k].m) = Published(t, m)  BY <1>1, <1>2
  <1>6. Published(rows[k].t, rows[k].m)' = Published(t, m)'  BY <1>3 DEF Published
  <1>7. Superseded(rows[k].t, rows[k].m) = Superseded(t, m)  BY <1>1, <1>2
  <1>8. Superseded(rows[k].t, rows[k].m)' = Superseded(t, m)'  BY <1>3 DEF Superseded, Published
  <1> QED  BY <1>4, <1>5, <1>6, <1>7, <1>8

\* A row is published; the poll goes on behind it.
LEMMA RowPublished == FeedInv /\ PublishRow => FeedInv'
  <1> SUFFICES ASSUME FeedInv, PublishRow PROVE FeedInv'  OBVIOUS
  <1> PICK n : n = NextWanted  OBVIOUS
  <1> PICK bar : bar = todo[n]  OBVIOUS
  <1>1. FeedTypeOK  BY DEF FeedInv
  <1>2. /\ n > 0 /\ candles' = Append(candles, bar) /\ lastTs' = [lastTs EXCEPT ![bar.t] = bar.m]
        /\ seen' = (IF Cardinality(seen) < 4 * ScanMax THEN seen \cup {KeyOf(bar)} ELSE seen)
        /\ todo' = SubSeq(todo, n + 1, Len(todo))
        /\ UNCHANGED <<scriptVars, runVars>>
        /\ rewritten' = rewritten /\ offset' = offset /\ polling' = polling /\ upTo' = upTo
        /\ floor' = floor /\ passed' = passed /\ lost' = lost
    BY DEF PublishRow
  <1>3. /\ now' = now /\ script' = script /\ lastDump' = lastDump /\ starts' = starts
        /\ rows' = rows /\ shown' = shown /\ mode' = mode /\ listed' = listed
        /\ restarts' = restarts /\ faults' = faults /\ blind' = blind
    BY <1>2 DEF scriptVars, runVars
  <1>4. /\ n \in DOMAIN todo /\ Wanted(bar) /\ \A i \in DOMAIN todo : i < n => ~Wanted(todo[i])
        /\ n \in Nat
    BY <1>1, <1>2, FirstWanted DEF FeedTypeOK
  <1>5. /\ now \in Nat /\ now <= MaxMinute
        /\ DOMAIN rows = 1 .. Len(rows) /\ Len(rows) \in Nat
        /\ \A k \in DOMAIN rows : rows[k].t \in Tickers /\ rows[k].m \in 1 .. now
        /\ DOMAIN todo = 1 .. Len(todo) /\ Len(todo) \in Nat
        /\ DOMAIN candles = 1 .. Len(candles) /\ Len(candles) \in Nat
        /\ \A i \in DOMAIN candles : candles[i].t \in Tickers /\ candles[i].m \in 1 .. now
        /\ \A t \in Tickers : lastTs[t] \in 0 .. now
        /\ bar.t \in Tickers /\ bar.m \in 1 .. now
    BY <1>1, <1>4, RowTypes
  <1>6. bar \in Completed /\ candles \in Seq(Completed) /\ todo \in Seq(Completed)
    <2>1. todo \in Seq(Completed) /\ candles \in Seq(Completed)  BY <1>1 DEF FeedTypeOK
    <2> DEFINE R == Completed
    <2>2. todo \in Seq(R)  BY <2>1
    <2> HIDE DEF R
    <2>3. bar \in R  BY <1>4, <2>2
    <2> QED  BY <2>1, <2>3 DEF R
  <1>7. polling
    <2>1. todo # <<>>  BY <1>4
    <2> QED  BY <2>1 DEF FeedInv, ReaderFollows
  <1>8. bar.m > lastTs[bar.t] /\ bar.m >= floor /\ KeyOf(bar) \notin seen  BY <1>4 DEF Wanted
  <1>9. /\ todo' \in Seq(Completed) /\ DOMAIN todo' = 1 .. Len(todo) - n
        /\ \A i \in 1 .. Len(todo) - n : todo'[i] = todo[n + i] /\ n + i \in DOMAIN todo
    <2>1. n \in 1 .. Len(todo)  BY <1>4, <1>5
    <2> DEFINE R == Completed
    <2>2. todo \in Seq(R)  BY <1>6
    <2> HIDE DEF R
    <2>3. /\ SubSeq(todo, n + 1, Len(todo)) \in Seq(R)
          /\ DOMAIN SubSeq(todo, n + 1, Len(todo)) = 1 .. Len(todo) - n
          /\ \A i \in 1 .. Len(todo) - n :
                SubSeq(todo, n + 1, Len(todo))[i] = todo[n + i] /\ n + i \in DOMAIN todo
      BY <2>1, <2>2, RestOf
    <2> QED  BY <1>2, <2>3 DEF R
  <1>10. /\ \A t, m : Published(t, m) => Published(t, m)'
         /\ \A t, m : Superseded(t, m) => Superseded(t, m)'
         /\ Published(bar.t, bar.m)'
         /\ candles' \in Seq(Completed)
         /\ \A i \in DOMAIN candles' : \/ i \in DOMAIN candles /\ candles'[i] = candles[i]
                                       \/ i = Len(candles) + 1 /\ candles'[i] = bar
    BY <1>2, <1>6, StreamGrows
  <1>11. \A k \in DOMAIN rows :
           /\ Published(rows[k].t, rows[k].m) => Published(rows[k].t, rows[k].m)'
           /\ Superseded(rows[k].t, rows[k].m) => Superseded(rows[k].t, rows[k].m)'
    BY <1>3, <1>10, RowsKept
  <1>12. /\ lastTs' \in [Tickers -> 0 .. now] /\ lastTs'[bar.t] = bar.m
         /\ \A t \in Tickers : t # bar.t => lastTs'[t] = lastTs[t]
    <2>1. lastTs \in [Tickers -> 0 .. now] /\ bar.m \in 0 .. now  BY <1>1, <1>5 DEF FeedTypeOK
    <2> QED  BY <1>2, <1>5, <2>1
  <1>13. seen' \subseteq seen \cup {KeyOf(bar)} /\ seen \subseteq seen'  BY <1>2
  <1>14. FeedTypeOK'
    <2>1. Completed' = Completed  BY <1>3 DEF Completed
    <2>2. seen' \subseteq Tickers \X (1 .. now')
      <3>1. KeyOf(bar) \in Tickers \X (1 .. now)  BY <1>5 DEF KeyOf
      <3> QED  BY <1>1, <1>3, <1>13, <3>1 DEF FeedTypeOK
    <2>3. passed' \subseteq Tickers \X (1 .. now')  BY <1>1, <1>2, <1>3 DEF FeedTypeOK
    <2> QED  BY <1>1, <1>2, <1>3, <1>9, <1>10, <1>12, <2>1, <2>2, <2>3 DEF FeedTypeOK, SizeOf
  <1>15. PassedIsPublished'
    <2> SUFFICES ASSUME ~rewritten, NEW k \in DOMAIN rows, 2 * k + 2 <= offset,
                        KeyOf(rows[k]) \notin passed, rows[k].m >= floor
                 PROVE  Superseded(rows[k].t, rows[k].m)'
      BY <1>2, <1>3 DEF PassedIsPublished, KeyOf
    <2>1. Superseded(rows[k].t, rows[k].m)  BY DEF FeedInv, PassedIsPublished
    <2> QED  BY <1>11, <2>1
  \* The bar is new to what the feeder remembers of the stream.
  <1>16. ASSUME lost = 0, blind = 0, NEW i \in DOMAIN candles
         PROVE  /\ KeyOf(candles[i]) # KeyOf(bar)
                /\ candles[i].t = bar.t /\ candles[i].t \notin Legacy => candles[i].m < bar.m
                /\ candles[i].t \notin Legacy => candles[i].m <= lastTs[candles[i].t]
                /\ \/ candles[i].m <= lastTs[candles[i].t] \/ candles[i].m < floor
                   \/ KeyOf(candles[i]) \in seen
    <2>1. /\ candles[i].t \notin Legacy => candles[i].m <= lastTs[candles[i].t]
          /\ \/ candles[i].m <= lastTs[candles[i].t] \/ candles[i].m < floor
             \/ KeyOf(candles[i]) \in seen
      BY <1>16 DEF FeedInv, FeederRemembers
    <2>2. /\ candles[i].m \in Nat /\ bar.m \in Nat /\ lastTs[bar.t] \in Nat /\ floor \in Nat
          /\ candles[i].t \in Tickers
      <3>1. candles[i].m \in 1 .. now /\ bar.m \in 1 .. now /\ lastTs[bar.t] \in 0 .. now
            /\ candles[i].t \in Tickers
        BY <1>5
      <3>2. floor \in Nat  BY <1>1 DEF FeedTypeOK
      <3> QED  BY <1>5, <3>1, <3>2
    <2>3. candles[i].t = bar.t /\ candles[i].t \notin Legacy => candles[i].m < bar.m
      BY <1>8, <2>1, <2>2
    <2>4. KeyOf(candles[i]) = KeyOf(bar) => candles[i].t = bar.t /\ candles[i].m = bar.m
      BY DEF KeyOf
    <2>5. KeyOf(candles[i]) # KeyOf(bar)
      <3> SUFFICES ASSUME KeyOf(candles[i]) = KeyOf(bar) PROVE FALSE  OBVIOUS
      <3>1. candles[i].t = bar.t /\ candles[i].m = bar.m /\ KeyOf(candles[i]) \notin seen
        BY <1>8, <2>4
      <3>2. lastTs[candles[i].t] = lastTs[bar.t]  BY <3>1
      <3>3. candles[i].m <= lastTs[bar.t] \/ bar.m < floor  BY <2>1, <3>1, <3>2
      <3> QED  BY <1>8, <2>2, <3>1, <3>3
    <2> QED  BY <2>1, <2>3, <2>5
  <1>17. Len(candles) + 1 \notin DOMAIN candles /\ \A i \in DOMAIN candles : i \in Nat /\ i < Len(candles) + 1
    BY <1>5
  <1>18. PublishedOnce'
    <2> SUFFICES ASSUME lost = 0, blind = 0, NEW i \in DOMAIN candles', NEW j \in DOMAIN candles',
                        KeyOf(candles'[i]) = KeyOf(candles'[j])
                 PROVE  i = j
      BY <1>2, <1>3 DEF PublishedOnce, KeyOf
    <2>1. CASE i \in DOMAIN candles /\ j \in DOMAIN candles
      <3>1. candles'[i] = candles[i] /\ candles'[j] = candles[j]  BY <1>10, <1>17, <2>1
      <3> QED  BY <2>1, <3>1 DEF FeedInv, PublishedOnce
    <2>2. CASE i \in DOMAIN candles /\ j \notin DOMAIN candles
      <3>1. candles'[i] = candles[i] /\ candles'[j] = bar  BY <1>10, <1>17, <2>2
      <3> QED  BY <1>16, <2>2, <3>1
    <2>3. CASE i \notin DOMAIN candles /\ j \in DOMAIN candles
      <3>1. candles'[j] = candles[j] /\ candles'[i] = bar  BY <1>10, <1>17, <2>3
      <3> QED  BY <1>16, <2>3, <3>1
    <2>4. CASE i \notin DOMAIN candles /\ j \notin DOMAIN candles  BY <1>10, <2>4
    <2> QED  BY <2>1, <2>2, <2>3, <2>4
  <1>19. InOrder'
    <2>0. ASSUME lost = 0, blind = 0, NEW i \in DOMAIN candles', NEW j \in DOMAIN candles',
                        i < j, candles'[i].t = candles'[j].t, candles'[i].t \notin Legacy
          PROVE  candles'[i].m <= candles'[j].m
      <3>1. CASE i \in DOMAIN candles /\ j \in DOMAIN candles
        <4>1. candles'[i] = candles[i] /\ candles'[j] = candles[j]  BY <1>10, <1>17, <3>1
        <4> QED  BY <2>0, <3>1, <4>1 DEF FeedInv, InOrder
      <3>2. CASE i \in DOMAIN candles /\ j \notin DOMAIN candles
        <4>1. candles'[i] = candles[i] /\ candles'[j] = bar  BY <1>10, <1>17, <3>2
        <4>2. candles[i].m < bar.m  BY <1>16, <2>0, <3>2, <4>1
        <4>3. candles[i].m \in Nat /\ bar.m \in Nat  BY <1>5, <3>2
        <4> QED  BY <2>0, <4>1, <4>2, <4>3
      <3>3. CASE i \notin DOMAIN candles
        <4>1. i = Len(candles) + 1 /\ (j \in DOMAIN candles \/ j = Len(candles) + 1)  BY <1>10, <3>3
        <4> QED  BY <1>5, <1>17, <2>0, <4>1
      <3> QED  BY <3>1, <3>2, <3>3
    <2>1. lost' = lost /\ blind' = blind  BY <1>2, <1>3
    <2>2. lost = 0 /\ blind = 0 =>
            \A i, j \in DOMAIN candles' :
               i < j /\ candles'[i].t = candles'[j].t /\ candles'[i].t \notin Legacy
               => candles'[i].m <= candles'[j].m
      BY <2>0
    <2> QED  BY <2>1, <2>2 DEF InOrder
  <1>20. OneScript'  BY <1>2, <1>3 DEF FeedInv, OneScript
  <1>21. Refilling => ~rewritten /\ LegacyFollows /\ OneScript
    BY <1>7 DEF FeedInv, OneScript, Refilling
  <1>22. Refilling' = Refilling  BY <1>3 DEF Refilling
  <1>23. ~rewritten => \E b \in 0 .. Len(rows) : PollAt(b)  BY <1>7 DEF FeedInv, ReaderFollows
  <1>24. LegacyFollows'
    <2> SUFFICES ASSUME Refilling PROVE LegacyFollows'  BY <1>22 DEF LegacyFollows
    <2>1. PICK b \in 0 .. Len(rows) : PollAt(b)  BY <1>21, <1>23
    <2>2. b + n \in DOMAIN rows /\ bar = rows[b + n]  BY <1>4, <2>1 DEF PollAt
    <2>3. bar = [t |-> bar.t, m |-> bar.m]  BY <1>6 DEF Completed
    <2>4. ASSUME NEW t \in Legacy, lastTs'[t] > 0
          PROVE  \E k \in DOMAIN rows : rows[k] = [t |-> t, m |-> lastTs'[t]]
      <3>1. CASE t = bar.t
        <4>1. [t |-> t, m |-> lastTs'[t]] = bar  BY <1>12, <2>3, <3>1
        <4> QED  BY <2>2, <4>1
      <3>2. CASE t # bar.t
        <4>1. lastTs'[t] = lastTs[t]  BY <1>12, <3>2, FeedBounds
        <4> QED  BY <1>21, <2>4, <4>1 DEF LegacyFollows
      <3> QED  BY <3>1, <3>2
    <2>5. ASSUME NEW k \in DOMAIN rows, 2 * k + 2 <= offset, DueRow(k), rows[k].t \in Legacy
          PROVE  Published(rows[k].t, rows[k].m)'
      <3>1. Published(rows[k].t, rows[k].m)  BY <1>21, <2>5 DEF LegacyFollows
      <3> QED  BY <1>11, <3>1
    <2>6. \A k \in DOMAIN rows : DueRow(k)' = DueRow(k)  BY <1>2, <1>3 DEF DueRow, KeyOf
    <2> QED  BY <1>2, <1>3, <1>7, <2>4, <2>5, <2>6 DEF LegacyFollows
  <1>25. ReaderFollows'
    <2> DEFINE R == /\ shown # 1 /\ (script # "off" => shown >= 2)
                    /\ ~rewritten =>
                        /\ offset <= shown /\ upTo <= shown
                        /\ \A k \in DOMAIN rows : 2 * k + 1 \in {offset, upTo} => KeyOf(rows[k]) \in passed
                    /\ \A k \in DOMAIN rows : rows[k].t \in ToSet(listed)
    <2>1. R  BY DEF FeedInv, ReaderFollows
    <2>2. R'  BY <1>2, <1>3, <2>1 DEF KeyOf
    <2>3. ~rewritten => \E c \in 0 .. Len(rows) : PollAt(c)'
      <3> SUFFICES ASSUME ~rewritten PROVE \E c \in 0 .. Len(rows) : PollAt(c)'  OBVIOUS
      <3>1. PICK b \in 0 .. Len(rows) : PollAt(b)  BY <1>23
      <3> DEFINE c == b + n
      <3>2. c \in DOMAIN rows /\ bar = rows[c] /\ 2 * c < upTo  BY <1>4, <3>1 DEF PollAt
      <3>3. b \in Nat /\ b <= Len(rows) /\ upTo \in Nat /\ n \in Nat /\ n > 0 /\ c \in Nat /\ c > b
        <4>1. b \in Nat /\ b <= Len(rows)  BY <1>5
        <4>2. upTo \in Nat /\ n \in Nat /\ n > 0  BY <1>1, <1>2, <1>4 DEF FeedTypeOK
        <4> QED  BY <4>1, <4>2
      <3>4. c \in 0 .. Len(rows)  BY <1>5, <3>2
      <3>5. \A i \in DOMAIN todo' : c + i \in DOMAIN rows /\ todo'[i] = rows[c + i] /\ 2 * (c + i) < upTo
        <4> TAKE i \in DOMAIN todo'
        <4>1. todo'[i] = todo[n + i] /\ n + i \in DOMAIN todo /\ i \in Nat  BY <1>5, <1>9, <3>3
        <4>2. b + (n + i) = c + i  BY <3>3, <4>1
        <4>3. b + (n + i) \in DOMAIN rows /\ todo[n + i] = rows[b + (n + i)] /\ 2 * (b + (n + i)) < upTo
          BY <3>1, <4>1 DEF PollAt
        <4> HIDE DEF c
        <4> QED  BY <4>1, <4>2, <4>3
      <3>6. \A k \in DOMAIN rows : 2 * k + 2 <= upTo /\ k > c => k - c \in DOMAIN todo'
        <4> TAKE k \in DOMAIN rows
        <4> HAVE 2 * k + 2 <= upTo /\ k > c
        <4>1. k \in Nat /\ k > b  BY <1>5, <3>3
        <4>2. k - b \in 1 .. Len(todo)  BY <1>5, <3>1, <4>1 DEF PollAt
        <4>3. k - c \in 1 .. Len(todo) - n  BY <1>5, <3>3, <4>1, <4>2
        <4> QED  BY <1>9, <4>3
      <3>7. ASSUME NEW k \in DOMAIN rows, 2 * k + 2 <= upTo, k <= c, DueRow(k)
            PROVE  /\ Superseded(rows[k].t, rows[k].m)'
                   /\ Refilling /\ rows[k].t \in Legacy => Published(rows[k].t, rows[k].m)'
        <4>0. rows[k].t = rows'[k].t /\ rows[k].m = rows'[k].m /\ k \in Nat  BY <1>3, <1>5
        <4>1. CASE k <= b
          <5>1. /\ Superseded(rows[k].t, rows[k].m)
                /\ Refilling /\ rows[k].t \in Legacy => Published(rows[k].t, rows[k].m)
            BY <3>1, <3>7, <4>1 DEF PollAt
          <5> QED  BY <1>11, <5>1
        <4>2. CASE k > b /\ k < c
          <5>1. k - b \in DOMAIN todo /\ k - b < n
            <6>1. k - b \in DOMAIN todo  BY <3>1, <3>7, <4>2 DEF PollAt
            <6> QED  BY <3>3, <4>0, <4>2, <6>1
          <5>2. ~Wanted(todo[k - b])  BY <1>4, <5>1
          <5>3. /\ Superseded(rows[k].t, rows[k].m)
                /\ Refilling /\ rows[k].t \in Legacy => Published(rows[k].t, rows[k].m)
            BY <3>1, <3>7, <4>2, <5>1, <5>2, RowSkipped
          <5> QED  BY <1>11, <5>3
        <4>3. CASE k = c
          <5>1. rows'[k] = bar  BY <1>3, <3>2, <4>3
          <5>2. Published(rows[k].t, rows[k].m)'
            BY <1>10, <5>1 DEF Published
          <5>3. bar.m \in bar.m .. MaxMinute  BY <1>5, FeedBounds
          <5>4. Superseded(rows[k].t, rows[k].m)'
            BY <1>10, <5>1, <5>3 DEF Superseded, Published
          <5> QED  BY <5>2, <5>4
        <4> QED  BY <3>3, <3>7, <4>0, <4>1, <4>2, <4>3
      <3>8. ASSUME Refilling, NEW k \in DOMAIN rows, k > c PROVE IsAhead(k)'
        <4>1. IsAhead(k) /\ k \in Nat
          <5>1. k > b /\ k \in Nat  BY <1>5, <3>3, <3>8
          <5> QED  BY <3>1, <3>8, <5>1 DEF PollAt
        <4>2. rows[k].t = bar.t => bar.m < rows[k].m
          BY <1>21, <3>2, <3>8 DEF OneScript, Refilling
        <4> QED  BY <1>3, <1>5, <1>12, <4>1, <4>2 DEF IsAhead
      <3>9. \A k \in DOMAIN rows : DueRow(k)' = DueRow(k)  BY <1>2, <1>3 DEF DueRow, KeyOf
      <3> HIDE DEF c
      <3>10. PollAt(c)'
        <4>1. 2 * c < upTo'
              /\ \A i \in DOMAIN todo' : c + i \in DOMAIN rows' /\ todo'[i] = rows'[c + i] /\ 2 * (c + i) < upTo'
          BY <1>2, <1>3, <3>2, <3>5
        <4>2. \A k \in DOMAIN rows' : 2 * k + 2 <= upTo' /\ k > c => k - c \in DOMAIN todo'
          BY <1>2, <1>3, <3>6
        <4>3. \A k \in DOMAIN rows' : 2 * k + 2 <= upTo' /\ k <= c /\ DueRow(k)' =>
                /\ Superseded(rows[k].t, rows[k].m)'
                /\ Refilling' /\ rows'[k].t \in Legacy => Published(rows[k].t, rows[k].m)'
          BY <1>2, <1>3, <1>22, <3>7, <3>9
        <4>4. Refilling' => \A k \in DOMAIN rows' : k > c => IsAhead(k)'  BY <1>3, <1>22, <3>8
        <4> QED  BY <4>1, <4>2, <4>3, <4>4 DEF PollAt
      <3> QED  BY <3>4, <3>10 DEF c
    <2>4. ~rewritten' => \E c \in 0 .. Len(rows') : PollAt(c)'  BY <1>2, <1>3, <2>3
    <2>5. polling'  BY <1>2, <1>7
    <2> QED  BY <2>2, <2>4, <2>5 DEF ReaderFollows
  <1>26. FeederRemembers'
    <2>1. \A t \in Tickers : lastTs'[t] > 0 => Published(t, lastTs[t])'
      <3> SUFFICES ASSUME NEW t \in Tickers, lastTs'[t] > 0 PROVE Published(t, lastTs[t])'  OBVIOUS
      <3>1. CASE t = bar.t  BY <1>10, <1>12, <3>1 DEF Published
      <3>2. CASE t # bar.t
        <4>1. lastTs'[t] = lastTs[t]  BY <1>12, <3>2
        <4>2. PICK l : l = lastTs[t]  OBVIOUS
        <4>3. Published(t, l)  BY <4>1, <4>2 DEF FeedInv, FeederRemembers
        <4>4. Published(t, l)'  BY <1>10, <4>3
        <4> QED  BY <4>1, <4>2, <4>4 DEF Published
      <3> QED  BY <3>1, <3>2
    <2>2. \A x \in seen' : Published(x[1], x[2])'
      <3>1. \A x \in seen : Published(x[1], x[2])'  BY <1>10 DEF FeedInv, FeederRemembers
      <3>2. KeyOf(bar)[1] = bar.t /\ KeyOf(bar)[2] = bar.m  BY DEF KeyOf
      <3>3. Published(KeyOf(bar)[1], KeyOf(bar)[2])'  BY <1>10, <3>2 DEF Published
      <3> QED  BY <1>13, <3>1, <3>3
    <2>3. ASSUME lost = 0, blind = 0, NEW i \in DOMAIN candles'
          PROVE  /\ candles'[i].t \notin Legacy => candles'[i].m <= lastTs'[candles'[i].t]
                 /\ \/ candles'[i].m <= lastTs'[candles'[i].t] \/ candles'[i].m < floor
                    \/ KeyOf(candles'[i]) \in seen'
      <3>1. CASE i \in DOMAIN candles
        <4> DEFINE d == candles[i]
        <4>1. candles'[i] = d  BY <1>10, <1>17, <3>1
        <4>2. /\ d.t \notin Legacy => d.m <= lastTs[d.t]
              /\ d.m <= lastTs[d.t] \/ d.m < floor \/ KeyOf(d) \in seen
              /\ d.t \in Tickers /\ d.m \in Nat
          BY <1>5, <1>16, <2>3, <3>1
        <4>3. lastTs[d.t] <= lastTs'[d.t] /\ lastTs[d.t] \in Nat /\ lastTs'[d.t] \in Nat
          <5>1. lastTs[d.t] \in 0 .. now /\ lastTs'[d.t] \in 0 .. now  BY <1>5, <1>12, <4>2
          <5>2. CASE d.t = bar.t
            <6>1. lastTs'[d.t] = bar.m /\ lastTs[d.t] = lastTs[bar.t]  BY <1>12, <5>2
            <6> QED  BY <1>8, <5>1, <6>1
          <5>3. CASE d.t # bar.t
            <6>1. lastTs'[d.t] = lastTs[d.t]  BY <1>12, <4>2, <5>3
            <6> QED  BY <5>1, <6>1
          <5> QED  BY <5>1, <5>2, <5>3
        <4> HIDE DEF d
        <4>4. d.m <= lastTs[d.t] => d.m <= lastTs'[d.t]  BY <4>2, <4>3
        <4> QED  BY <1>13, <4>1, <4>2, <4>4
      <3>2. CASE i \notin DOMAIN candles
        <4>1. candles'[i] = bar  BY <1>10, <3>2
        <4>2. bar.m <= lastTs'[bar.t]  BY <1>5, <1>12
        <4> QED  BY <4>1, <4>2
      <3> QED  BY <3>1, <3>2
    <2> QED  BY <1>2, <1>3, <2>1, <2>2, <2>3 DEF FeederRemembers, KeyOf
  <1> QED  BY <1>14, <1>15, <1>18, <1>19, <1>20, <1>24, <1>25, <1>26 DEF FeedInv

\* The bound on what goes wrong.
LEMMA TroubleBounded ==
    ASSUME NEW x \in Nat, NEW y \in Nat, NEW z \in Nat, x + y + z <= MaxTrouble
    PROVE  x + y + z <= IF x = 0 THEN MaxTrouble ELSE MaxTrouble + 1
  BY FeedBounds

\* XADD raises: the poll is given up, and what was read of it is read again.
LEMMA XaddFailed == FeedInv /\ XaddFails => FeedInv'
  <1> SUFFICES ASSUME FeedInv, XaddFails PROVE FeedInv'  OBVIOUS
  <1>1. FeedTypeOK  BY DEF FeedInv
  <1> PICK bar : bar = todo[NextWanted]  OBVIOUS
  <1>2. /\ NextWanted > 0 /\ faults' = faults + 1 /\ Trouble
        /\ \/ candles' = Append(candles, bar) /\ lost' = lost + 1
           \/ candles' = candles /\ lost' = lost
        /\ polling' = FALSE /\ todo' = <<>> /\ upTo' = 0
        /\ UNCHANGED <<scriptVars, mode, listed, restarts, blind, rewritten, offset, lastTs, seen,
                       floor, passed>>
    BY DEF XaddFails
  <1>3. /\ now' = now /\ script' = script /\ lastDump' = lastDump /\ starts' = starts
        /\ rows' = rows /\ shown' = shown /\ mode' = mode /\ listed' = listed
        /\ restarts' = restarts /\ blind' = blind /\ rewritten' = rewritten /\ offset' = offset
        /\ lastTs' = lastTs /\ seen' = seen /\ floor' = floor /\ passed' = passed
    BY <1>2 DEF scriptVars
  <1>4. bar \in Completed
    <2> DEFINE R == Completed
    <2>1. todo \in Seq(R)  BY <1>1 DEF FeedTypeOK
    <2>2. NextWanted \in DOMAIN todo  BY <1>1, <1>2, FirstWanted DEF FeedTypeOK
    <2> HIDE DEF R
    <2>3. bar \in R  BY <2>1, <2>2
    <2> QED  BY <2>3 DEF R
  <1>5. /\ \A t, m : Published(t, m) => Published(t, m)'
        /\ candles' \in Seq(Completed)
    <2>1. candles \in Seq(Completed)  BY <1>1 DEF FeedTypeOK
    <2>2. CASE candles' = Append(candles, bar)  BY <1>4, <2>1, <2>2, StreamGrows
    <2>3. CASE candles' = candles  BY <2>1, <2>3, StreamKept
    <2> QED  BY <1>2, <2>2, <2>3
  <1>6. \A k \in DOMAIN rows :
          /\ Published(rows[k].t, rows[k].m) => Published(rows[k].t, rows[k].m)'
          /\ Superseded(rows[k].t, rows[k].m) => Superseded(rows[k].t, rows[k].m)'
    BY <1>3, <1>5, RowsKept
  <1>7. /\ faults \in Nat /\ faults' \in Nat /\ faults' # 0 /\ lost \in Nat /\ lost' \in Nat
        /\ starts \in Nat /\ restarts \in Nat
        /\ lost' = 0 => candles' = candles /\ lost = 0
    <2>1. faults \in Nat /\ lost \in Nat /\ starts \in Nat /\ restarts \in Nat  BY <1>1 DEF FeedTypeOK
    <2>2. (lost' = lost + 1 /\ lost' # 0) \/ (lost' = lost /\ candles' = candles)  BY <1>2, <2>1
    <2>3. faults' = faults + 1  BY <1>2
    <2> QED  BY <2>1, <2>2, <2>3
  <1>8. FeedTypeOK'
    <2>1. Completed' = Completed  BY <1>3 DEF Completed
    <2>2. starts' + restarts' + faults' <= IF starts' = 0 THEN MaxTrouble ELSE MaxTrouble + 1
      <3>1. starts + restarts + faults < MaxTrouble  BY <1>2 DEF Trouble
      <3>2. starts' + restarts' + faults' <= MaxTrouble  BY <1>2, <1>3, <1>7, <3>1, FeedBounds
      <3> QED  BY <1>3, <1>7, <3>2, TroubleBounded
    <2>3. {starts', restarts', faults', lost', blind'} \subseteq Nat  BY <1>1, <1>3, <1>7 DEF FeedTypeOK
    <2>4. todo' \in Seq(Completed')
      <3>1. \A S : <<>> \in Seq(S)  OBVIOUS
      <3> QED  BY <1>2, <3>1
    <2>5. polling' \in BOOLEAN  BY <1>2
    <2> QED  BY <1>1, <1>2, <1>3, <1>5, <2>1, <2>2, <2>3, <2>4, <2>5 DEF FeedTypeOK, SizeOf
  <1>9. PassedIsPublished'
    <2>1. ~rewritten => \A k \in DOMAIN rows :
            2 * k + 2 <= offset /\ KeyOf(rows[k]) \notin passed /\ rows[k].m >= floor
            => Superseded(rows[k].t, rows[k].m)'
      BY <1>6 DEF FeedInv, PassedIsPublished
    <2> QED  BY <1>3, <2>1 DEF PassedIsPublished, KeyOf
  <1>10. PublishedOnce' /\ InOrder'
    <2> SUFFICES ASSUME lost' = 0 PROVE PublishedOnce' /\ InOrder'  BY DEF PublishedOnce, InOrder
    <2> QED  BY <1>3, <1>7 DEF FeedInv, PublishedOnce, InOrder, KeyOf
  <1>11. OneScript'  BY <1>2, <1>3 DEF FeedInv, OneScript
  <1>12. LegacyFollows'  BY <1>7 DEF LegacyFollows, Refilling
  <1>13. ReaderFollows'
    <2>1. \A k \in DOMAIN rows : 2 * k + 1 # 0  BY <1>1, RowTypes
    <2>2. 0 <= shown
      <3>1. SizeOf(rows) \in Nat  BY <1>1, RowTypes DEF SizeOf
      <3> QED  BY <1>1, <3>1 DEF FeedTypeOK
    <2> QED  BY <1>2, <1>3, <2>1, <2>2 DEF FeedInv, ReaderFollows, KeyOf
  <1>14. FeederRemembers'
    <2>1. \A t \in Tickers : lastTs'[t] > 0 => Published(t, lastTs[t])'
      <3> SUFFICES ASSUME NEW t \in Tickers, lastTs[t] > 0 PROVE Published(t, lastTs[t])'
        BY <1>3
      <3>1. PICK l : l = lastTs[t]  OBVIOUS
      <3>2. Published(t, l)'  BY <1>5, <3>1 DEF FeedInv, FeederRemembers
      <3> QED  BY <1>3, <3>1, <3>2 DEF Published
    <2>2. \A x \in seen' : Published(x[1], x[2])'  BY <1>3, <1>5 DEF FeedInv, FeederRemembers
    <2>3. lost' = 0 /\ blind' = 0 =>
            \A i \in DOMAIN candles' :
               /\ candles'[i].t \notin Legacy => candles'[i].m <= lastTs'[candles'[i].t]
               /\ \/ candles'[i].m <= lastTs'[candles'[i].t] \/ candles'[i].m < floor'
                  \/ KeyOf(candles'[i]) \in seen'
      BY <1>3, <1>7 DEF FeedInv, FeederRemembers
    <2> QED  BY <2>1, <2>2, <2>3 DEF FeederRemembers, KeyOf
  <1> QED  BY <1>8, <1>9, <1>10, <1>11, <1>12, <1>13, <1>14 DEF FeedInv

\* The poll has nothing left to publish: the position is stored.
LEMMA PollEnded == FeedInv /\ PollEnds => FeedInv'
  <1> SUFFICES ASSUME FeedInv, PollEnds PROVE FeedInv'  OBVIOUS
  <1>1. FeedTypeOK  BY DEF FeedInv
  <1>2. /\ polling /\ NextWanted = 0
        /\ offset' = upTo /\ polling' = FALSE /\ todo' = <<>> /\ upTo' = 0
        /\ rewritten' = rewritten /\ lastTs' = lastTs /\ seen' = seen /\ floor' = floor
        /\ candles' = candles /\ passed' = passed /\ lost' = lost
        /\ UNCHANGED <<scriptVars, runVars>>
    BY DEF PollEnds
  <1>3. /\ now' = now /\ script' = script /\ lastDump' = lastDump /\ starts' = starts
        /\ rows' = rows /\ shown' = shown /\ mode' = mode /\ listed' = listed
        /\ restarts' = restarts /\ faults' = faults /\ blind' = blind
    BY <1>2 DEF scriptVars, runVars
  <1>4. \A t, m : Published(t, m)' = Published(t, m) /\ Superseded(t, m)' = Superseded(t, m)
    BY <1>2, StreamKept
  <1>5. \A i \in DOMAIN todo : ~Wanted(todo[i])  BY <1>1, <1>2, FirstWanted DEF FeedTypeOK
  <1>6. DOMAIN rows = 1 .. Len(rows) /\ Len(rows) \in Nat /\ upTo \in Nat /\ shown \in Nat
    <2>1. DOMAIN rows = 1 .. Len(rows) /\ Len(rows) \in Nat  BY <1>1, RowTypes
    <2> QED  BY <1>1, <2>1 DEF FeedTypeOK, SizeOf
  <1>7. FeedTypeOK'
    <2>1. Completed' = Completed  BY <1>3 DEF Completed
    <2>2. todo' \in Seq(Completed')
      <3>1. \A S : <<>> \in Seq(S)  OBVIOUS
      <3> QED  BY <1>2, <3>1
    <2>3. polling' \in BOOLEAN  BY <1>2
    <2> QED  BY <1>1, <1>2, <1>3, <2>1, <2>2, <2>3 DEF FeedTypeOK, SizeOf
  \* What lies before the end of the poll.
  <1>8. ~rewritten => \A k \in DOMAIN rows : 2 * k + 2 <= upTo /\ DueRow(k) =>
          /\ Superseded(rows[k].t, rows[k].m)
          /\ Refilling /\ rows[k].t \in Legacy => Published(rows[k].t, rows[k].m)
    <2> SUFFICES ASSUME ~rewritten, NEW k \in DOMAIN rows, 2 * k + 2 <= upTo, DueRow(k)
                 PROVE  /\ Superseded(rows[k].t, rows[k].m)
                        /\ Refilling /\ rows[k].t \in Legacy => Published(rows[k].t, rows[k].m)
      OBVIOUS
    <2>1. PICK b \in 0 .. Len(rows) : PollAt(b)  BY <1>2 DEF FeedInv, ReaderFollows
    <2>2. CASE k <= b  BY <2>1, <2>2 DEF PollAt
    <2>3. CASE k > b
      <3>1. k - b \in DOMAIN todo  BY <2>1, <2>3 DEF PollAt
      <3> QED  BY <1>5, <2>1, <2>3, <3>1, RowSkipped
    <2> QED  BY <1>6, <2>2, <2>3
  <1>9. PassedIsPublished'
    <2>1. ~rewritten => \A k \in DOMAIN rows :
            2 * k + 2 <= upTo /\ KeyOf(rows[k]) \notin passed /\ rows[k].m >= floor
            => Superseded(rows[k].t, rows[k].m)
      BY <1>8 DEF DueRow
    <2> QED  BY <1>2, <1>3, <1>4, <2>1 DEF PassedIsPublished, KeyOf, Superseded, Published
  <1>10. PublishedOnce' /\ InOrder'  BY <1>2, <1>3 DEF FeedInv, PublishedOnce, InOrder, KeyOf
  <1>11. starts <= 1 => ~rewritten /\ starts # 0  BY <1>2 DEF FeedInv, OneScript
  <1>12. OneScript'  BY <1>2, <1>3, <1>11 DEF FeedInv, OneScript
  <1>13. LegacyFollows'
    <2> SUFFICES ASSUME Refilling PROVE LegacyFollows'  BY <1>3 DEF LegacyFollows, Refilling
    <2>1. ~rewritten  BY <1>11 DEF Refilling
    <2>2. PICK b \in 0 .. Len(rows) : PollAt(b)  BY <1>2, <2>1 DEF FeedInv, ReaderFollows
    <2>3. \A k \in DOMAIN rows : 2 * k >= upTo => IsAhead(k)
      <3>1. \A k \in DOMAIN rows : 2 * k >= upTo => k > b  BY <1>6, <2>2 DEF PollAt
      <3> QED  BY <2>2, <3>1 DEF PollAt
    <2>4. \A k \in DOMAIN rows : IsAhead(k)' = IsAhead(k) /\ DueRow(k)' = DueRow(k)
      BY <1>2, <1>3 DEF IsAhead, DueRow, KeyOf
    <2>5. \A k \in DOMAIN rows : 2 * k + 2 <= upTo /\ DueRow(k) /\ rows[k].t \in Legacy
            => Published(rows[k].t, rows[k].m)
      BY <1>8, <2>1
    <2>6. \A t \in Legacy : lastTs[t] > 0 => \E k \in DOMAIN rows : rows[k] = [t |-> t, m |-> lastTs[t]]
      BY DEF FeedInv, LegacyFollows
    <2>7. \A t \in Legacy : lastTs'[t] > 0 => \E k \in DOMAIN rows' : rows'[k] = [t |-> t, m |-> lastTs'[t]]
      BY <1>2, <1>3, <2>6
    <2>8. \A k \in DOMAIN rows' : 2 * k + 2 <= offset' /\ DueRow(k)' /\ rows'[k].t \in Legacy
            => Published(rows[k].t, rows[k].m)'
      BY <1>2, <1>3, <2>4, <2>5 DEF Published
    <2>9. \A k \in DOMAIN rows' : 2 * k >= offset' => IsAhead(k)'  BY <1>2, <1>3, <2>3, <2>4
    <2> QED  BY <2>7, <2>8, <2>9 DEF LegacyFollows
  <1>14. ReaderFollows'
    <2>1. \A k \in DOMAIN rows : 2 * k + 1 # 0  BY <1>6
    <2>2. 0 <= shown  BY <1>6
    <2> QED  BY <1>2, <1>3, <2>1, <2>2 DEF FeedInv, ReaderFollows, KeyOf
  <1>15. FeederRemembers'  BY <1>2, <1>3, <1>4 DEF FeedInv, FeederRemembers, KeyOf
  <1> QED  BY <1>7, <1>9, <1>10, <1>12, <1>13, <1>14, <1>15 DEF FeedInv

\* The greatest of some numbers, 0 when there are none.
LEMMA GreatestOrNone ==
    ASSUME NEW n \in Nat, NEW S \in SUBSET (1 .. n)
    PROVE  /\ Max({0} \cup S) \in {0} \cup S
           /\ \A y \in S : y <= Max({0} \cup S)
           /\ S = {} => Max({0} \cup S) = 0
  <1> DEFINE T == {0} \cup S
  <1>1. \E x \in T : \A y \in T : x >= y
    <2>1. CASE S = {}  BY <2>1
    <2>2. CASE S # {}
      <3>1. PICK x \in S : \A y \in S : y <= x  BY <2>2, GreatestNumber
      <3>2. x \in Nat /\ \A y \in S : y \in Nat  OBVIOUS
      <3>3. \A y \in T : x >= y  BY <3>1, <3>2
      <3> QED  BY <3>3
    <2> QED  BY <2>1, <2>2
  <1> HIDE DEF T
  <1>2. Max(T) \in T /\ \A y \in T : Max(T) >= y  BY <1>1 DEF Max
  <1>3. \A y \in T : y \in Nat  BY DEF T
  <1>4. \A y \in S : y \in T /\ y <= Max(T)  BY <1>2, <1>3 DEF T
  <1>5. S = {} => Max(T) = 0  BY <1>2 DEF T
  <1> QED  BY <1>2, <1>4, <1>5 DEF T

\* What a start knows of a ticker: a minute in the stream, the last one of those scanned.
LEMMA KnownOf ==
    ASSUME FeedTypeOK, NEW scanned \in SUBSET {candles[i] : i \in DOMAIN candles}, NEW t \in Tickers
    PROVE  /\ Known(scanned, t) \in 0 .. now
           /\ Known(scanned, t) > 0 => Published(t, Known(scanned, t))
           /\ t \in Legacy => Known(scanned, t) = 0
           /\ \A c \in scanned : c.t = t /\ t \notin Legacy => c.m <= Known(scanned, t)
  <1> DEFINE B == {b \in scanned : b.t = t /\ t \notin Legacy}
             S == {b.m : b \in B}
             x == Max({0} \cup S)
  <1>1. /\ now \in Nat /\ DOMAIN candles = 1 .. Len(candles) /\ Len(candles) \in Nat
        /\ \A i \in DOMAIN candles : candles[i].t \in Tickers /\ candles[i].m \in 1 .. now
    BY RowTypes
  <1>2. S \in SUBSET (1 .. now)  BY <1>1
  <1>3. Known(scanned, t) = x  BY DEF Known
  <1>4. \A c \in S : \E i \in DOMAIN candles : candles[i].t = t /\ candles[i].m = c  OBVIOUS
  <1>5. t \in Legacy => S = {}  OBVIOUS
  <1>6. \A c \in scanned : c.t = t /\ t \notin Legacy => c.m \in S  OBVIOUS
  <1> HIDE DEF S
  <1>7. x \in {0} \cup S /\ (\A y \in S : y <= x) /\ (S = {} => x = 0)  BY <1>1, <1>2, GreatestOrNone
  <1> HIDE DEF x
  <1>8. x \in 0 .. now /\ (x > 0 => x \in S)  BY <1>1, <1>2, <1>7
  <1>9. x > 0 => Published(t, x)  BY <1>1, <1>4, <1>8 DEF Published
  <1> QED  BY <1>3, <1>5, <1>6, <1>7, <1>8, <1>9

\* A new process of the feeder.
LEMMA FeederRestarted == FeedInv /\ FeederRestarts => FeedInv'
  <1> SUFFICES ASSUME FeedInv, FeederRestarts PROVE FeedInv'  OBVIOUS
  <1>1. FeedTypeOK  BY DEF FeedInv
  <1> DEFINE scanned == {candles[i] : i \in {i \in DOMAIN candles : i > Len(candles) - ScanMax}}
             looked == /\ lastTs' = [t \in Tickers |-> Known(scanned, t)]
                       /\ seen' = {KeyOf(b) : b \in {b \in scanned : b.m >= floor'}}
                       /\ blind' = IF Len(candles) > ScanMax THEN blind + 1 ELSE blind
                       /\ faults' = faults
             failed == /\ starts + restarts + faults + 1 < MaxTrouble /\ faults' = faults + 1
                       /\ lastTs' = [t \in Tickers |-> 0] /\ seen' = {}
                       /\ blind' = blind + 1
  <1>2. /\ Trouble /\ restarts' = restarts + 1
        /\ offset' = 0 /\ polling' = FALSE /\ todo' = <<>> /\ upTo' = 0 /\ floor' = Max({1, now - Window})
        /\ looked \/ failed
        /\ passed' = {} /\ mode' = mode /\ listed' = listed /\ rewritten' = rewritten
        /\ candles' = candles /\ lost' = lost
    BY DEF FeederRestarts
  <1>3. /\ now' = now /\ script' = script /\ lastDump' = lastDump /\ starts' = starts
        /\ rows' = rows /\ shown' = shown
    BY DEF FeederRestarts, scriptVars
  <1>4. \A t, m : Published(t, m)' = Published(t, m) /\ Superseded(t, m)' = Superseded(t, m)
    BY <1>2, StreamKept
  <1>5. /\ now \in Nat /\ DOMAIN rows = 1 .. Len(rows) /\ Len(rows) \in Nat
        /\ \A k \in DOMAIN rows : rows[k].t \in Tickers /\ rows[k].m \in 1 .. now
        /\ DOMAIN candles = 1 .. Len(candles) /\ Len(candles) \in Nat
        /\ \A i \in DOMAIN candles : candles[i].t \in Tickers /\ candles[i].m \in 1 .. now
    BY <1>1, RowTypes
  <1>6. /\ starts \in Nat /\ restarts \in Nat /\ faults \in Nat /\ blind \in Nat
        /\ faults' \in Nat /\ blind' \in Nat
        /\ blind' = 0 => blind = 0 /\ looked /\ Len(candles) <= ScanMax
        /\ faults' = 0 => faults = 0 /\ looked
    <2>1. starts \in Nat /\ restarts \in Nat /\ faults \in Nat /\ blind \in Nat /\ ScanMax \in Nat
      BY <1>1, FeedBounds DEF FeedTypeOK
    <2>2. CASE looked
      <3>1. faults' = faults /\ (blind' = blind + 1 \/ (blind' = blind /\ ~(Len(candles) > ScanMax)))  BY <2>2
      <3>2. blind' \in Nat /\ (blind' = 0 => blind = 0 /\ Len(candles) <= ScanMax)  BY <1>5, <2>1, <3>1
      <3> QED  BY <2>1, <2>2, <3>1, <3>2
    <2>3. CASE failed
      <3>1. faults' = faults + 1 /\ blind' = blind + 1  BY <2>3
      <3>2. faults' \in Nat /\ faults' # 0 /\ blind' \in Nat /\ blind' # 0  BY <2>1, <3>1
      <3> QED  BY <2>1, <3>2
    <2> QED  BY <1>2, <2>2, <2>3
  <1>7. floor' \in Nat \ {0}
    <2>1. now - Window \in Int  BY <1>5, FeedBounds
    <2> DEFINE x == now - Window
               y == IF x > 1 THEN x ELSE 1
    <2> HIDE DEF x
    <2>2. x \in Int  BY <2>1 DEF x
    <2>3. y \in {1, x} /\ \A z \in {1, x} : y >= z  BY <2>2
    <2>4. \A z \in {1, x} : (\A u \in {1, x} : z >= u) => z = y  BY <2>2
    <2>5. Max({1, x}) = y  BY <2>3, <2>4 DEF Max
    <2>6. y \in Nat \ {0}  BY <2>2
    <2> QED  BY <1>2, <2>5, <2>6 DEF x
  <1>8. scanned \in SUBSET {candles[i] : i \in DOMAIN candles}  OBVIOUS
  <1>9. Len(candles) <= ScanMax => \A i \in DOMAIN candles : candles[i] \in scanned
    <2>1. Len(candles) <= ScanMax => \A i \in DOMAIN candles : i > Len(candles) - ScanMax
      BY <1>5, FeedBounds
    <2> QED  BY <2>1
  <1>10. \A c \in scanned : c.t \in Tickers /\ c.m \in 1 .. now /\ Published(c.t, c.m)
    BY <1>5, <1>8 DEF Published
  <1> HIDE DEF scanned
  <1>11. \A t \in Tickers :
           /\ Known(scanned, t) \in 0 .. now
           /\ Known(scanned, t) > 0 => Published(t, Known(scanned, t))
           /\ t \in Legacy => Known(scanned, t) = 0
           /\ \A c \in scanned : c.t = t /\ t \notin Legacy => c.m <= Known(scanned, t)
    BY <1>1, <1>8, KnownOf
  <1>12. /\ lastTs' \in [Tickers -> 0 .. now]
         /\ \A t \in Tickers : /\ lastTs'[t] > 0 => Published(t, lastTs'[t])
                               /\ t \in Legacy => lastTs'[t] = 0
    <2>1. CASE looked
      <3>1. lastTs' = [t \in Tickers |-> Known(scanned, t)]  BY <2>1
      <3> QED  BY <1>11, <3>1
    <2>2. CASE failed
      <3>1. lastTs' = [t \in Tickers |-> 0] /\ 0 \in 0 .. now  BY <1>5, <2>2
      <3> QED  BY <3>1
    <2> QED  BY <1>2, <2>1, <2>2
  <1>13. /\ seen' \subseteq Tickers \X (1 .. now)
         /\ \A x \in seen' : Published(x[1], x[2])
    <2>1. \A c \in scanned : KeyOf(c) \in Tickers \X (1 .. now) /\ Published(KeyOf(c)[1], KeyOf(c)[2])
      BY <1>10 DEF KeyOf
    <2>2. CASE looked
      <3>1. \A x \in seen' : \E c \in scanned : x = KeyOf(c)  BY <2>2
      <3> QED  BY <2>1, <3>1
    <2>3. CASE failed  BY <2>3
    <2> QED  BY <1>2, <2>2, <2>3
  <1>14. FeedTypeOK'
    <2>1. Completed' = Completed  BY <1>3 DEF Completed
    <2>2. starts' + restarts' + faults' <= IF starts' = 0 THEN MaxTrouble ELSE MaxTrouble + 1
      <3>1. starts + restarts + faults < MaxTrouble  BY <1>2 DEF Trouble
      <3>2. faults' = faults \/ (faults' = faults + 1 /\ starts + restarts + faults + 1 < MaxTrouble)
        BY <1>2
      <3>3. restarts' = restarts + 1 /\ starts' = starts  BY <1>2, <1>3
      <3> HIDE DEF looked, failed
      <3>4. starts + (restarts + 1) + faults' <= MaxTrouble
        <4>1. CASE faults' = faults  BY <1>6, <3>1, <4>1, FeedBounds
        <4>2. CASE faults' = faults + 1 /\ starts + restarts + faults + 1 < MaxTrouble
          BY <1>6, <4>2, FeedBounds
        <4> QED  BY <3>2, <4>1, <4>2
      <3>5. restarts + 1 \in Nat  BY <1>6
      <3> QED  BY <1>6, <3>3, <3>4, <3>5, TroubleBounded
    <2>3. {starts', restarts', faults', lost', blind'} \subseteq Nat
      <3>1. restarts' \in Nat  BY <1>2, <1>6
      <3>2. lost' \in Nat  BY <1>1, <1>2 DEF FeedTypeOK
      <3> QED  BY <1>3, <1>6, <3>1, <3>2
    <2>4. todo' \in Seq(Completed')
      <3>1. \A S : <<>> \in Seq(S)  OBVIOUS
      <3> QED  BY <1>2, <3>1
    <2>5. polling' \in BOOLEAN  BY <1>2
    <2>6. passed' \subseteq Tickers \X (1 .. now')  BY <1>2
    <2> HIDE DEF looked, failed
    <2> QED  BY <1>1, <1>2, <1>3, <1>7, <1>12, <1>13, <2>1, <2>2, <2>3, <2>4, <2>5, <2>6 DEF FeedTypeOK, SizeOf
  <1>15. \A k \in DOMAIN rows : ~(2 * k + 2 <= 0) /\ 2 * k + 1 # 0  BY <1>5
  <1>16. PassedIsPublished'  BY <1>2, <1>3, <1>15 DEF PassedIsPublished
  <1>17. PublishedOnce' /\ InOrder'  BY <1>2, <1>6 DEF FeedInv, PublishedOnce, InOrder, KeyOf
  <1> HIDE DEF looked, failed
  <1>18. OneScript'  BY <1>2, <1>3 DEF FeedInv, OneScript
  <1>19. LegacyFollows'
    <2>1. \A k \in DOMAIN rows : IsAhead(k)'
      <3> SUFFICES ASSUME NEW k \in DOMAIN rows, rows[k].t \in Legacy
                   PROVE  lastTs'[rows[k].t] < rows[k].m
        BY <1>3 DEF IsAhead
      <3>1. lastTs'[rows[k].t] = 0  BY <1>5, <1>12
      <3>2. rows[k].m \in 1 .. now  BY <1>5
      <3> QED  BY <1>5, <3>1, <3>2
    <2>2. \A t \in Legacy : ~(lastTs'[t] > 0)  BY <1>12, FeedBounds
    <2> QED  BY <1>2, <1>3, <1>15, <2>1, <2>2 DEF LegacyFollows
  <1>20. ReaderFollows'
    <2>1. 0 <= shown
      <3>1. SizeOf(rows) \in Nat  BY <1>5 DEF SizeOf
      <3> QED  BY <1>1, <3>1 DEF FeedTypeOK
    <2> QED  BY <1>2, <1>3, <1>15, <2>1 DEF FeedInv, ReaderFollows, KeyOf
  <1>21. FeederRemembers'
    <2>1. \A t \in Tickers : lastTs'[t] > 0 => Published(t, lastTs[t])'
      BY <1>2, <1>12 DEF Published
    <2>2. \A x \in seen' : Published(x[1], x[2])'  BY <1>4, <1>13
    <2>3. ASSUME blind' = 0, NEW i \in DOMAIN candles
          PROVE  /\ candles[i].t \notin Legacy => candles[i].m <= lastTs'[candles[i].t]
                 /\ \/ candles[i].m <= lastTs'[candles[i].t] \/ candles[i].m < floor'
                    \/ KeyOf(candles[i]) \in seen'
      <3> PICK c : c = candles[i]  OBVIOUS
      <3>1. looked /\ c \in scanned  BY <1>6, <1>9, <2>3
      <3>2. /\ lastTs' = [t \in Tickers |-> Known(scanned, t)]
            /\ seen' = {KeyOf(b) : b \in {b \in scanned : b.m >= floor'}}
        BY <3>1 DEF looked
      <3>3. c.t \in Tickers /\ c.m \in Nat /\ floor' \in Nat
        <4>1. c.t \in Tickers /\ c.m \in 1 .. now  BY <1>10, <3>1
        <4> QED  BY <1>5, <1>7, <4>1
      <3>4. c.t \notin Legacy => c.m <= lastTs'[c.t]  BY <1>11, <3>1, <3>2, <3>3
      <3>5. c.m < floor' \/ KeyOf(c) \in seen'
        <4>1. c.m < floor' \/ c.m >= floor'  BY <3>3
        <4> QED  BY <3>1, <3>2, <4>1
      <3> QED  BY <3>4, <3>5
    <2>4. \A i \in DOMAIN candles : KeyOf(candles[i])' = KeyOf(candles[i])  BY <1>2 DEF KeyOf
    <2> QED  BY <1>2, <2>1, <2>2, <2>3, <2>4 DEF FeederRemembers
  <1> QED  BY <1>14, <1>16, <1>17, <1>18, <1>19, <1>20, <1>21 DEF FeedInv

-------------------------------------------------------------------------------

\* The position of the reader, what a poll has still to do, and what the feeder
\* remembers fit the file and the stream, whatever is restarted when.
THEOREM FeedInvariant == FeedSpec => []FeedInv
  <1>1. FeedInv /\ [FeedNext]_feedVars => FeedInv'
    <2> SUFFICES ASSUME FeedInv, [FeedNext]_feedVars PROVE FeedInv'  OBVIOUS
    <2>1. CASE MinutePasses  BY <2>1, MinutePassed
    <2>2. CASE ScriptStarts  BY <2>2, ScriptStarted
    <2>3. CASE ScriptStops  BY <2>3, ScriptStopped
    <2>4. CASE Dump  BY <2>4, RowsDumped
    <2>5. CASE Flush  BY <2>5, FileFlushed
    <2>6. CASE PollStart  BY <2>6, PollStarted
    <2>7. CASE PublishRow  BY <2>7, RowPublished
    <2>8. CASE XaddFails  BY <2>8, XaddFailed
    <2>9. CASE PollEnds  BY <2>9, PollEnded
    <2>10. CASE FeederRestarts  BY <2>10, FeederRestarted
    <2>11. CASE UNCHANGED feedVars
      <3>1. /\ UNCHANGED <<now, script, lastDump, starts, rows, shown>>
            /\ UNCHANGED <<offset, polling, todo, upTo, lastTs, seen, floor, candles, passed, lost>>
            /\ UNCHANGED <<mode, listed, restarts, faults, blind, rewritten>>
            /\ UNCHANGED <<feederVars, runVars>>
        BY <2>11 DEF feedVars, scriptVars, feederVars, runVars
      <3>2. FeedTypeOK'  BY <3>1 DEF FeedInv, FeedTypeOK, Completed, SizeOf
      <3>3. PassedIsPublished'
        BY <3>1 DEF FeedInv, PassedIsPublished, KeyOf, Superseded, Published
      <3>4. PublishedOnce' /\ InOrder' /\ FeederRemembers'  BY <3>1, FeederUntouched
      <3>5. OneScript'  BY <3>1 DEF FeedInv, OneScript
      <3>6. LegacyFollows'
        BY <3>1 DEF FeedInv, LegacyFollows, Refilling, DueRow, KeyOf, IsAhead, Published
      <3>7. ReaderFollows'
        <4>1. FeedTypeOK /\ ReaderFollows  BY DEF FeedInv
        <4>2. DOMAIN rows \subseteq DOMAIN rows' /\ DOMAIN rows' \ DOMAIN rows = {}
              /\ \A k \in DOMAIN rows : rows'[k] = rows[k]
          BY <3>1
        <4>3. \A b \in 0 .. Len(rows) : PollAt(b) => PollAt(b)'  BY <3>1, <4>1, <4>2, PollKept
        <4> QED  BY <3>1, <4>1, <4>3 DEF ReaderFollows, KeyOf
      <3> QED  BY <3>2, <3>3, <3>4, <3>5, <3>6, <3>7 DEF FeedInv
    <2> QED  BY <2>1, <2>2, <2>3, <2>4, <2>5, <2>6, <2>7, <2>8, <2>9, <2>10, <2>11
             DEF FeedNext, Script, Feeder
  <1> QED  BY <1>1, FeedStarts, PTL DEF FeedSpec

\* No bar is lost that no newer one replaced, none comes twice or out of order while
\* every answer arrived and every start saw the stream, and a restart fills the holes
\* of a legacy name.
THEOREM FeedIsFaithfulHolds == FeedSpec => []FeedIsFaithful
  <1>1. FeedInv => FeedIsFaithful
    <2> SUFFICES ASSUME FeedInv PROVE LegacyHolesFilled  BY DEF FeedInv, FeedIsFaithful
    <2>1. starts = 1 => starts <= 1  OBVIOUS
    <2> QED  BY <2>1 DEF FeedInv, LegacyHolesFilled, LegacyFollows, Refilling, DueRow
  <1> QED  BY <1>1, FeedInvariant, PTL

-------------------------------------------------------------------------------
(* Walk-forward tests. *)

LEMMA WalkNumbers ==
    /\ TestFrom \in Nat /\ PurgeSpan \in Nat /\ MinTrain \in Nat /\ MinClean \in Nat /\ MaxRuns \in Nat
    /\ TestDays \in Nat /\ TestDays > 0 /\ TrainSpan \in Nat /\ MinTest \in Nat /\ MinTest > 0
    /\ StepDays \in Nat /\ StepDays >= TestDays /\ StepDays > 0
    /\ Len(Corpora) \in Nat /\ DOMAIN Corpora = 1 .. Len(Corpora)
  BY WalkForwardAssumption

CorpusFeature == [id: Nat, at: Nat, name: DOMAIN Canonical]
CorpusTarget  == [id: Nat, name: DOMAIN Canonical, known: BOOLEAN]

LEMMA CorpusOf ==
    ASSUME NEW v \in DOMAIN Corpora
    PROVE  /\ Features(v) \in SUBSET CorpusFeature /\ IsFiniteSet(Features(v))
           /\ Targets(v) \in SUBSET CorpusTarget /\ IsFiniteSet(Targets(v))
  <1>1. \A p \in {"phase2", "y6"} :
           /\ Corpora[v][p].features \subseteq CorpusFeature /\ IsFiniteSet(Corpora[v][p].features)
           /\ Corpora[v][p].targets \subseteq CorpusTarget /\ IsFiniteSet(Corpora[v][p].targets)
    BY WalkForwardAssumption DEF CorpusFeature, CorpusTarget
  <1>2. Corpora[v].phase2 = Corpora[v]["phase2"] /\ Corpora[v].y6 = Corpora[v]["y6"]
    OBVIOUS
  <1>3. ASSUME NEW S, NEW T, IsFiniteSet(S), IsFiniteSet(T) PROVE IsFiniteSet(Combine(S, T)) /\ Combine(S, T) \subseteq S \cup T
    <2>1. Combine(S, T) \subseteq S \cup T
      BY DEF Combine
    <2>2. IsFiniteSet(S \cup T)
      BY <1>3, FS_Union
    <2>3. QED
      BY <2>1, <2>2, FS_Subset
  <1>4. QED
    BY <1>1, <1>2, <1>3 DEF Features, Targets

\* A news has one time, whenever the corpus is read.
LEMMA OneTime ==
    ASSUME NEW v \in DOMAIN Corpora, NEW w \in DOMAIN Corpora, NEW f \in Features(v), NEW g \in Features(w), f.id = g.id
    PROVE  f.at = g.at
  <1>1. \E p \in {"phase2", "y6"} : f \in Corpora[v][p].features
    BY DEF Features, Combine
  <1>2. \E q \in {"phase2", "y6"} : g \in Corpora[w][q].features
    BY DEF Features, Combine
  <1>3. \A a, b \in DOMAIN Corpora : \A p, q \in {"phase2", "y6"} :
           \A x \in Corpora[a][p].features, y \in Corpora[b][q].features : x.id = y.id => x.at = y.at
    BY ONLY WalkForwardAssumption, SMTT(30)
  <1>4. \A p, q \in {"phase2", "y6"} : \A x \in Corpora[v][p].features, y \in Corpora[w][q].features : x.id = y.id => x.at = y.at
    BY <1>3, ZenonT(30)
  <1>5. QED
    BY <1>1, <1>2, <1>4

LEMMA CleanPair ==
    ASSUME NEW v \in DOMAIN Corpora, NEW r \in CleanPairs(v)
    PROVE  r.label = r.name /\ \E f \in Features(v) : r.id = f.id /\ r.at = f.at
  <1>1. PICK f \in Canonised(Features(v)), u \in Canonised(Targets(v)) : u.name = f.name /\ r = Merged(f, u)
    BY DEF CleanPairs
  <1>2. PICK g \in Features(v) : f = [g EXCEPT !.name = Canonical[@]]
    BY <1>1 DEF Canonised
  <1>3. f.id = g.id /\ f.at = g.at
    BY <1>2, CorpusOf DEF CorpusFeature
  <1>4. r.id = f.id /\ r.at = f.at /\ r.name = f.name /\ r.label = u.name
    BY <1>1 DEF Merged
  <1>5. QED
    BY <1>1, <1>3, <1>4

CleanRow(v, id, name) == CHOOSE r \in CleanPairs(v) : r.id = id /\ r.name = name

\* One row is kept for a news and a name.
LEMMA CleanRows ==
    ASSUME NEW v \in DOMAIN Corpora
    PROVE  /\ MergedClean(v) \subseteq CleanPairs(v)
           /\ \A r, s \in MergedClean(v) : r.id = s.id /\ r.name = s.name => r = s
  <1>1. MergedClean(v) = {CleanRow(v, s.id, s.name) : s \in CleanPairs(v)}
    BY DEF MergedClean, CleanRow
  <1>2. \A s \in CleanPairs(v) : /\ CleanRow(v, s.id, s.name) \in CleanPairs(v)
                                /\ CleanRow(v, s.id, s.name).id = s.id /\ CleanRow(v, s.id, s.name).name = s.name
    BY DEF CleanRow
  <1>3. ASSUME NEW r \in MergedClean(v) PROVE r \in CleanPairs(v) /\ r = CleanRow(v, r.id, r.name)
    <2>1. PICK s \in CleanPairs(v) : r = CleanRow(v, s.id, s.name)
      BY <1>1
    <2>2. r \in CleanPairs(v) /\ r.id = s.id /\ r.name = s.name
      BY <1>2, <2>1
    <2>3. QED
      BY <2>1, <2>2
  <1>4. ASSUME NEW r \in MergedClean(v), NEW s \in MergedClean(v), r.id = s.id, r.name = s.name PROVE r = s
    <2>1. r = CleanRow(v, r.id, r.name) /\ s = CleanRow(v, s.id, s.name)
      BY <1>3
    <2>2. QED
      BY <1>4, <2>1
  <1>5. QED
    BY <1>3, <1>4

LEMMA IdPair ==
    ASSUME NEW v \in DOMAIN Corpora, NEW r \in MergedOnId(v)
    PROVE  \E f \in Features(v), u \in Targets(v) :
               /\ u.id = f.id /\ r.id = f.id /\ r.at = f.at /\ r.name = f.name /\ r.label = u.name
  <1>1. PICK f \in Features(v), u \in Targets(v) : u.id = f.id /\ r = Merged(f, u)
    BY DEF MergedOnId
  <1>2. QED
    BY <1>1 DEF Merged

\* A row is one of a news of the corpus.
LEMMA RowFrom ==
    ASSUME NEW v \in DOMAIN Corpora, NEW r \in HarnessRows(v)
    PROVE  r.id \in Nat /\ r.at \in Nat /\ \E f \in Features(v) : r.id = f.id /\ r.at = f.at
  <1>1. \E f \in Features(v) : r.id = f.id /\ r.at = f.at
    <2>1. CASE harness = "y6"
      BY <2>1, CleanRows, CleanPair DEF HarnessRows
    <2>2. CASE harness # "y6"
      BY <2>2, IdPair DEF HarnessRows
    <2>3. QED
      BY <2>1, <2>2
  <1>2. \A f \in Features(v) : f.id \in Nat /\ f.at \in Nat
    BY CorpusOf DEF CorpusFeature
  <1>3. QED
    BY <1>1, <1>2

LEMMA RowTimes ==
    ASSUME NEW v \in DOMAIN Corpora, NEW w \in DOMAIN Corpora, NEW r \in HarnessRows(v), NEW s \in HarnessRows(w), r.id = s.id
    PROVE  r.at = s.at
  <1>1. PICK f \in Features(v) : r.id = f.id /\ r.at = f.at
    BY RowFrom
  <1>2. PICK g \in Features(w) : s.id = g.id /\ s.at = g.at
    BY RowFrom
  <1>3. f.id = g.id
    BY <1>1, <1>2
  <1>4. f.at = g.at
    BY <1>3, OneTime
  <1>5. QED
    BY <1>1, <1>2, <1>4

\* The times of the rows are finitely many.
LEMMA FiniteTimes ==
    ASSUME NEW v \in DOMAIN Corpora, NEW ats, ats = {r.at : r \in HarnessRows(v)} PROVE ats \in SUBSET Nat /\ IsFiniteSet(ats)
  <1>1. PICK S \in SUBSET CorpusFeature : S = Features(v) /\ IsFiniteSet(S)
    BY CorpusOf
  <1>2. PICK T : T = {f.at : f \in S}
    OBVIOUS
  <1>3. PICK h : h = [f \in S |-> f.at]
    OBVIOUS
  <1>4. h \in Surjection(S, T)
    BY <1>2, <1>3 DEF Surjection
  <1>5. IsFiniteSet(T)
    BY <1>1, <1>4, FS_Surjection
  <1>6. ats \subseteq T
    BY <1>1, <1>2, RowFrom
  <1>7. ats \subseteq Nat
    BY RowFrom
  <1>8. QED
    BY <1>5, <1>6, <1>7, FS_Subset

\* A sequence of no folds is empty.
LEMMA NoFolds == \A f \in [1 .. 0 -> {}] : f = <<>>
  <1> TAKE f \in [1 .. 0 -> {}]
  <1>1. f \in Seq({}) /\ Len(f) = 0
    OBVIOUS
  <1>2. QED
    BY <1>1, EmptySeq

\* A finite set of folds that start at different times has an order.
LEMMA FoldsInOrder ==
    ASSUME NEW F, IsFiniteSet(F), \A f \in F : f.from \in Nat, \A f, g \in F : f.from = g.from => f = g,
           NEW s, s = OneByOne(F)
    PROVE  /\ Len(s) \in Nat /\ DOMAIN s = 1 .. Len(s) /\ (F = {} => s = <<>>) /\ (Len(s) = 0 => s = <<>>)
           /\ \A i \in 1 .. Len(s) : s[i] \in F
           /\ \A i, j \in 1 .. Len(s) : i < j => s[i].from < s[j].from
  <1>1. PICK whenOf \in [F -> Nat] : \A f \in F : whenOf[f] = f.from
    <2>1. [f \in F |-> f.from] \in [F -> Nat]
      OBVIOUS
    <2>2. QED
      BY <2>1
  <1>2. \A f, g \in F : whenOf[f] = whenOf[g] => f = g
    BY <1>1
  <1>3. PICK n \in Nat : n = Cardinality(F)
    BY FS_CardinalityType
  <1>4. PICK r \in Bijection(1 .. n, F) : \A i, j \in 1 .. n : i < j => whenOf[r[i]] < whenOf[r[j]]
    <2>1. Rising(F, whenOf) # {}
      BY <1>2, RisingExists
    <2>2. QED
      BY <1>3, <2>1 DEF Rising
  <1>5. r \in [1 .. n -> F] /\ DOMAIN r = 1 .. n
    BY <1>4 DEF Bijection, Injection
  <1>6. \A i, j \in DOMAIN r : i < j => r[i].from < r[j].from
    BY <1>1, <1>4, <1>5
  <1>7. s \in [1 .. n -> F] /\ \A i, j \in DOMAIN s : i < j => s[i].from < s[j].from
    BY <1>3, <1>5, <1>6 DEF OneByOne
  <1>8. s \in Seq(F) /\ Len(s) = n /\ DOMAIN s = 1 .. n
    BY <1>7
  <1>9. F = {} => s = <<>>
    <2>1. SUFFICES ASSUME F = {} PROVE s = <<>>
      OBVIOUS
    <2>2. n = 0
      BY <1>3, <2>1, FS_EmptySet
    <2>3. QED
      BY <1>7, <2>1, <2>2, NoFolds
  <1>10. Len(s) = 0 => s = <<>>
    BY <1>8, EmptySeq
  <1>11. QED
    BY <1>7, <1>8, <1>9, <1>10

LesserOf(a, b) == IF a <= b THEN a ELSE b

LEMMA LesserOfTwo == ASSUME NEW a \in Nat, NEW b \in Nat PROVE Min({a, b}) = LesserOf(a, b)
  <1>1. PICK S \in SUBSET Nat : S = {a, b} /\ S # {}
    OBVIOUS
  <1>2. Min(S) \in S /\ \A y \in S : Min(S) <= y
    BY <1>1, MinOf
  <1>3. PICK m \in Nat : m = Min(S)
    BY <1>1, <1>2
  <1>4. m \in {a, b} /\ m <= a /\ m <= b
    BY <1>1, <1>2, <1>3
  <1>5. m = LesserOf(a, b)
    BY <1>4 DEF LesserOf
  <1>6. QED
    BY <1>1, <1>3, <1>5

\* Two times that are whole steps from the same day are a step apart.
LEMMA StepsApart ==
    ASSUME NEW x \in Nat, NEW y \in Nat, NEW d \in Nat \ {0}, x % d = 0, y % d = 0, x < y PROVE x + d <= y
  <1>1. PICK p \in Nat : p = x \div d
    BY QuotientIsLargest
  <1>2. PICK q \in Nat : q = y \div d
    BY QuotientIsLargest
  <1>3. x = p * d
    BY ONLY x \in Nat, d \in Nat \ {0}, x % d = 0, <1>1
  <1>4. x = p * d /\ y = q * d
    <2>1. y = q * d
      BY ONLY y \in Nat, d \in Nat \ {0}, y % d = 0, <1>2
    <2>2. QED
      BY <1>3, <2>1
  <1>5. p < q
    <2>1. SUFFICES ASSUME q <= p PROVE FALSE
      BY <1>1, <1>2
    <2>2. q * d <= p * d
      BY <2>1, ProductsKeepOrder
    <2>3. QED
      BY <1>4, <2>2
  <1>6. (p + 1) * d <= q * d
    <2>1. p + 1 <= q /\ p + 1 \in Nat
      BY <1>5
    <2>2. QED
      BY <2>1, ProductsKeepOrder
  <1>7. (p + 1) * d = p * d + d
    BY ONLY p \in Nat, d \in Nat
  <1>8. QED
    BY <1>4, <1>6, <1>7

\* What a fold is made of.
FoldAt(examples, s, end) == [from |-> s, training |-> Training(examples, s), testing |-> Testing(examples, s, end)]

LEMMA StartsOf ==
    ASSUME NEW first \in Nat, NEW last \in Nat, NEW S, S = TestStarts(first, last)
    PROVE  /\ S \in SUBSET Nat /\ IsFiniteSet(S)
           /\ \A s, t \in S : s < t => s + TestDays <= t
  <1>1. PICK base \in Nat : base = IF harness = "y6" THEN TestFrom ELSE first + TrainSpan
    BY WalkNumbers
  <1>2. PICK top \in Int : top = IF harness = "y6" THEN last - 1 ELSE last - TestDays
    <2>1. last - 1 \in Int /\ last - TestDays \in Int
      BY WalkNumbers
    <2>2. QED
      BY <2>1
  <1>3. \A s \in S : s \in base .. top /\ (s - base) % StepDays = 0
    <2>1. CASE harness = "y6"
      BY <1>1, <1>2, <2>1, WalkNumbers DEF TestStarts
    <2>2. CASE harness # "y6"
      <3>1. S = {s \in first + TrainSpan .. last - TestDays : (s - first - TrainSpan) % StepDays = 0}
        BY <2>2 DEF TestStarts
      <3>2. base = first + TrainSpan /\ top = last - TestDays
        BY <1>1, <1>2, <2>2
      <3>3. \A s \in Int : s - first - TrainSpan = s - base
        BY <3>2, WalkNumbers
      <3>4. QED
        BY <3>1, <3>2, <3>3
    <2>3. QED
      BY <2>1, <2>2
  <1>4. IsFiniteSet(base .. top) /\ S \in SUBSET (base .. top)
    BY <1>3, FS_Interval
  <1>5. IsFiniteSet(S)
    BY <1>4, FS_Subset
  <1>6. S \in SUBSET Nat
    BY <1>4
  <1>7. ASSUME NEW s \in S, NEW t \in S, s < t PROVE s + TestDays <= t
    <2>1. PICK x \in Nat, y \in Nat : x = s - base /\ y = t - base
      BY <1>4, <1>6
    <2>2. x % StepDays = 0 /\ y % StepDays = 0 /\ x < y
      <3>1. (s - base) % StepDays = 0 /\ (t - base) % StepDays = 0
        BY <1>3
      <3>2. x < y
        BY <1>6, <1>7, <2>1
      <3>3. QED
        BY <2>1, <3>1, <3>2
    <2>3. StepDays \in Nat \ {0}
      BY WalkNumbers
    <2>4. x + StepDays <= y
      BY <2>2, <2>3, StepsApart
    <2>5. s \in Nat /\ t \in Nat
      BY <1>6
    <2>6. QED
      BY <2>1, <2>4, <2>5, WalkNumbers
  <1>8. QED
    BY <1>5, <1>6, <1>7

\* The folds of a corpus: their windows follow each other and do not overlap.
FoldsFit(examples, splits) ==
    /\ Len(splits) \in Nat /\ Len(splits) > 0 /\ DOMAIN splits = 1 .. Len(splits)
    /\ \A n \in 1 .. Len(splits) :
          /\ splits[n].from \in Nat
          /\ splits[n].training \subseteq {r \in examples : r.at < splits[n].from - PurgeSpan}
          /\ splits[n].testing \subseteq {r \in examples : r.at >= splits[n].from /\ r.at < splits[n].from + TestDays}
    /\ \A m, n \in 1 .. Len(splits) : m < n => splits[m].from + TestDays <= splits[n].from

LEMMA FoldsOf ==
    ASSUME NEW v \in DOMAIN Corpora, NEW examples, examples = HarnessRows(v), NEW splits, splits = BuildFolds(examples), splits # <<>>
    PROVE  FoldsFit(examples, splits)
  <1>1. PICK ats : ats = {r.at : r \in examples}
    OBVIOUS
  <1>2. ats \in SUBSET Nat /\ IsFiniteSet(ats)
    BY <1>1, FiniteTimes
  <1>3. PICK first : first = Min(ats)
    OBVIOUS
  <1>4. PICK last : last = Max(ats)
    OBVIOUS
  <1>5. PICK S : S = TestStarts(first, last)
    OBVIOUS
  <1> DEFINE end(s)  == IF harness = "y6" THEN Min({s + TestDays, last}) ELSE s + TestDays
             all     == {FoldAt(examples, s, end(s)) : s \in S}
             F       == {f \in all : Cardinality(f.training) >= MinTrain /\ Cardinality(f.testing) >= MinTest}
  <1>6. splits = OneByOne(F)
    BY <1>1, <1>3, <1>4, <1>5 DEF BuildFolds, FoldAt
  <1>7. examples # {}
    <2>1. SUFFICES ASSUME examples = {} PROVE FALSE
      OBVIOUS
    <2>2. \A f \in all : f.testing = {}
      BY <2>1 DEF FoldAt, Testing
    <2>3. ~(Cardinality({}) >= MinTest)
      BY FS_EmptySet, WalkNumbers
    <2>4. F = {}
      BY <2>2, <2>3
    <2>5. IsFiniteSet({})
      BY FS_EmptySet
    <2>6. splits = OneByOne({})
      BY <1>6, <2>4
    <2>7. splits = <<>>
      BY <2>5, <2>6, FoldsInOrder
    <2>8. QED
      BY <2>7
  <1>8. ats # {}
    BY <1>1, <1>7
  <1>9. first \in Nat /\ last \in Nat
    BY <1>2, <1>3, <1>4, <1>8, MinOf, MaxOfFinite
  <1>10. S \in SUBSET Nat /\ IsFiniteSet(S) /\ \A s, t \in S : s < t => s + TestDays <= t
    BY <1>5, <1>9, StartsOf
  <1>11. \A s \in S : end(s) \in Nat /\ end(s) <= s + TestDays
    <2> SUFFICES ASSUME NEW s \in S PROVE end(s) \in Nat /\ end(s) <= s + TestDays
      OBVIOUS
    <2>1. PICK b \in Nat : b = s + TestDays
      BY <1>10, WalkNumbers
    <2>2. Min({b, last}) \in Nat /\ Min({b, last}) <= b
      BY <1>9, LesserOfTwo DEF LesserOf
    <2>3. QED
      BY <2>1, <2>2
  <1>12. PICK e \in [S -> Nat] : \A s \in S : e[s] = end(s) /\ e[s] <= s + TestDays
    <2>1. [s \in S |-> end(s)] \in [S -> Nat]
      BY <1>11
    <2>2. QED
      BY <1>11, <2>1
  <1>13. all = {FoldAt(examples, s, e[s]) : s \in S}
    BY <1>12
  <1> HIDE DEF all
  <1>14. IsFiniteSet(all)
    <2>1. PICK h : h = [s \in S |-> FoldAt(examples, s, e[s])]
      OBVIOUS
    <2>2. h \in Surjection(S, all)
      BY <1>13, <2>1 DEF Surjection
    <2>3. QED
      BY <1>10, <2>2, FS_Surjection
  <1>15. IsFiniteSet(F) /\ F \subseteq all
    BY <1>14, FS_Subset
  <1> HIDE DEF F
  <1>16. \A f \in F : \E s \in S : f = FoldAt(examples, s, e[s])
    BY <1>13, <1>15
  <1>17. \A f \in F : f.from \in S /\ f = FoldAt(examples, f.from, e[f.from])
    BY <1>16 DEF FoldAt
  <1>18. (\A f \in F : f.from \in Nat) /\ \A f, g \in F : f.from = g.from => f = g
    BY <1>10, <1>17
  <1>19. /\ Len(splits) \in Nat /\ Len(splits) > 0 /\ DOMAIN splits = 1 .. Len(splits)
         /\ \A i \in 1 .. Len(splits) : splits[i] \in F
         /\ \A i, j \in 1 .. Len(splits) : i < j => splits[i].from < splits[j].from
    BY <1>6, <1>15, <1>18, FoldsInOrder
  <1>20. ASSUME NEW n \in 1 .. Len(splits)
         PROVE  /\ splits[n].from \in Nat
                /\ splits[n].training \subseteq {r \in examples : r.at < splits[n].from - PurgeSpan}
                /\ splits[n].testing \subseteq {r \in examples : r.at >= splits[n].from /\ r.at < splits[n].from + TestDays}
    <2>1. PICK f \in F : f = splits[n]
      BY <1>19
    <2>2. PICK s \in S : f = FoldAt(examples, s, e[s])
      BY <1>16
    <2>3. f.from = s /\ f.training = Training(examples, s) /\ f.testing = Testing(examples, s, e[s])
      BY <2>2 DEF FoldAt
    <2>4. s \in Nat /\ e[s] \in Nat /\ e[s] <= s + TestDays
      BY <1>10, <1>12
    <2>5. f.training \subseteq {r \in examples : r.at < s - PurgeSpan}
      BY <2>3 DEF Training
    <2>6. f.testing \subseteq {r \in examples : r.at >= s /\ r.at < s + TestDays}
      <3>1. SUFFICES ASSUME NEW r \in f.testing PROVE r \in examples /\ r.at >= s /\ r.at < s + TestDays
        OBVIOUS
      <3>2. r \in examples /\ r.at >= s /\ r.at < e[s]
        BY <2>3, <3>1 DEF Testing
      <3>3. r.at \in Nat
        BY <3>2, RowFrom
      <3>4. QED
        BY <2>4, <3>2, <3>3, WalkNumbers
    <2>7. QED
      BY <2>1, <2>3, <2>4, <2>5, <2>6
  <1>21. ASSUME NEW m \in 1 .. Len(splits), NEW n \in 1 .. Len(splits), m < n PROVE splits[m].from + TestDays <= splits[n].from
    <2>1. splits[m].from \in S /\ splits[n].from \in S
      BY <1>17, <1>19
    <2>2. splits[m].from < splits[n].from
      BY <1>19, <1>21
    <2>3. QED
      BY <1>10, <2>1, <2>2
  <1>22. QED
    BY <1>19, <1>20, <1>21 DEF FoldsFit

\* What holds in every state: a file holds rows of one reading of the corpus, in the window
\* it was written for; a run of all folds without --resume has written or met each fold so
\* far; what was collected is in order.
WalkRows(h, v) == IF h = "y6" THEN MergedClean(v) ELSE MergedOnId(v)

FileFits(n, e, h) ==
    /\ n \in Nat \ {0} /\ e.is \in {"torn", "rows"} /\ (e.is = "rows") = (e.rows # {})
    /\ e.from \in Nat
    /\ \E v \in DOMAIN Corpora : e.rows \subseteq WalkRows(h, v)
    /\ \A r \in e.rows : r.at >= e.from /\ r.at < e.from + TestDays

FilesFit(fs, h) == \A n \in DOMAIN fs : FileFits(n, fs[n], h)

FoldRows(splits, after) ==
    UNION {{<<m, x>> : x \in FoldOutcomes(splits[m])} : m \in {k \in DOMAIN splits : k < after}}

WalkedSoFar(r, fs) ==
    /\ \A m \in DOMAIN r.folds : m < r.next /\ FoldOutcomes(r.folds[m]) # {} =>
          m \in DOMAIN fs /\ fs[m].is = "rows" /\ fs[m].rows = FoldOutcomes(r.folds[m])
    /\ r.rows = FoldRows(r.folds, r.next)

WalkFits(r, h, v, fs) ==
    /\ r = [is |-> "runs", resume |-> r.resume, corpus |-> r.corpus, folds |-> r.folds,
            chosen |-> r.chosen, next |-> r.next, rows |-> r.rows]
    /\ r.resume \in BOOLEAN
    /\ r.corpus = WalkRows(h, v) /\ FoldsFit(r.corpus, r.folds)
    /\ r.chosen \subseteq DOMAIN r.folds /\ r.next \in 1 .. Len(r.folds) + 1
    /\ ~r.resume /\ r.chosen = DOMAIN r.folds => WalkedSoFar(r, fs)

WalkInv ==
    /\ harness \in {"y6", "v7"} /\ version \in DOMAIN Corpora /\ runs \in 0 .. MaxRuns
    /\ FilesFit(files, harness)
    /\ run = NoRun \/ WalkFits(run, harness, version, files)
    /\ collected.is \in {"none", "done", "failed"}
    /\ CountedOnce /\ RunIsWhole /\ FailureIsExplained

LEMMA HarnessRowsAre == \A v \in DOMAIN Corpora : HarnessRows(v) = WalkRows(harness, v)
  BY DEF HarnessRows, WalkRows

LEMMA IdleIsNoRun == \A h, v, fs : ~WalkFits(NoRun, h, v, fs)
  BY DEF WalkFits, NoRun

\* Rows of one news have one time.
LEMMA TimesOfRows ==
    ASSUME harness \in {"y6", "v7"}, NEW v \in DOMAIN Corpora, NEW w \in DOMAIN Corpora,
           NEW r \in WalkRows(harness, v), NEW s \in WalkRows(harness, w)
    PROVE  r.at \in Nat /\ s.at \in Nat /\ (r.id = s.id => r.at = s.at)
  <1>1. r \in HarnessRows(v) /\ s \in HarnessRows(w)
    BY HarnessRowsAre
  <1>2. r.at \in Nat /\ s.at \in Nat
    BY <1>1, RowFrom
  <1>3. ASSUME r.id = s.id PROVE r.at = s.at
    BY <1>1, <1>3, RowTimes
  <1>4. QED
    BY <1>2, <1>3

LEMMA CollectedStays ==
    ASSUME CountedOnce, RunIsWhole, FailureIsExplained, collected' = collected, harness' = harness
    PROVE  CountedOnce' /\ RunIsWhole' /\ FailureIsExplained'
  <1>1. CountedOnce'
    BY DEF CountedOnce
  <1>2. RunIsWhole'
    BY DEF RunIsWhole, FullRun
  <1>3. FailureIsExplained'
    BY DEF FailureIsExplained, FullRun
  <1>4. QED
    BY <1>1, <1>2, <1>3

LEMMA WalkStart == WalkInit => WalkInv
  <1> SUFFICES ASSUME WalkInit PROVE WalkInv
    OBVIOUS
  <1>1. /\ harness \in {"y6", "v7"} /\ version = 1 /\ files = <<>> /\ runs = 0 /\ run = NoRun
        /\ collected = [is |-> "none", rows |-> {}, folds |-> <<>>, chosen |-> {}, resumed |-> FALSE,
                        torn |-> {}, moved |-> {}]
    BY DEF WalkInit
  <1>2. 1 \in DOMAIN Corpora /\ 0 \in 0 .. MaxRuns
    <2>1. Len(Corpora) >= 1
      BY WalkForwardAssumption
    <2>2. QED
      BY <2>1, WalkNumbers
  <1>3. FilesFit(files, harness)
    BY <1>1 DEF FilesFit
  <1>4. collected.is = "none"
    BY <1>1
  <1>5. CountedOnce /\ RunIsWhole /\ FailureIsExplained
    BY <1>4 DEF CountedOnce, RunIsWhole, FailureIsExplained, FullRun
  <1>6. QED
    BY <1>1, <1>2, <1>3, <1>4, <1>5 DEF WalkInv

LEMMA CorpusGrowsKeeps == WalkInv /\ CorpusGrows => WalkInv'
  <1> SUFFICES ASSUME WalkInv, CorpusGrows PROVE WalkInv'
    OBVIOUS
  <1>1. /\ run = NoRun /\ version < Len(Corpora) /\ version' = version + 1
        /\ harness' = harness /\ files' = files /\ runs' = runs /\ run' = run /\ collected' = collected
    BY DEF CorpusGrows
  <1>2. version' \in DOMAIN Corpora
    BY <1>1, WalkNumbers DEF WalkInv
  <1>3. CountedOnce' /\ RunIsWhole' /\ FailureIsExplained'
    BY <1>1, CollectedStays DEF WalkInv
  <1>4. QED
    BY <1>1, <1>2, <1>3 DEF WalkInv

LEMMA StartKeeps == WalkInv /\ Start => WalkInv'
  <1> SUFFICES ASSUME WalkInv, Start PROVE WalkInv'
    OBVIOUS
  <1>1. /\ run = NoRun /\ runs < MaxRuns /\ runs' = runs + 1
        /\ harness' = harness /\ version' = version /\ files' = files /\ collected' = collected
    BY DEF Start
  <1>2. PICK corpus, splits, resume, chosen :
            /\ resume \in BOOLEAN /\ chosen \in {DOMAIN splits, {1}, DOMAIN splits \ {1}}
            /\ corpus = HarnessRows(version) /\ splits = BuildFolds(corpus) /\ splits # <<>>
            /\ run' = [is |-> "runs", resume |-> resume, corpus |-> corpus, folds |-> splits,
                       chosen |-> chosen, next |-> 1, rows |-> {}]
    BY DEF Start
  <1>3. PICK v \in DOMAIN Corpora : v = version
    BY DEF WalkInv
  <1>4. FoldsFit(corpus, splits)
    BY <1>2, <1>3, FoldsOf
  <1>5. Len(splits) \in Nat /\ Len(splits) > 0 /\ DOMAIN splits = 1 .. Len(splits)
    BY <1>4 DEF FoldsFit
  <1>6. chosen \subseteq DOMAIN splits
    BY <1>2, <1>5
  <1>7. FoldRows(splits, 1) = {}
    <2>1. {k \in DOMAIN splits : k < 1} = {}
      BY <1>5
    <2>2. QED
      BY <2>1 DEF FoldRows
  <1>8. corpus = WalkRows(harness, version)
    BY <1>2, <1>3, HarnessRowsAre
  <1>9. PICK r : r = run'
    OBVIOUS
  <1>10. /\ r.is = "runs" /\ r.resume = resume /\ r.corpus = corpus /\ r.folds = splits /\ r.chosen = chosen
         /\ r.next = 1 /\ r.rows = {}
    BY <1>2, <1>9
  <1>11. WalkedSoFar(r, files)
    BY <1>5, <1>7, <1>10 DEF WalkedSoFar
  <1>12. r = [is |-> "runs", resume |-> r.resume, corpus |-> r.corpus, folds |-> r.folds,
              chosen |-> r.chosen, next |-> r.next, rows |-> r.rows]
    BY <1>2, <1>9, <1>10
  <1>13. 1 \in 1 .. Len(splits) + 1
    BY <1>5
  <1>14. WalkFits(r, harness, version, files)
    BY <1>2, <1>4, <1>6, <1>8, <1>10, <1>11, <1>12, <1>13 DEF WalkFits
  <1>15. CountedOnce' /\ RunIsWhole' /\ FailureIsExplained'
    BY <1>1, CollectedStays DEF WalkInv
  <1>16. runs' \in 0 .. MaxRuns
    BY <1>1, WalkNumbers DEF WalkInv
  <1>17. QED
    BY <1>1, <1>9, <1>14, <1>15, <1>16 DEF WalkInv

LEMMA FoldRowsNext ==
    ASSUME NEW splits, NEW len \in Nat, DOMAIN splits = 1 .. len, NEW n \in 1 .. len
    PROVE  FoldRows(splits, n + 1) = FoldRows(splits, n) \cup {<<n, x>> : x \in FoldOutcomes(splits[n])}
  <1>1. {k \in DOMAIN splits : k < n + 1} = {k \in DOMAIN splits : k < n} \cup {n}
    OBVIOUS
  <1>2. QED
    BY <1>1 DEF FoldRows

LEMMA OutcomesAreTried == \A fold : FoldOutcomes(fold) \subseteq fold.testing
  BY DEF FoldOutcomes

LEMMA FilesStillFit ==
    ASSUME NEW h, FilesFit(files, h), NEW n, NEW e, FileFits(n, e, h) PROVE FilesFit(WithFile(n, e), h)
  <1>1. PICK g : g = WithFile(n, e)
    OBVIOUS
  <1>2. DOMAIN g = DOMAIN files \cup {n} /\ g[n] = e /\ \A m \in DOMAIN files : m # n => g[m] = files[m]
    BY <1>1 DEF WithFile
  <1>3. ASSUME NEW m \in DOMAIN g PROVE FileFits(m, g[m], h)
    <2>1. CASE m = n
      BY <1>2, <2>1
    <2>2. CASE m # n
      BY <1>2, <2>2 DEF FilesFit
    <2>3. QED
      BY <2>1, <2>2
  <1>4. QED
    BY <1>1, <1>3 DEF FilesFit

LEMMA RunOf ==
    ASSUME WalkInv, run # NoRun
    PROVE  /\ WalkFits(run, harness, version, files) /\ FoldsFit(run.corpus, run.folds)
           /\ Len(run.folds) \in Nat /\ Len(run.folds) > 0 /\ DOMAIN run.folds = 1 .. Len(run.folds)
           /\ run.next \in 1 .. Len(run.folds) + 1 /\ run.next \in Nat
           /\ run.resume \in BOOLEAN /\ run.corpus = WalkRows(harness, version) /\ version \in DOMAIN Corpora
           /\ run = [is |-> "runs", resume |-> run.resume, corpus |-> run.corpus, folds |-> run.folds,
                     chosen |-> run.chosen, next |-> run.next, rows |-> run.rows]
           /\ run.chosen \subseteq DOMAIN run.folds
           /\ (~run.resume /\ run.chosen = DOMAIN run.folds => WalkedSoFar(run, files))
  <1>1. WalkFits(run, harness, version, files) /\ version \in DOMAIN Corpora
    BY DEF WalkInv
  <1>2. FoldsFit(run.corpus, run.folds)
    BY <1>1 DEF WalkFits
  <1>3. Len(run.folds) \in Nat /\ Len(run.folds) > 0 /\ DOMAIN run.folds = 1 .. Len(run.folds)
    BY <1>2 DEF FoldsFit
  <1>4. run.next \in 1 .. Len(run.folds) + 1
    BY <1>1 DEF WalkFits
  <1>5. run.next \in Nat
    BY <1>3, <1>4
  <1>6. QED
    BY <1>1, <1>2, <1>3, <1>4, <1>5 DEF WalkFits

\* What a fold writes is of the corpus and of its window.
LEMMA WrittenFits ==
    ASSUME WalkInv, run # NoRun, NEW n, n = run.next, n <= Len(run.folds), NEW examples, examples = FoldOutcomes(run.folds[n]),
           examples # {}, NEW from, from = run.folds[n].from
    PROVE  /\ n \in 1 .. Len(run.folds)
           /\ FileFits(n, [is |-> "rows", rows |-> examples, from |-> from], harness)
           /\ FileFits(n, [is |-> "torn", rows |-> {}, from |-> from], harness)
  <1>1. n \in 1 .. Len(run.folds)
    BY RunOf
  <1>2. examples \subseteq run.folds[n].testing
    BY OutcomesAreTried
  <1>3. /\ from \in Nat
        /\ examples \subseteq {r \in run.corpus : r.at >= from /\ r.at < from + TestDays}
    BY <1>1, <1>2, RunOf DEF FoldsFit
  <1>4. PICK v \in DOMAIN Corpora : v = version
    BY RunOf
  <1>5. examples \subseteq WalkRows(harness, v)
    BY <1>3, <1>4, RunOf
  <1>6. n \in Nat \ {0}
    BY <1>1, RunOf
  <1>7. PICK e : e = [is |-> "rows", rows |-> examples, from |-> from]
    OBVIOUS
  <1>8. e.is = "rows" /\ e.rows = examples /\ e.from = from
    BY <1>7
  <1>9. FileFits(n, e, harness)
    BY <1>3, <1>5, <1>6, <1>8 DEF FileFits
  <1>10. PICK t : t = [is |-> "torn", rows |-> {}, from |-> from]
    OBVIOUS
  <1>11. t.is = "torn" /\ t.rows = {} /\ t.from = from
    BY <1>10
  <1>12. FileFits(n, t, harness)
    BY <1>3, <1>6, <1>11 DEF FileFits
  <1>13. QED
    BY <1>1, <1>7, <1>9, <1>10, <1>12

LEMMA RunFoldKeeps == WalkInv /\ RunFold => WalkInv'
  <1> SUFFICES ASSUME WalkInv, RunFold PROVE WalkInv'
    OBVIOUS
  <1>1. PICK n, examples : n = run.next /\ examples = FoldOutcomes(run.folds[n])
    OBVIOUS
  <1>2. /\ run # NoRun /\ n <= Len(run.folds)
        /\ IF Skipped(n) \/ examples = {} THEN run' = [run EXCEPT !.next = n + 1] /\ UNCHANGED files
           ELSE /\ run' = [run EXCEPT !.next = n + 1, !.rows = @ \cup {<<n, r>> : r \in examples}]
                /\ files' = WithFile(n, [is |-> "rows", rows |-> examples, from |-> run.folds[n].from])
        /\ harness' = harness /\ version' = version /\ runs' = runs /\ collected' = collected
    BY <1>1 DEF RunFold
  <1>3. n \in 1 .. Len(run.folds) /\ n \in Nat /\ n + 1 \in 1 .. Len(run.folds) + 1
    BY <1>1, <1>2, RunOf
  <1>4. FilesFit(files', harness)
    <2>1. CASE Skipped(n) \/ examples = {}
      BY <1>2, <2>1 DEF WalkInv
    <2>2. CASE ~(Skipped(n) \/ examples = {})
      <3>1. FileFits(n, [is |-> "rows", rows |-> examples, from |-> run.folds[n].from], harness)
        BY <1>1, <1>2, <2>2, WrittenFits
      <3>2. QED
        BY <1>2, <2>2, <3>1, FilesStillFit DEF WalkInv
    <2>3. QED
      BY <2>1, <2>2
  <1>5. PICK added : added = IF Skipped(n) \/ examples = {} THEN {} ELSE {<<n, x>> : x \in examples}
    OBVIOUS
  <1>6. PICK r : r = run'
    OBVIOUS
  <1>7. r = [is |-> "runs", resume |-> run.resume, corpus |-> run.corpus, folds |-> run.folds,
             chosen |-> run.chosen, next |-> n + 1, rows |-> run.rows \cup added]
    <2>1. PICK resume, corpus, splits, chosen, after, had :
              run = [is |-> "runs", resume |-> resume, corpus |-> corpus, folds |-> splits,
                     chosen |-> chosen, next |-> after, rows |-> had]
      BY <1>2, RunOf
    <2>2. /\ run.resume = resume /\ run.corpus = corpus /\ run.folds = splits /\ run.chosen = chosen /\ run.rows = had
      BY <2>1
    <2>3. r = [is |-> "runs", resume |-> resume, corpus |-> corpus, folds |-> splits,
               chosen |-> chosen, next |-> n + 1, rows |-> had \cup added]
      <3>1. CASE Skipped(n) \/ examples = {}
        <4>1. had \cup added = had
          BY <1>5, <3>1
        <4>2. run' = [run EXCEPT !.next = n + 1]
          BY <1>2, <3>1
        <4>3. QED
          BY <1>6, <2>1, <4>1, <4>2
      <3>2. CASE ~(Skipped(n) \/ examples = {})
        <4>1. added = {<<n, x>> : x \in examples}
          BY <1>5, <3>2
        <4>2. run' = [run EXCEPT !.next = n + 1, !.rows = @ \cup added]
          BY <1>2, <3>2, <4>1
        <4>3. QED
          BY <1>6, <2>1, <4>2
      <3>3. QED
        BY <3>1, <3>2
    <2>4. QED
      BY <2>2, <2>3
  <1>8. /\ r.is = "runs" /\ r.resume = run.resume /\ r.corpus = run.corpus /\ r.folds = run.folds /\ r.chosen = run.chosen
        /\ r.next = n + 1 /\ r.rows = run.rows \cup added
    BY <1>7
  <1>9. ASSUME ~run.resume, run.chosen = DOMAIN run.folds PROVE WalkedSoFar(r, files')
    <2>1. WalkedSoFar(run, files) /\ DOMAIN run.folds = 1 .. Len(run.folds) /\ Len(run.folds) \in Nat
      BY <1>2, <1>9, RunOf
    <2>2. ~Skipped(n)
      BY <1>3, <1>9, <2>1 DEF Skipped
    <2>3. added = {<<n, x>> : x \in examples}
      BY <1>5, <2>2
    <2>4. r.rows = FoldRows(r.folds, r.next)
      <3>1. FoldRows(run.folds, n + 1) = FoldRows(run.folds, n) \cup {<<n, x>> : x \in FoldOutcomes(run.folds[n])}
        BY <1>3, <2>1, FoldRowsNext
      <3>2. run.rows = FoldRows(run.folds, n)
        BY <1>1, <2>1 DEF WalkedSoFar
      <3>3. QED
        BY <1>1, <1>8, <2>3, <3>1, <3>2
    <2>5. ASSUME NEW m \in DOMAIN r.folds, m < r.next, FoldOutcomes(r.folds[m]) # {}
          PROVE  m \in DOMAIN files' /\ files'[m].is = "rows" /\ files'[m].rows = FoldOutcomes(r.folds[m])
      <3>1. m \in 1 .. Len(run.folds) /\ m < n + 1 /\ r.folds = run.folds
        BY <1>8, <2>1, <2>5
      <3>2. CASE examples = {}
        <4>1. files' = files
          BY <1>2, <3>2
        <4>2. m # n
          BY <1>1, <2>5, <3>1, <3>2
        <4>3. m < n
          BY <1>3, <3>1, <4>2
        <4>4. QED
          BY <1>1, <2>1, <2>5, <3>1, <4>1, <4>3 DEF WalkedSoFar
      <3>3. CASE examples # {}
        <4>1. files' = WithFile(n, [is |-> "rows", rows |-> examples, from |-> run.folds[n].from])
          BY <1>2, <2>2, <3>3
        <4>2. /\ DOMAIN files' = DOMAIN files \cup {n} /\ files'[n] = [is |-> "rows", rows |-> examples, from |-> run.folds[n].from]
              /\ \A k \in DOMAIN files : k # n => files'[k] = files[k]
          BY <4>1 DEF WithFile
        <4>3. CASE m = n
          BY <1>1, <3>1, <4>2, <4>3
        <4>4. CASE m # n
          <5>1. m < n
            BY <1>3, <3>1, <4>4
          <5>2. m \in DOMAIN files /\ files[m].is = "rows" /\ files[m].rows = FoldOutcomes(run.folds[m])
            BY <1>1, <2>1, <2>5, <3>1, <5>1 DEF WalkedSoFar
          <5>3. QED
            BY <3>1, <4>2, <4>4, <5>2
        <4>5. QED
          BY <4>3, <4>4
      <3>4. QED
        BY <3>2, <3>3
    <2>6. QED
      BY <2>4, <2>5 DEF WalkedSoFar
  <1>10. WalkFits(r, harness, version, files')
    <2>1. r = [is |-> "runs", resume |-> r.resume, corpus |-> r.corpus, folds |-> r.folds,
               chosen |-> r.chosen, next |-> r.next, rows |-> r.rows]
      BY <1>7, <1>8
    <2>2. QED
      BY <1>2, <1>3, <1>8, <1>9, <2>1, RunOf DEF WalkFits
  <1>11. CountedOnce' /\ RunIsWhole' /\ FailureIsExplained'
    BY <1>2, CollectedStays DEF WalkInv
  <1>12. QED
    BY <1>2, <1>4, <1>6, <1>10, <1>11 DEF WalkInv

LEMMA DieKeeps == WalkInv /\ Die => WalkInv'
  <1> SUFFICES ASSUME WalkInv, Die PROVE WalkInv'
    OBVIOUS
  <1>1. /\ run # NoRun /\ run' = NoRun /\ harness' = harness /\ version' = version /\ runs' = runs /\ collected' = collected
    BY DEF Die
  <1>2. FilesFit(files', harness)
    <2>1. CASE UNCHANGED files
      BY <2>1 DEF WalkInv
    <2>2. CASE ~UNCHANGED files
      <3>1. PICK n : /\ n = run.next /\ n <= Len(run.folds) /\ FoldOutcomes(run.folds[n]) # {}
                     /\ files' = WithFile(n, [is |-> "torn", rows |-> {}, from |-> run.folds[n].from])
        BY <2>2 DEF Die
      <3>2. FileFits(n, [is |-> "torn", rows |-> {}, from |-> run.folds[n].from], harness)
        BY <1>1, <3>1, WrittenFits
      <3>3. QED
        BY <3>1, <3>2, FilesStillFit DEF WalkInv
    <2>3. QED
      BY <2>1, <2>2
  <1>3. CountedOnce' /\ RunIsWhole' /\ FailureIsExplained'
    BY <1>1, CollectedStays DEF WalkInv
  <1>4. QED
    BY <1>1, <1>2, <1>3 DEF WalkInv

\* At its end a run of all folds without --resume has met each.
LEMMA WalkedAll ==
    ASSUME WalkInv, run # NoRun, run.next > Len(run.folds), ~run.resume, run.chosen = DOMAIN run.folds,
           NEW splits, splits = run.folds
    PROVE  /\ \A m \in DOMAIN splits : FoldOutcomes(splits[m]) # {} =>
                 m \in DOMAIN files /\ files[m].is = "rows" /\ files[m].rows = FoldOutcomes(splits[m])
           /\ run.rows = UNION {{<<m, x>> : x \in FoldOutcomes(splits[m])} : m \in DOMAIN splits}
  <1>1. WalkedSoFar(run, files) /\ DOMAIN splits = 1 .. Len(splits) /\ Len(splits) \in Nat /\ run.next \in Nat
    BY RunOf
  <1>2. {k \in DOMAIN splits : k < run.next} = DOMAIN splits
    BY <1>1
  <1>3. \A m \in DOMAIN splits : m < run.next
    BY <1>1
  <1>4. QED
    BY <1>1, <1>2, <1>3 DEF WalkedSoFar, FoldRows

OutcomeIs(c, is, examples) ==
    /\ c.is = is /\ c.rows = examples /\ c.folds = run.folds /\ c.chosen = run.chosen /\ c.resumed = run.resume
    /\ c.torn = TornFile /\ c.moved = Moved

LEMMA OutcomeFields == \A is, examples : OutcomeIs(Outcome(is, examples), is, examples)
  BY DEF OutcomeIs, Outcome

\* Files that stand for the windows of one run do not overlap.
LEMMA FilesApart ==
    ASSUME WalkInv, run # NoRun, harness = "y6", TornFile = {}, Moved = {},
           NEW n \in DOMAIN files, NEW m \in DOMAIN files, NEW r \in files[n].rows, NEW s \in files[m].rows, r.id = s.id
    PROVE  n = m
  <1>1. FileFits(n, files[n], harness) /\ FileFits(m, files[m], harness)
    BY DEF WalkInv, FilesFit
  <1>2. PICK v \in DOMAIN Corpora, w \in DOMAIN Corpora : r \in WalkRows(harness, v) /\ s \in WalkRows(harness, w)
    BY <1>1 DEF FileFits
  <1>3. PICK at \in Nat : r.at = at /\ s.at = at
    BY <1>2, TimesOfRows DEF WalkInv
  <1>4. files[n].is = "rows" /\ files[m].is = "rows"
    BY <1>1 DEF FileFits
  <1>5. /\ n \in DOMAIN run.folds /\ files[n].from = run.folds[n].from
        /\ m \in DOMAIN run.folds /\ files[m].from = run.folds[m].from
    BY <1>4 DEF Moved
  <1>6. PICK a \in Nat, b \in Nat : /\ a = files[n].from /\ b = files[m].from
                                    /\ at >= a /\ at < a + TestDays /\ at >= b /\ at < b + TestDays
    BY <1>1, <1>3 DEF FileFits
  <1>7. \A i, j \in DOMAIN run.folds : i < j => run.folds[i].from + TestDays <= run.folds[j].from
    BY RunOf DEF FoldsFit
  <1>8. n \in Nat /\ m \in Nat
    BY <1>1 DEF FileFits
  <1>9. ~(n < m)
    <2>1. SUFFICES ASSUME n < m PROVE FALSE
      OBVIOUS
    <2>2. a + TestDays <= b
      BY <1>5, <1>6, <1>7, <2>1
    <2>3. QED
      BY <1>3, <1>6, <2>2, WalkNumbers
  <1>10. ~(m < n)
    <2>1. SUFFICES ASSUME m < n PROVE FALSE
      OBVIOUS
    <2>2. b + TestDays <= a
      BY <1>5, <1>6, <1>7, <2>1
    <2>3. QED
      BY <1>3, <1>6, <2>2, WalkNumbers
  <1>11. QED
    BY <1>8, <1>9, <1>10

LEMMA CollectKeeps == WalkInv /\ Collect => WalkInv'
  <1> SUFFICES ASSUME WalkInv, Collect PROVE WalkInv'
    OBVIOUS
  <1>1. /\ harness = "y6" /\ run # NoRun /\ run.next > Len(run.folds) /\ run' = NoRun
        /\ collected' = (IF TornFile # {} \/ Collected = {} THEN Outcome("failed", collected.rows)
                         ELSE Outcome("done", Collected))
        /\ harness' = harness /\ version' = version /\ files' = files /\ runs' = runs
    BY DEF Collect
  <1>2. PICK c : c = collected'
    OBVIOUS
  <1>3. \/ (TornFile # {} \/ Collected = {}) /\ OutcomeIs(c, "failed", collected.rows)
        \/ TornFile = {} /\ Collected # {} /\ OutcomeIs(c, "done", Collected)
    BY <1>1, <1>2, OutcomeFields
  <1>4. c.is \in {"done", "failed"} /\ c.folds = run.folds /\ c.chosen = run.chosen /\ c.resumed = run.resume
        /\ c.torn = TornFile /\ c.moved = Moved
    BY <1>3 DEF OutcomeIs
  <1>5. CountedOnce'
    <2>1. SUFFICES ASSUME c.is = "done", c.moved = {}, NEW p \in c.rows, NEW q \in c.rows,
                          p[2].id = q[2].id, p[2].name = q[2].name
                   PROVE  p = q
      BY <1>1, <1>2 DEF CountedOnce
    <2>2. TornFile = {} /\ c.rows = Collected /\ Moved = {}
      BY <1>3, <1>4, <2>1 DEF OutcomeIs
    <2>3. PICK n, r : n \in DOMAIN files /\ r \in files[n].rows /\ p = <<n, r>>
      BY <2>1, <2>2 DEF Collected
    <2>4. PICK m, s : m \in DOMAIN files /\ s \in files[m].rows /\ q = <<m, s>>
      BY <2>1, <2>2 DEF Collected
    <2>5. r.id = s.id /\ r.name = s.name
      BY <2>1, <2>3, <2>4
    <2>6. n = m
      BY <1>1, <2>2, <2>3, <2>4, <2>5, FilesApart
    <2>7. PICK v \in DOMAIN Corpora : files[n].rows \subseteq WalkRows(harness, v)
      BY <2>3 DEF WalkInv, FilesFit, FileFits
    <2>8. r \in MergedClean(v) /\ s \in MergedClean(v)
      BY <1>1, <2>3, <2>4, <2>6, <2>7 DEF WalkRows
    <2>9. r = s
      BY <2>5, <2>8, CleanRows
    <2>10. QED
      BY <2>3, <2>4, <2>6, <2>9
  <1>6. RunIsWhole'
    <2>0. SUFFICES ASSUME c.is = "done", ~c.resumed, c.chosen = DOMAIN c.folds
                   PROVE  LET fresh == UNION {{<<n, r>> : r \in FoldOutcomes(c.folds[n])} : n \in DOMAIN c.folds} IN
                          /\ fresh \subseteq c.rows
                          /\ \A p \in c.rows \ fresh : p[1] \in DOMAIN c.folds => FoldOutcomes(c.folds[p[1]]) = {}
      BY <1>2 DEF RunIsWhole, FullRun
    <2>1. SUFFICES ASSUME NEW fresh, fresh = UNION {{<<n, r>> : r \in FoldOutcomes(c.folds[n])} : n \in DOMAIN c.folds}
                   PROVE  /\ fresh \subseteq c.rows
                          /\ \A p \in c.rows \ fresh : p[1] \in DOMAIN c.folds => FoldOutcomes(c.folds[p[1]]) = {}
      OBVIOUS
    <2>2. PICK splits : splits = run.folds /\ splits = c.folds
      BY <1>4
    <2>3. \A m \in DOMAIN splits : FoldOutcomes(splits[m]) # {} =>
             m \in DOMAIN files /\ files[m].is = "rows" /\ files[m].rows = FoldOutcomes(splits[m])
      BY <1>1, <1>4, <2>0, <2>2, WalkedAll
    <2>4. c.rows = UNION {{<<n, r>> : r \in files[n].rows} : n \in DOMAIN files}
      BY <1>3, <2>0 DEF OutcomeIs, Collected
    <2>5. fresh \subseteq c.rows
      <3>1. SUFFICES ASSUME NEW p \in fresh PROVE p \in c.rows
        OBVIOUS
      <3>2. PICK n, r : n \in DOMAIN splits /\ r \in FoldOutcomes(splits[n]) /\ p = <<n, r>>
        BY <2>1, <2>2
      <3>3. n \in DOMAIN files /\ r \in files[n].rows
        BY <2>3, <3>2
      <3>4. QED
        BY <2>4, <3>2, <3>3
    <2>6. ASSUME NEW p \in c.rows \ fresh, p[1] \in DOMAIN c.folds, FoldOutcomes(c.folds[p[1]]) # {} PROVE FALSE
      <3>1. PICK n, r : n \in DOMAIN files /\ r \in files[n].rows /\ p = <<n, r>>
        BY <2>4
      <3>2. n \in DOMAIN splits /\ FoldOutcomes(splits[n]) # {}
        BY <2>2, <2>6, <3>1
      <3>3. r \in FoldOutcomes(splits[n])
        BY <2>3, <3>1, <3>2
      <3>4. p \in fresh
        BY <2>1, <2>2, <3>1, <3>2, <3>3
      <3>5. QED
        BY <2>6, <3>4
    <2>7. QED
      BY <2>5, <2>6
  <1>7. FailureIsExplained'
    <2>1. SUFFICES ASSUME c.is = "failed", ~c.resumed, c.chosen = DOMAIN c.folds,
                          NEW n \in DOMAIN c.folds, FoldOutcomes(c.folds[n]) # {}
                   PROVE  c.torn # {} /\ n \notin c.torn
      BY <1>2 DEF FailureIsExplained, FullRun
    <2>2. n \in DOMAIN files /\ files[n].is = "rows" /\ files[n].rows = FoldOutcomes(run.folds[n])
      BY <1>1, <1>4, <2>1, WalkedAll
    <2>3. Collected # {}
      <3>1. PICK r \in files[n].rows : TRUE
        BY <1>4, <2>1, <2>2
      <3>2. <<n, r>> \in Collected
        BY <2>2, <3>1 DEF Collected
      <3>3. QED
        BY <3>2
    <2>4. TornFile # {}
      BY <1>3, <2>1, <2>3 DEF OutcomeIs
    <2>5. n \notin TornFile
      BY <2>2 DEF TornFile
    <2>6. QED
      BY <1>4, <2>4, <2>5
  <1>8. QED
    BY <1>1, <1>2, <1>4, <1>5, <1>6, <1>7 DEF WalkInv

LEMMA SummariseKeeps == WalkInv /\ Summarise => WalkInv'
  <1> SUFFICES ASSUME WalkInv, Summarise PROVE WalkInv'
    OBVIOUS
  <1>1. /\ harness = "v7" /\ run # NoRun /\ run.next > Len(run.folds) /\ run' = NoRun
        /\ collected' = Outcome("done", IF run.rows = {} THEN collected.rows ELSE run.rows)
        /\ harness' = harness /\ version' = version /\ files' = files /\ runs' = runs
    BY DEF Summarise
  <1>2. PICK c : c = collected'
    OBVIOUS
  <1>3. OutcomeIs(c, "done", IF run.rows = {} THEN collected.rows ELSE run.rows)
    BY <1>1, <1>2, OutcomeFields
  <1>4. c.is = "done" /\ c.folds = run.folds /\ c.chosen = run.chosen /\ c.resumed = run.resume
    BY <1>3 DEF OutcomeIs
  <1>5. CountedOnce'
    BY <1>1 DEF CountedOnce
  <1>6. RunIsWhole'
    <2>0. SUFFICES ASSUME ~c.resumed, c.chosen = DOMAIN c.folds
                   PROVE  LET fresh == UNION {{<<n, r>> : r \in FoldOutcomes(c.folds[n])} : n \in DOMAIN c.folds} IN
                          /\ fresh \subseteq c.rows
                          /\ \A p \in c.rows \ fresh : p[1] \in DOMAIN c.folds => FoldOutcomes(c.folds[p[1]]) = {}
      BY <1>2 DEF RunIsWhole, FullRun
    <2>1. SUFFICES ASSUME NEW fresh, fresh = UNION {{<<n, r>> : r \in FoldOutcomes(c.folds[n])} : n \in DOMAIN c.folds}
                   PROVE  /\ fresh \subseteq c.rows
                          /\ \A p \in c.rows \ fresh : p[1] \in DOMAIN c.folds => FoldOutcomes(c.folds[p[1]]) = {}
      OBVIOUS
    <2>2. PICK splits : splits = run.folds /\ splits = c.folds
      BY <1>4
    <2>3. run.rows = fresh
      <3>1. ~run.resume /\ run.chosen = DOMAIN run.folds
        BY <1>4, <2>0
      <3>2. run.rows = UNION {{<<m, x>> : x \in FoldOutcomes(splits[m])} : m \in DOMAIN splits}
        BY <1>1, <2>2, <3>1, WalkedAll
      <3>3. QED
        BY <2>1, <2>2, <3>2
    <2>4. CASE run.rows # {}
      BY <1>3, <2>3, <2>4 DEF OutcomeIs
    <2>5. CASE run.rows = {}
      <3>1. \A n \in DOMAIN splits : FoldOutcomes(splits[n]) = {}
        <4>1. SUFFICES ASSUME NEW n \in DOMAIN splits, NEW r \in FoldOutcomes(splits[n]) PROVE FALSE
          OBVIOUS
        <4>2. <<n, r>> \in fresh
          BY <2>1, <2>2, <4>1
        <4>3. QED
          BY <2>3, <2>5, <4>2
      <3>2. QED
        BY <2>2, <2>3, <2>5, <3>1
    <2>6. QED
      BY <2>4, <2>5
  <1>7. FailureIsExplained'
    BY <1>2, <1>4 DEF FailureIsExplained, FullRun
  <1>8. QED
    BY <1>1, <1>2, <1>4, <1>5, <1>6, <1>7 DEF WalkInv

LEMMA WalkStep == WalkInv /\ [WalkNext]_walkVars => WalkInv'
  <1> SUFFICES ASSUME WalkInv, [WalkNext]_walkVars PROVE WalkInv'
    OBVIOUS
  <1>1. CASE CorpusGrows
    BY <1>1, CorpusGrowsKeeps
  <1>2. CASE Start
    BY <1>2, StartKeeps
  <1>3. CASE RunFold
    BY <1>3, RunFoldKeeps
  <1>4. CASE Die
    BY <1>4, DieKeeps
  <1>5. CASE Collect
    BY <1>5, CollectKeeps
  <1>6. CASE Summarise
    BY <1>6, SummariseKeeps
  <1>7. CASE UNCHANGED walkVars
    <2>1. harness' = harness /\ version' = version /\ files' = files /\ runs' = runs /\ run' = run /\ collected' = collected
      BY <1>7 DEF walkVars
    <2>2. CountedOnce' /\ RunIsWhole' /\ FailureIsExplained'
      BY <2>1, CollectedStays DEF WalkInv
    <2>3. QED
      BY <2>1, <2>2 DEF WalkInv
  <1>8. QED
    BY <1>1, <1>2, <1>3, <1>4, <1>5, <1>6, <1>7 DEF WalkNext

LEMMA WalkInvHolds == WalkSpec => []WalkInv
  BY WalkStart, WalkStep, PTL DEF WalkSpec

LEMMA TwoNames == ASSUME NEW S, IsFiniteSet(S), NEW a \in S, NEW b \in S, a # b PROVE Cardinality(S) > 1
  <1>1. Cardinality(S \ {a}) = Cardinality(S) - 1 /\ IsFiniteSet(S \ {a})
    BY FS_RemoveElement
  <1>2. S \ {a} # {}
    OBVIOUS
  <1>3. Cardinality(S \ {a}) \in Nat /\ Cardinality(S \ {a}) # 0 /\ Cardinality(S) \in Nat
    BY <1>1, <1>2, FS_CardinalityType, FS_EmptySet
  <1>4. QED
    BY <1>1, <1>3

LEMMA NamesOfFinite == ASSUME NEW S, IsFiniteSet(S), NEW T, T = {x.name : x \in S} PROVE IsFiniteSet(T)
  <1>1. PICK h : h = [x \in S |-> x.name]
    OBVIOUS
  <1>2. h \in Surjection(S, T)
    BY <1>1 DEF Surjection
  <1>3. QED
    BY <1>2, FS_Surjection

LEMMA CorpusLabels == WalkInv => LabelsAreOwn
  <1> SUFFICES ASSUME WalkInv PROVE LabelsAreOwn
    OBVIOUS
  <1>1. CASE run = NoRun
    <2>1. run.corpus = {}
      BY <1>1 DEF NoRun
    <2>2. QED
      BY <2>1 DEF LabelsAreOwn
  <1>2. CASE run # NoRun
    <2>1. PICK v \in DOMAIN Corpora : v = version
      BY <1>2, RunOf
    <2>2. run.corpus = WalkRows(harness, v)
      BY <1>2, <2>1, RunOf
    <2>3. CASE harness = "y6"
      <3>1. run.corpus = MergedClean(v)
        BY <2>2, <2>3 DEF WalkRows
      <3>2. QED
        BY <2>3, <3>1, CleanRows, CleanPair DEF LabelsAreOwn
    <2>4. CASE harness # "y6"
      <3>1. run.corpus = MergedOnId(v)
        BY <2>2, <2>4 DEF WalkRows
      <3>2. SUFFICES ASSUME NEW r \in MergedOnId(v), r.label # r.name,
                            NEW A, A = {f.name : f \in {g \in Features(v) : g.id = r.id}},
                            NEW B, B = {u.name : u \in {u \in Targets(v) : u.id = r.id}}
                     PROVE  Cardinality(A \cup B) > 1
        BY <2>1, <2>4, <3>1 DEF LabelsAreOwn
      <3>3. PICK f \in Features(v), u \in Targets(v) : u.id = f.id /\ r.id = f.id /\ r.name = f.name /\ r.label = u.name
        BY <3>2, IdPair
      <3>4. r.name \in A /\ r.label \in B
        BY <3>2, <3>3
      <3>5. IsFiniteSet({g \in Features(v) : g.id = r.id}) /\ IsFiniteSet({w \in Targets(v) : w.id = r.id})
        BY CorpusOf, FS_Subset
      <3>6. IsFiniteSet(A) /\ IsFiniteSet(B)
        BY <3>2, <3>5, NamesOfFinite
      <3>7. IsFiniteSet(A \cup B)
        BY <3>6, FS_Union
      <3>8. QED
        BY <3>2, <3>4, <3>7, TwoNames
    <2>5. QED
      BY <2>3, <2>4
  <1>3. QED
    BY <1>1, <1>2

LEMMA WindowsApart == WalkInv => FoldsAreApart
  <1> SUFFICES ASSUME WalkInv, NEW n \in DOMAIN run.folds
               PROVE  /\ \A r \in run.folds[n].training, q \in run.folds[n].testing : r.at < q.at /\ r.id # q.id
                      /\ \A m \in DOMAIN run.folds \ {n} : run.folds[n].testing \cap run.folds[m].testing = {}
    BY DEF FoldsAreApart
  <1>1. run # NoRun
    <2>1. SUFFICES ASSUME run = NoRun PROVE FALSE
      OBVIOUS
    <2>2. run.folds = <<>>
      BY <2>1 DEF NoRun
    <2>3. QED
      BY <2>2
  <1>2. PICK v \in DOMAIN Corpora : v = version
    BY <1>1, RunOf
  <1>3. PICK examples, splits : examples = run.corpus /\ examples = WalkRows(harness, v) /\ splits = run.folds /\ FoldsFit(examples, splits)
    BY <1>1, <1>2, RunOf
  <1>4. \A r, q \in examples : r.at \in Nat /\ q.at \in Nat /\ (r.id = q.id => r.at = q.at)
    BY <1>3, TimesOfRows DEF WalkInv
  <1>5. \A k \in DOMAIN splits :
           /\ splits[k].from \in Nat /\ k \in Nat
           /\ \A r \in splits[k].training : r \in examples /\ r.at < splits[k].from - PurgeSpan
           /\ \A r \in splits[k].testing : r \in examples /\ r.at >= splits[k].from /\ r.at < splits[k].from + TestDays
    BY <1>3 DEF FoldsFit
  <1>6. \A i, j \in DOMAIN splits : i < j => splits[i].from + TestDays <= splits[j].from
    BY <1>3 DEF FoldsFit
  <1>7. ASSUME NEW r \in splits[n].training, NEW q \in splits[n].testing PROVE r.at < q.at /\ r.id # q.id
    <2>1. PICK from \in Nat : from = splits[n].from
      BY <1>3, <1>5
    <2>2. r \in examples /\ q \in examples /\ r.at < from - PurgeSpan /\ q.at >= from
      BY <1>3, <1>5, <1>7, <2>1
    <2>3. PICK a \in Nat, b \in Nat : a = r.at /\ b = q.at
      BY <1>4, <2>2
    <2>4. a < b
      BY <2>1, <2>2, <2>3, WalkNumbers
    <2>5. QED
      BY <1>4, <2>2, <2>3, <2>4
  <1>8. ASSUME NEW i \in DOMAIN splits, NEW j \in DOMAIN splits, i < j, NEW r \in splits[i].testing, r \in splits[j].testing
        PROVE  FALSE
    <2>1. PICK a \in Nat, b \in Nat : a = splits[i].from /\ b = splits[j].from
      BY <1>5
    <2>2. a + TestDays <= b
      BY <1>6, <1>8, <2>1
    <2>3. PICK at \in Nat : at = r.at /\ at < a + TestDays /\ at >= b
      BY <1>4, <1>5, <1>8, <2>1
    <2>4. QED
      BY <2>2, <2>3, WalkNumbers
  <1>9. ASSUME NEW m \in DOMAIN splits, m # n, NEW r \in splits[n].testing, r \in splits[m].testing PROVE FALSE
    <2>1. m \in Nat /\ n \in Nat /\ n \in DOMAIN splits
      BY <1>3, <1>5
    <2>2. m < n \/ n < m
      BY <1>9, <2>1
    <2>3. QED
      BY <1>8, <1>9, <2>1, <2>2
  <1>10. QED
    BY <1>3, <1>7, <1>9

\* A walk-forward test tries each row once, on models that have not seen it; what is
\* collected after runs that die, go on or leave folds out is what the folds gave.
THEOREM WalksAreHonestHolds == WalkSpec => []WalksAreHonest
  <1>1. WalkInv => WalksAreHonest
    BY CorpusLabels, WindowsApart DEF WalksAreHonest, WalkInv
  <1>2. QED
    BY <1>1, WalkInvHolds, PTL

LEMMA WalkTypeOKHolds == WalkSpec => []WalkTypeOK
  <1>1. WalkInv => WalkTypeOK
    <2> SUFFICES ASSUME WalkInv PROVE WalkTypeOK
      OBVIOUS
    <2>1. \A n \in DOMAIN files : /\ n \in Nat \ {0} /\ files[n].is \in {"torn", "rows"}
                                  /\ (files[n].is = "rows") = (files[n].rows # {})
      BY DEF WalkInv, FilesFit, FileFits
    <2>2. CASE run = NoRun
      <3>1. run.is = "idle" /\ run.chosen = {} /\ run.folds = <<>> /\ run.next = 0
        BY <2>2 DEF NoRun
      <3>2. 0 \in 0 .. Len(run.folds) + 1
        BY <3>1
      <3>3. QED
        BY <2>1, <3>1, <3>2 DEF WalkTypeOK, WalkInv
    <2>3. CASE run # NoRun
      <3>1. run.is = "runs" /\ run.chosen \subseteq DOMAIN run.folds /\ run.next \in 0 .. Len(run.folds) + 1
        BY <2>3, RunOf
      <3>2. QED
        BY <2>1, <3>1 DEF WalkTypeOK, WalkInv
    <2>4. QED
      BY <2>2, <2>3
  <1>2. QED
    BY <1>1, WalkInvHolds, PTL

-------------------------------------------------------------------------------
(* The replay of a window. *)

\* The part of a sequence at some positions has what is there, and nothing else.
LEMMA PartHas ==
    ASSUME NEW T, NEW s \in Seq(T), NEW P \in SUBSET DOMAIN s, NEW r, r = PartAt(s, P)
    PROVE  /\ r \in Seq(T) /\ Len(r) \in Nat /\ DOMAIN r = 1 .. Len(r)
           /\ \A i \in DOMAIN r : \E j \in P : r[i] = s[j]
           /\ \A j \in P : \E i \in DOMAIN r : r[i] = s[j]
  <1>1. PICK n \in Nat : n = Len(s) /\ DOMAIN s = 1 .. n
    OBVIOUS
  <1>2. P \in SUBSET (1 .. n) /\ IsFiniteSet(P)
    <2>1. IsFiniteSet(1 .. n)
      BY FS_Interval
    <2>2. QED
      BY <1>1, <2>1, FS_Subset
  <1>3. PICK rank \in [P -> Nat] : \A i \in P : rank[i] = i
    <2>1. [i \in P |-> i] \in [P -> Nat]
      BY <1>2
    <2>2. QED
      BY <2>1
  <1>4. PICK c \in Nat : c = Cardinality(P)
    BY <1>2, FS_CardinalityType
  <1>5. PICK g \in Bijection(1 .. c, P) : \A i, j \in 1 .. c : i < j => rank[g[i]] < rank[g[j]]
    <2>1. \A i, j \in P : rank[i] = rank[j] => i = j
      BY <1>3
    <2>2. Rising(P, rank) # {}
      BY <1>2, <2>1, RisingExists
    <2>3. QED
      BY <1>4, <2>2 DEF Rising
  <1>6. g \in [1 .. c -> P] /\ DOMAIN g = 1 .. c
    BY <1>5 DEF Bijection, Injection
  <1>7. \A i, j \in DOMAIN g : i < j => g[i] < g[j]
    BY <1>3, <1>5, <1>6
  <1>8. PICK f : f = CHOOSE h \in Bijection(1 .. c, P) : \A i, j \in DOMAIN h : i < j => h[i] < h[j]
    OBVIOUS
  <1>9. f \in Bijection(1 .. c, P)
    BY <1>5, <1>7, <1>8
  <1>10. f \in [1 .. c -> P] /\ \A j \in P : \E i \in 1 .. c : f[i] = j
    BY <1>9 DEF Bijection, Injection, Surjection
  <1>11. r = [i \in DOMAIN f |-> s[f[i]]]
    BY <1>4, <1>8 DEF PartAt
  <1>12. \A i \in P : s[i] \in T
    BY <1>1, <1>2, ElementOfSeq
  <1>13. r \in [1 .. c -> T] /\ \A i \in 1 .. c : r[i] = s[f[i]]
    BY <1>10, <1>11, <1>12
  <1>14. r \in Seq(T) /\ Len(r) = c /\ DOMAIN r = 1 .. c
    BY <1>13
  <1>15. \A i \in DOMAIN r : \E j \in P : r[i] = s[j]
    <2> TAKE i \in DOMAIN r
    <2>1. i \in 1 .. c
      BY <1>14
    <2>2. r[i] = s[f[i]] /\ f[i] \in P
      BY <1>10, <1>13, <2>1
    <2>3. QED
      BY <2>2
  <1>16. \A j \in P : \E i \in DOMAIN r : r[i] = s[j]
    <2> TAKE j \in P
    <2>1. PICK i \in 1 .. c : f[i] = j
      BY <1>10
    <2>2. i \in DOMAIN r /\ r[i] = s[j]
      BY <1>13, <1>14, <2>1
    <2>3. QED
      BY <2>2
  <1>17. Len(r) \in Nat /\ DOMAIN r = 1 .. Len(r)
    BY <1>14
  <1>18. QED
    BY <1>14, <1>15, <1>16, <1>17

LEMMA ReplayFile ==
    ASSUME NEW file \in ReplayFiles PROVE file \in Seq(ReplayNews) /\ \A i \in DOMAIN file : file[i].at <= file[i].made
  BY WindowReplayAssumption

LEMMA ReplayEventOf ==
    ASSUME NEW x \in ReplayNews
    PROVE  /\ x.valid \in BOOLEAN /\ x.at \in Nat /\ x.made \in Nat /\ x.financial \in BOOLEAN
           /\ x.impacts \in Seq(ReplayImpact) /\ Len(x.impacts) \in Nat /\ DOMAIN x.impacts = 1 .. Len(x.impacts)
           /\ \A i \in DOMAIN x.impacts : x.impacts[i] \in ReplayImpact /\ x.impacts[i].ticker \in STRING
  <1>1. x.impacts \in Seq(ReplayImpact)
    BY DEF ReplayNews
  <1>2. \A i \in DOMAIN x.impacts : x.impacts[i] \in ReplayImpact
    BY <1>1, ElementOfSeq
  <1>3. QED
    BY <1>1, <1>2 DEF ReplayNews, ReplayImpact

\* What the blacklist leaves of an event: all but the tickers of it.
LEMMA StrippedEvent ==
    ASSUME NEW x \in ReplayNews, NEW l \in BOOLEAN, NEW e, e = Stripped(x, l)
    PROVE  /\ e \in ReplayNews /\ e.at = x.at /\ e.made = x.made /\ (~l => e = x)
           /\ \A t : l /\ Mentions(e, t) => t \notin Blacklist
           /\ \A t : t \notin Blacklist => (Mentions(e, t) <=> Mentions(x, t))
  <1>1. CASE ~l
    BY <1>1 DEF Stripped
  <1>2. CASE l
    <2>1. PICK s \in Seq(ReplayImpact) : s = x.impacts /\ \A i \in DOMAIN s : s[i] \in ReplayImpact
      BY ReplayEventOf
    <2>2. PICK P \in SUBSET DOMAIN s : P = {i \in DOMAIN s : s[i].ticker \notin Blacklist}
      OBVIOUS
    <2>3. PICK r : r = PartAt(s, P)
      OBVIOUS
    <2>4. /\ r \in Seq(ReplayImpact) /\ \A i \in DOMAIN r : \E j \in P : r[i] = s[j]
          /\ \A j \in P : \E i \in DOMAIN r : r[i] = s[j]
      BY <2>3, PartHas
    <2>5. e = [x EXCEPT !.impacts = r]
      BY <1>2, <2>1, <2>2, <2>3 DEF Stripped
    <2>6. e \in ReplayNews /\ e.at = x.at /\ e.made = x.made /\ e.impacts = r
      BY <2>4, <2>5 DEF ReplayNews
    <2>7. \A t : Mentions(e, t) => t \notin Blacklist
      BY <2>2, <2>4, <2>6 DEF Mentions
    <2>8. ASSUME NEW t, t \notin Blacklist PROVE Mentions(e, t) <=> Mentions(x, t)
      <3>1. Mentions(e, t) => Mentions(x, t)
        BY <2>1, <2>2, <2>4, <2>6 DEF Mentions
      <3>2. ASSUME Mentions(x, t) PROVE Mentions(e, t)
        <4>1. PICK j \in DOMAIN s : s[j].ticker = t
          BY <2>1, <3>2 DEF Mentions
        <4>2. PICK i \in DOMAIN r : r[i] = s[j]
          BY <2>2, <2>4, <2>8, <4>1
        <4>3. QED
          BY <2>6, <4>1, <4>2 DEF Mentions
      <3>3. QED
        BY <3>1, <3>2
    <2>9. QED
      BY <1>2, <2>6, <2>7, <2>8
  <1>3. QED
    BY <1>1, <1>2

\* A time and a place in one number, which orders by the time first.
LEMMA TimeThenPlace ==
    ASSUME NEW n \in Nat, NEW a \in Nat, NEW b \in Nat, NEW i \in 1 .. n, NEW j \in 1 .. n
    PROVE  /\ a * (n + 1) + i \in Nat
           /\ a * (n + 1) + i < b * (n + 1) + j => a < b \/ (a = b /\ i < j)
           /\ a * (n + 1) + i = b * (n + 1) + j => i = j
  <1>1. PICK x \in Nat, y \in Nat, w \in Nat : x = a * (n + 1) /\ y = b * (n + 1) /\ w = n + 1
    OBVIOUS
  <1>2. a < b => x + w <= y
    <2>1. SUFFICES ASSUME a < b PROVE x + w <= y
      OBVIOUS
    <2>2. (a + 1) * w <= b * w
      BY <1>1, <2>1, ProductsKeepOrder
    <2>3. (a + 1) * w = a * w + w
      BY ONLY a \in Nat, w \in Nat
    <2>4. QED
      BY <1>1, <2>2, <2>3
  <1>3. b < a => y + w <= x
    <2>1. SUFFICES ASSUME b < a PROVE y + w <= x
      OBVIOUS
    <2>2. (b + 1) * w <= a * w
      BY <1>1, <2>1, ProductsKeepOrder
    <2>3. (b + 1) * w = b * w + w
      BY ONLY b \in Nat, w \in Nat
    <2>4. QED
      BY <1>1, <2>2, <2>3
  <1>4. a = b => x = y
    BY <1>1
  <1>5. /\ x + i \in Nat
        /\ x + i < y + j => a < b \/ (a = b /\ i < j)
        /\ x + i = y + j => i = j
    BY <1>1, <1>2, <1>3, <1>4
  <1>6. QED
    BY <1>1, <1>5

\* The events are put in the order of their times.
LEMMA EventsByTime ==
    ASSUME NEW events \in Seq(ReplayNews), NEW r, r = ByNewsTime(events)
    PROVE  /\ r \in Seq(ReplayNews) /\ Len(r) = Len(events)
           /\ \A i \in 1 .. Len(r) : \E j \in DOMAIN events : r[i] = events[j]
           /\ \A i, j \in 1 .. Len(r) : i < j => r[i].at <= r[j].at
  <1>1. PICK n \in Nat : n = Len(events) /\ DOMAIN events = 1 .. n
    OBVIOUS
  <1>2. PICK at \in [1 .. n -> Nat] : \A i \in 1 .. n : at[i] = events[i].at /\ events[i] \in ReplayNews
    <2>1. \A i \in 1 .. n : events[i] \in ReplayNews /\ events[i].at \in Nat
      BY <1>1, ElementOfSeq, ReplayEventOf
    <2>2. [i \in 1 .. n |-> events[i].at] \in [1 .. n -> Nat]
      BY <2>1
    <2>3. QED
      BY <2>1, <2>2
  <1>3. PICK rank \in [1 .. n -> Nat] : \A i \in 1 .. n : rank[i] = at[i] * (n + 1) + i
    <2>1. \A i \in 1 .. n : at[i] * (n + 1) + i \in Nat
      BY <1>2, TimeThenPlace
    <2>2. [i \in 1 .. n |-> at[i] * (n + 1) + i] \in [1 .. n -> Nat]
      BY <2>1
    <2>3. QED
      BY <2>2
  <1>4. \A i, j \in 1 .. n : at[i] \in Nat /\ at[j] \in Nat
    BY <1>2
  <1>5. ASSUME NEW i \in 1 .. n, NEW j \in 1 .. n
        PROVE  (rank[i] = rank[j] => i = j) /\ (rank[i] < rank[j] => at[i] < at[j] \/ (at[i] = at[j] /\ i < j))
    <2>1. PICK a \in Nat, b \in Nat : a = at[i] /\ b = at[j]
      BY <1>4
    <2>2. rank[i] = a * (n + 1) + i /\ rank[j] = b * (n + 1) + j
      BY <1>3, <2>1
    <2>3. /\ a * (n + 1) + i < b * (n + 1) + j => a < b \/ (a = b /\ i < j)
          /\ a * (n + 1) + i = b * (n + 1) + j => i = j
      BY TimeThenPlace
    <2>4. QED
      BY <2>1, <2>2, <2>3
  <1>6. IsFiniteSet(1 .. n) /\ Cardinality(1 .. n) = n
    BY FS_Interval
  <1>7. PICK g \in Bijection(1 .. n, 1 .. n) : \A i, j \in 1 .. n : i < j => rank[g[i]] < rank[g[j]]
    <2>1. Rising(1 .. n, rank) # {}
      BY <1>5, <1>6, RisingExists
    <2>2. QED
      BY <1>6, <2>1 DEF Rising
  <1>8. g \in [1 .. n -> 1 .. n]
    BY <1>7 DEF Bijection, Injection
  <1> DEFINE sooner(i, j) == events[i].at < events[j].at \/ (events[i].at = events[j].at /\ i < j)
  <1>9. \A i, j \in 1 .. n : i < j => sooner(g[i], g[j])
    <2> SUFFICES ASSUME NEW i \in 1 .. n, NEW j \in 1 .. n, i < j PROVE sooner(g[i], g[j])
      OBVIOUS
    <2>1. g[i] \in 1 .. n /\ g[j] \in 1 .. n
      BY <1>8
    <2>2. rank[g[i]] < rank[g[j]]
      BY <1>7
    <2>3. at[g[i]] < at[g[j]] \/ (at[g[i]] = at[g[j]] /\ g[i] < g[j])
      BY <1>5, <2>1, <2>2
    <2>4. QED
      BY <1>2, <2>1, <2>3
  <1>10. PICK f : f = CHOOSE h \in [1 .. n -> 1 .. n] : \A i, j \in 1 .. n : i < j => sooner(h[i], h[j])
    OBVIOUS
  <1>11. f \in [1 .. n -> 1 .. n] /\ \A i, j \in 1 .. n : i < j => sooner(f[i], f[j])
    BY <1>8, <1>9, <1>10
  <1>12. r = [i \in 1 .. n |-> events[f[i]]]
    BY <1>1, <1>10 DEF ByNewsTime
  <1>13. r \in [1 .. n -> ReplayNews] /\ \A i \in 1 .. n : r[i] = events[f[i]] /\ f[i] \in 1 .. n
    BY <1>2, <1>11, <1>12
  <1>14. r \in Seq(ReplayNews) /\ Len(r) = n
    BY <1>13
  <1>15. ASSUME NEW i \in 1 .. n, NEW j \in 1 .. n, i < j PROVE r[i].at <= r[j].at
    <2>1. sooner(f[i], f[j])
      BY <1>11, <1>15
    <2>2. events[f[i]].at \in Nat /\ events[f[j]].at \in Nat
      BY <1>2, <1>4, <1>13
    <2>3. events[f[i]].at <= events[f[j]].at
      BY <2>1, <2>2
    <2>4. QED
      BY <1>13, <2>3
  <1>16. QED
    BY <1>1, <1>13, <1>14, <1>15

PredictionShape == [news: Nat, ticker: STRING, named: Nat, past: SUBSET Nat]

LEMMA PastIn ==
    ASSUME NEW history \in Seq(ReplayNews), NEW news, NEW t PROVE PastOf(history, news, t) \in SUBSET Nat
  <1>1. DOMAIN history \in SUBSET Nat
    OBVIOUS
  <1>2. QED
    BY <1>1 DEF PastOf

\* A news is predicted for tickers that it names.
LEMMA NewPredictions ==
    ASSUME NEW news \in ReplayNews, NEW history \in Seq(ReplayNews), NEW quoted,
           NEW r, r = PredictionsFor(news, history, quoted)
    PROVE  /\ r \in Seq(PredictionShape) /\ Len(r) \in Nat /\ DOMAIN r = 1 .. Len(r)
           /\ \A i \in DOMAIN r : /\ r[i].news = Len(history) /\ Mentions(news, r[i].ticker)
                                  /\ r[i].past = PastOf(history, news, r[i].ticker)
  <1>1. PICK s \in Seq(ReplayImpact) : /\ s = news.impacts /\ Len(s) \in Nat
                                       /\ \A i \in DOMAIN s : s[i] \in ReplayImpact /\ s[i].ticker \in STRING
    BY ReplayEventOf
  <1>2. PICK P \in SUBSET DOMAIN s : P = {i \in DOMAIN s : s[i].ticker \in quoted}
    OBVIOUS
  <1>3. PICK covered : covered = PartAt(s, P)
    OBVIOUS
  <1>4. /\ covered \in Seq(ReplayImpact) /\ Len(covered) \in Nat /\ DOMAIN covered = 1 .. Len(covered)
        /\ \A i \in DOMAIN covered : \E j \in P : covered[i] = s[j]
    BY <1>3, PartHas
  <1>5. PICK m \in Nat : m = Len(history)
    OBVIOUS
  <1>6. PICK n \in Nat : n = Len(covered) /\ DOMAIN covered = 1 .. n
    BY <1>4
  <1>7. CASE ~news.financial
    <2>1. r = <<>>
      BY <1>7 DEF PredictionsFor
    <2>2. r \in Seq(PredictionShape) /\ Len(r) = 0 /\ DOMAIN r = 1 .. Len(r)
      BY <2>1
    <2>3. QED
      BY <2>2
  <1>8. CASE news.financial
    <2>1. r = [i \in 1 .. n |-> [news |-> m, ticker |-> covered[i].ticker, named |-> Len(s),
                                 past |-> PastOf(history, news, covered[i].ticker)]]
      BY <1>1, <1>2, <1>3, <1>5, <1>6, <1>8 DEF PredictionsFor
    <2>2. ASSUME NEW i \in 1 .. n
          PROVE  /\ r[i] \in PredictionShape
                 /\ r[i].news = m /\ Mentions(news, r[i].ticker) /\ r[i].past = PastOf(history, news, r[i].ticker)
      <3>1. PICK j \in DOMAIN s : covered[i] = s[j]
        BY <1>2, <1>4, <1>6
      <3>2. PICK t \in STRING : t = covered[i].ticker /\ Mentions(news, t)
        BY <1>1, <3>1 DEF Mentions
      <3>3. PICK past \in SUBSET Nat : past = PastOf(history, news, t)
        BY PastIn
      <3>4. r[i] = [news |-> m, ticker |-> t, named |-> Len(s), past |-> past]
        BY <2>1, <3>2, <3>3
      <3>5. QED
        BY <1>1, <3>2, <3>3, <3>4 DEF PredictionShape
    <2>3. r \in [1 .. n -> PredictionShape]
      BY <2>1, <2>2
    <2>4. r \in Seq(PredictionShape) /\ Len(r) = n /\ DOMAIN r = 1 .. n
      BY <2>3
    <2>5. QED
      BY <1>5, <2>2, <2>4
  <1>9. QED
    BY <1>7, <1>8, ReplayEventOf

\* The same predictions are made for a news on histories that are the same to it.
LEMMA SamePredictions ==
    ASSUME NEW news, NEW h1, NEW h2, Len(h1) = Len(h2), NEW quoted, news \in ReplayNews,
           \A t : Mentions(news, t) => PastOf(h1, news, t) = PastOf(h2, news, t)
    PROVE  PredictionsFor(news, h1, quoted) = PredictionsFor(news, h2, quoted)
  <1>1. PICK s \in Seq(ReplayImpact) : s = news.impacts
    BY ReplayEventOf
  <1>2. PICK P \in SUBSET DOMAIN s : P = {i \in DOMAIN s : s[i].ticker \in quoted}
    OBVIOUS
  <1>3. PICK covered : covered = PartAt(s, P)
    OBVIOUS
  <1>4. \A i \in DOMAIN covered : Mentions(news, covered[i].ticker)
    <2> TAKE i \in DOMAIN covered
    <2>1. PICK j \in P : covered[i] = s[j]
      BY <1>3, PartHas
    <2>2. QED
      BY <1>1, <2>1 DEF Mentions
  <1>5. \A i \in DOMAIN covered : PastOf(h1, news, covered[i].ticker) = PastOf(h2, news, covered[i].ticker)
    BY <1>4
  <1> DEFINE told(h) == [i \in DOMAIN covered |->
                           [news |-> Len(h), ticker |-> covered[i].ticker, named |-> Len(s),
                            past |-> PastOf(h, news, covered[i].ticker)]]
  <1>6. told(h1) = told(h2)
    BY <1>5
  <1>7. PredictionsFor(news, h1, quoted) = IF ~news.financial THEN <<>> ELSE told(h1)
    BY <1>1, <1>2, <1>3 DEF PredictionsFor
  <1>8. PredictionsFor(news, h2, quoted) = IF ~news.financial THEN <<>> ELSE told(h2)
    BY <1>1, <1>2, <1>3 DEF PredictionsFor
  <1>9. QED
    BY <1>6, <1>7, <1>8

\* Sequences that have the same at some positions still have when what comes after is not
\* at one, and when the same comes after both.
LEMMA SameStays ==
    ASSUME NEW s, NEW t, NEW P, NEW Q, SameAt(s, P, t, Q), NEW u, NEW w,
           \A i \in P : u[i] = s[i], \A i \in Q : w[i] = t[i]
    PROVE  SameAt(u, P, w, Q)
  <1>1. PICK f \in Bijection(P, Q) : (\A i, j \in P : i < j => f[i] < f[j]) /\ \A i \in P : t[f[i]] = s[i]
    BY DEF SameAt
  <1>2. \A i \in P : f[i] \in Q
    BY <1>1 DEF Bijection, Injection
  <1>3. \A i \in P : w[f[i]] = u[i]
    BY <1>1, <1>2
  <1>4. QED
    BY <1>1, <1>3 DEF SameAt

\* Sequences that have the same at some positions, and the same k values after them.
SameMoreOf(s, t, m, n, P, Q, k, u, w, P2, Q2) ==
    /\ P \in SUBSET (1 .. m) /\ Q \in SUBSET (1 .. n) /\ SameAt(s, P, t, Q)
    /\ (\A i \in P : u[i] = s[i]) /\ (\A i \in Q : w[i] = t[i]) /\ (\A i \in 1 .. k : u[m + i] = w[n + i])
    /\ P2 = P \cup m + 1 .. m + k /\ Q2 = Q \cup n + 1 .. n + k

LEMMA SameGrowsOnce ==
    ASSUME NEW s, NEW t, NEW m \in Nat, NEW n \in Nat, NEW P \in SUBSET (1 .. m), NEW Q \in SUBSET (1 .. n), SameAt(s, P, t, Q),
           NEW k \in Nat, NEW u, NEW w, \A i \in P : u[i] = s[i], \A i \in Q : w[i] = t[i],
           \A i \in 1 .. k : u[m + i] = w[n + i],
           NEW P2, P2 = P \cup m + 1 .. m + k, NEW Q2, Q2 = Q \cup n + 1 .. n + k
    PROVE  SameAt(u, P2, w, Q2)
  <1>1. PICK f \in Bijection(P, Q) : (\A i, j \in P : i < j => f[i] < f[j]) /\ \A i \in P : t[f[i]] = s[i]
    BY DEF SameAt
  <1>2. f \in [P -> Q] /\ (\A i, j \in P : f[i] = f[j] => i = j) /\ \A j \in Q : \E i \in P : f[i] = j
    BY <1>1 DEF Bijection, Injection, Surjection, IsInjective
  <1>3. PICK g : g = [i \in P2 |-> IF i <= m THEN f[i] ELSE n + (i - m)]
    OBVIOUS
  <1>4. \A i \in P : i \in P2 /\ i \in 1 .. m /\ g[i] = f[i] /\ f[i] \in Q /\ f[i] \in 1 .. n
    <2> TAKE i \in P
    <2>1. i \in P2 /\ i \in 1 .. m
      OBVIOUS
    <2>2. f[i] \in Q /\ f[i] \in 1 .. n
      BY <1>2
    <2>3. i <= m
      BY <2>1
    <2>4. g[i] = f[i]
      BY <1>3, <2>1, <2>3
    <2>5. QED
      BY <2>1, <2>2, <2>4
  <1>5. \A i \in P2 \ P : i \in m + 1 .. m + k /\ g[i] = n + (i - m) /\ n + (i - m) \in n + 1 .. n + k
    <2> TAKE i \in P2 \ P
    <2>1. i \in m + 1 .. m + k /\ ~(i <= m)
      OBVIOUS
    <2>2. g[i] = n + (i - m)
      BY <1>3, <2>1
    <2>3. QED
      BY <2>1, <2>2
  <1>6. g \in [P2 -> Q2]
    <2>1. \A i \in P2 : g[i] \in Q2
      BY <1>4, <1>5
    <2>2. QED
      BY <1>3, <2>1
  <1>7. \A i, j \in P2 : i < j => g[i] < g[j]
    <2> SUFFICES ASSUME NEW i \in P2, NEW j \in P2, i < j PROVE g[i] < g[j]
      OBVIOUS
    <2>1. CASE i \in P /\ j \in P
      BY <1>1, <1>4, <2>1
    <2>2. CASE i \in P /\ j \notin P
      <3>1. g[i] \in 1 .. n /\ g[j] \in n + 1 .. n + k
        BY <1>4, <1>5, <2>2
      <3>2. QED
        BY <3>1
    <2>3. CASE i \notin P /\ j \in P
      BY <1>4, <1>5, <2>3
    <2>4. CASE i \notin P /\ j \notin P
      BY <1>5, <2>4
    <2>5. QED
      BY <2>1, <2>2, <2>3, <2>4
  <1>8. \A i, j \in P2 : g[i] = g[j] => i = j
    <2> SUFFICES ASSUME NEW i \in P2, NEW j \in P2, g[i] = g[j] PROVE i = j
      OBVIOUS
    <2>1. i \in Int /\ j \in Int /\ g[i] \in Int /\ g[j] \in Int
      BY <1>4, <1>5
    <2>2. ~(i < j) /\ ~(j < i)
      BY <1>7, <2>1
    <2>3. QED
      BY <2>1, <2>2
  <1>9. \A j \in Q2 : \E i \in P2 : g[i] = j
    <2> TAKE j \in Q2
    <2>1. CASE j \in Q
      BY <1>2, <1>4, <2>1
    <2>2. CASE j \notin Q
      <3>1. j \in n + 1 .. n + k
        BY <2>2
      <3>2. PICK i \in Int : i = m + (j - n)
        BY <3>1
      <3>3. i \in m + 1 .. m + k /\ i \notin P
        BY <3>1, <3>2
      <3>4. g[i] = j
        BY <1>5, <3>1, <3>2, <3>3
      <3>5. QED
        BY <3>3, <3>4
    <2>3. QED
      BY <2>1, <2>2
  <1>10. DOMAIN g = P2
    BY <1>3
  <1>11. g \in Bijection(P2, Q2)
    BY <1>6, <1>8, <1>9, <1>10 DEF Bijection, Injection, Surjection, IsInjective
  <1>12. \A i \in P2 : w[g[i]] = u[i]
    <2> TAKE i \in P2
    <2>1. CASE i \in P
      BY <1>1, <1>4, <2>1
    <2>2. CASE i \notin P
      <3>1. PICK d \in 1 .. k : i = m + d
        <4>1. i \in m + 1 .. m + k
          BY <1>5, <2>2
        <4>2. i - m \in 1 .. k /\ i = m + (i - m)
          BY <4>1
        <4>3. QED
          BY <4>2
      <3>2. g[i] = n + d
        BY <1>5, <2>2, <3>1
      <3>3. QED
        BY <3>1, <3>2
    <2>3. QED
      BY <2>1, <2>2
  <1>13. QED
    BY <1>7, <1>11, <1>12 DEF SameAt

LEMMA SameGrows ==
    \A m, n, k \in Nat : \A s, t, P, Q, u, w, P2, Q2 :
        SameMoreOf(s, t, m, n, P, Q, k, u, w, P2, Q2) => SameAt(u, P2, w, Q2)
  <1> TAKE m, n, k \in Nat
  <1> TAKE s, t, P, Q, u, w, P2, Q2
  <1> HAVE SameMoreOf(s, t, m, n, P, Q, k, u, w, P2, Q2)
  <1> QED
    BY SameGrowsOnce DEF SameMoreOf

ReplayAnswers == Refusals \cup {"execute"}
ReplayFills   == [trades: Nat, without: Nat]

\* How many answers are of a kind.
AnswersOf(d, x) == {i \in DOMAIN d : d[i] = x}

LEMMA TwoParts ==
    ASSUME NEW S, NEW T, IsFiniteSet(S), IsFiniteSet(T), S \cap T = {}
    PROVE  IsFiniteSet(S \cup T) /\ Cardinality(S \cup T) = Cardinality(S) + Cardinality(T) /\ Cardinality(S \cup T) \in Nat
           /\ Cardinality(S) \in Nat /\ Cardinality(T) \in Nat
  <1>1. IsFiniteSet(S \cup T) /\ Cardinality(S \cup T) = Cardinality(S) + Cardinality(T) - Cardinality(S \cap T)
    BY FS_Union
  <1>2. Cardinality(S \cap T) = 0
    BY FS_EmptySet
  <1>3. Cardinality(S \cup T) \in Nat /\ Cardinality(S) \in Nat /\ Cardinality(T) \in Nat
    BY <1>1, FS_CardinalityType
  <1>4. QED
    BY <1>1, <1>2, <1>3

\* Every answer is of one kind.
LEMMA KindsAddUp ==
    ASSUME NEW d \in Seq(ReplayAnswers)
    PROVE  Cardinality(AnswersOf(d, "direction")) + Cardinality(AnswersOf(d, "execute"))
             = Len(d) - Cardinality(AnswersOf(d, "rr")) - Cardinality(AnswersOf(d, "market")) - Cardinality(AnswersOf(d, "stale"))
  <1>1. PICK n \in Nat : n = Len(d) /\ DOMAIN d = 1 .. n
    OBVIOUS
  <1>2. IsFiniteSet(1 .. n) /\ Cardinality(1 .. n) = n
    BY FS_Interval
  <1>3. PICK A, B, C, D, E : /\ A = AnswersOf(d, "direction") /\ B = AnswersOf(d, "execute") /\ C = AnswersOf(d, "rr")
                             /\ D = AnswersOf(d, "market") /\ E = AnswersOf(d, "stale")
    OBVIOUS
  <1>4. A \subseteq 1 .. n /\ B \subseteq 1 .. n /\ C \subseteq 1 .. n /\ D \subseteq 1 .. n /\ E \subseteq 1 .. n
    BY <1>1, <1>3 DEF AnswersOf
  <1>5. IsFiniteSet(A) /\ IsFiniteSet(B) /\ IsFiniteSet(C) /\ IsFiniteSet(D) /\ IsFiniteSet(E)
    BY <1>2, <1>4, FS_Subset
  <1>6. A \cap B = {} /\ (A \cup B) \cap C = {} /\ (A \cup B \cup C) \cap D = {} /\ (A \cup B \cup C \cup D) \cap E = {}
    BY <1>3 DEF AnswersOf
  <1>7. A \cup B \cup C \cup D \cup E = 1 .. n
    <2>1. \A i \in 1 .. n : d[i] \in ReplayAnswers
      BY <1>1, ElementOfSeq
    <2>2. \A i \in 1 .. n : i \in A \cup B \cup C \cup D \cup E
      BY <1>1, <1>3, <2>1 DEF AnswersOf, ReplayAnswers, Refusals
    <2>3. QED
      BY <1>4, <2>2
  <1>8. /\ IsFiniteSet(A \cup B) /\ Cardinality(A \cup B) = Cardinality(A) + Cardinality(B)
        /\ Cardinality(A) \in Nat /\ Cardinality(B) \in Nat
    BY <1>5, <1>6, TwoParts
  <1>9. /\ IsFiniteSet(A \cup B \cup C) /\ Cardinality(A \cup B \cup C) = Cardinality(A \cup B) + Cardinality(C)
        /\ Cardinality(C) \in Nat
    BY <1>5, <1>6, <1>8, TwoParts
  <1>10. /\ IsFiniteSet(A \cup B \cup C \cup D)
         /\ Cardinality(A \cup B \cup C \cup D) = Cardinality(A \cup B \cup C) + Cardinality(D) /\ Cardinality(D) \in Nat
    BY <1>5, <1>6, <1>9, TwoParts
  <1>11. /\ Cardinality(A \cup B \cup C \cup D \cup E) = Cardinality(A \cup B \cup C \cup D) + Cardinality(E)
         /\ Cardinality(E) \in Nat
    BY <1>5, <1>6, <1>10, TwoParts
  <1>12. n = Cardinality(A) + Cardinality(B) + Cardinality(C) + Cardinality(D) + Cardinality(E)
    BY <1>2, <1>7, <1>8, <1>9, <1>10, <1>11
  <1>13. QED
    BY <1>1, <1>3, <1>8, <1>9, <1>10, <1>11, <1>12

\* What holds in every state: the predictions have been made in turn on the history of the
\* news so far, the arms have answered the same predictions, and what they have counted is
\* what they answered.
NewsInTime(news) ==
    /\ \A i \in 1 .. Len(news) : news[i].at <= news[i].made
    /\ \A i, j \in 1 .. Len(news) : i < j => news[i].at <= news[j].at

HistoryFits(h, l, news, n) == Len(h) = n /\ \A j \in 1 .. n : h[j] = Stripped(news[j], l)

PastAt(news, k, t) ==
    {j \in 1 .. k : Mentions(news[j], t) /\ news[k].at - news[j].made \in 1 .. HistoryHours}

PredictionFits(p, l, news, n) ==
    /\ p.news \in 1 .. n
    /\ l => p.ticker \notin Blacklist
    /\ ~l => p.past = PastAt(news, p.news, p.ticker)

ArmOf(f, l) == [filter |-> f, listed |-> l]

Nested(strict, lenient, none) ==
    \A i \in DOMAIN strict : /\ strict[i] = "execute" => lenient[i] = "execute"
                             /\ lenient[i] = "execute" => none[i] = "execute"

ReplayInv ==
    /\ replayFile \in ReplayFiles /\ replayDone \in {"no", "report", "failed"}
    /\ replayed \in Seq(ReplayNews) /\ NewsInTime(replayed) /\ position \in 0 .. Len(replayed)
    /\ histories \in [BOOLEAN -> Seq(ReplayNews)] /\ \A l \in BOOLEAN : HistoryFits(histories[l], l, replayed, position)
    /\ predictions \in [BOOLEAN -> Seq(PredictionShape)]
    /\ \A l \in BOOLEAN : \A i \in DOMAIN predictions[l] : PredictionFits(predictions[l][i], l, replayed, position)
    /\ SameAt(predictions[TRUE], Left(TRUE), predictions[FALSE], Left(FALSE))
    /\ decided \in [Arms -> Seq(ReplayAnswers)] /\ \A a \in Arms : Len(decided[a]) = Len(predictions[a.listed])
    /\ \A l \in BOOLEAN : Nested(decided[ArmOf("strict", l)], decided[ArmOf("lenient", l)], decided[ArmOf("none", l)])
    /\ fills \in [Arms -> ReplayFills]
    /\ \A a \in Arms : fills[a].trades + fills[a].without <= Cardinality(Executed(a))
    /\ replayDone # "report" => \A a \in Arms : fills[a] = [trades |-> 0, without |-> 0]

LEMMA ArmsAre == /\ \A f \in Filters, l \in BOOLEAN : ArmOf(f, l) \in Arms /\ ArmOf(f, l).listed = l /\ ArmOf(f, l).filter = f
                 /\ \A a \in Arms : a.filter \in Filters /\ a.listed \in BOOLEAN /\ a = ArmOf(a.filter, a.listed)
  BY DEF Arms, ArmOf

\* Nothing is the same as nothing.
LEMMA SameEmpty == ASSUME NEW s, NEW t PROVE SameAt(s, {}, t, {})
  <1>1. PICK f : f = [i \in {} |-> i]
    OBVIOUS
  <1>2. f \in Bijection({}, {})
    BY <1>1 DEF Bijection, Injection, Surjection, IsInjective
  <1>3. QED
    BY <1>2 DEF SameAt

LEMMA ReplayStart == WindowReplayInit => ReplayInv
  <1> SUFFICES ASSUME WindowReplayInit PROVE ReplayInv
    OBVIOUS
  <1>1. /\ replayFile \in ReplayFiles /\ replayed = <<>> /\ position = 0
        /\ histories = [l \in BOOLEAN |-> <<>>] /\ predictions = [l \in BOOLEAN |-> <<>>]
        /\ decided = [a \in Arms |-> <<>>] /\ fills = [a \in Arms |-> [trades |-> 0, without |-> 0]] /\ replayDone = "no"
    BY DEF WindowReplayInit
  <1>2. replayed \in Seq(ReplayNews) /\ Len(replayed) = 0 /\ NewsInTime(replayed)
    BY <1>1 DEF NewsInTime
  <1>3. histories \in [BOOLEAN -> Seq(ReplayNews)] /\ \A l \in BOOLEAN : HistoryFits(histories[l], l, replayed, position)
    BY <1>1 DEF HistoryFits
  <1>4. predictions \in [BOOLEAN -> Seq(PredictionShape)] /\ \A l \in BOOLEAN : predictions[l] = <<>> /\ DOMAIN predictions[l] = {}
    BY <1>1
  <1>5. SameAt(predictions[TRUE], Left(TRUE), predictions[FALSE], Left(FALSE))
    <2>1. Left(TRUE) = {} /\ Left(FALSE) = {}
      BY <1>4 DEF Left
    <2>2. QED
      BY <2>1, SameEmpty
  <1>6. decided \in [Arms -> Seq(ReplayAnswers)] /\ \A a \in Arms : decided[a] = <<>> /\ DOMAIN decided[a] = {}
    BY <1>1
  <1>7. \A a \in Arms : Len(decided[a]) = Len(predictions[a.listed])
    BY <1>4, <1>6, ArmsAre
  <1>8. \A l \in BOOLEAN : Nested(decided[ArmOf("strict", l)], decided[ArmOf("lenient", l)], decided[ArmOf("none", l)])
    BY <1>6, ArmsAre DEF Nested, Filters
  <1>9. fills \in [Arms -> ReplayFills] /\ \A a \in Arms : fills[a] = [trades |-> 0, without |-> 0]
    BY <1>1 DEF ReplayFills
  <1>10. \A a \in Arms : fills[a].trades + fills[a].without <= Cardinality(Executed(a))
    <2> TAKE a \in Arms
    <2>1. Executed(a) = {}
      BY <1>6 DEF Executed
    <2>2. fills[a].trades = 0 /\ fills[a].without = 0
      BY <1>9
    <2>3. QED
      BY <2>1, <2>2, FS_EmptySet
  <1>11. \A l \in BOOLEAN : \A i \in DOMAIN predictions[l] : PredictionFits(predictions[l][i], l, replayed, position)
    BY <1>4
  <1>12. position \in 0 .. Len(replayed)
    BY <1>1, <1>2
  <1>13. QED
    BY <1>1, <1>2, <1>3, <1>4, <1>5, <1>6, <1>7, <1>8, <1>9, <1>10, <1>11, <1>12 DEF ReplayInv

\* No predictions before the first turn.
LEMMA NothingYet ==
    ASSUME ReplayInv, position = 0, NEW l \in BOOLEAN
    PROVE  DOMAIN predictions[l] = {} /\ Len(predictions[l]) = 0
  <1>1. predictions[l] \in Seq(PredictionShape) /\ \A i \in DOMAIN predictions[l] : PredictionFits(predictions[l][i], l, replayed, 0)
    BY DEF ReplayInv
  <1>2. \A i \in DOMAIN predictions[l] : FALSE
    BY <1>1 DEF PredictionFits
  <1>3. DOMAIN predictions[l] = 1 .. Len(predictions[l]) /\ Len(predictions[l]) \in Nat
    BY <1>1
  <1>4. Len(predictions[l]) = 0
    <2>1. SUFFICES ASSUME Len(predictions[l]) > 0 PROVE FALSE
      BY <1>3
    <2>2. 1 \in DOMAIN predictions[l]
      BY <1>3, <2>1
    <2>3. QED
      BY <1>2, <2>2
  <1>5. QED
    BY <1>2, <1>4

LEMMA LoadWindowKeeps == ReplayInv /\ LoadWindow => ReplayInv'
  <1> SUFFICES ASSUME ReplayInv, LoadWindow PROVE ReplayInv'
    OBVIOUS
  <1>1. /\ replayDone = "no" /\ replayed = <<>> /\ replayFile' = replayFile /\ position' = position /\ histories' = histories
        /\ predictions' = predictions /\ decided' = decided /\ fills' = fills
    BY DEF LoadWindow
  <1>2. PICK events : events = LoadedEvents(replayFile)
    OBVIOUS
  <1>3. \/ replayDone' = "failed" /\ replayed' = replayed
        \/ replayed' = ByNewsTime(events) /\ replayDone' = replayDone
    BY <1>2 DEF LoadWindow
  <1>4. position = 0
    <2>1. Len(replayed) = 0
      BY <1>1
    <2>2. QED
      BY <2>1 DEF ReplayInv
  <1>5. events \in Seq(ReplayNews) /\ \A i \in DOMAIN events : events[i].at <= events[i].made
    <2>1. PICK file \in Seq(ReplayNews) : file = replayFile /\ \A i \in DOMAIN file : file[i].at <= file[i].made
      BY ReplayFile DEF ReplayInv
    <2>2. PICK P \in SUBSET DOMAIN file : P = {i \in DOMAIN file : file[i].valid}
      OBVIOUS
    <2>3. events = PartAt(file, P)
      BY <1>2, <2>1, <2>2 DEF LoadedEvents
    <2>4. events \in Seq(ReplayNews) /\ \A i \in DOMAIN events : \E j \in P : events[i] = file[j]
      BY <2>3, PartHas
    <2>5. QED
      BY <2>1, <2>4
  <1>6. replayed' \in Seq(ReplayNews) /\ NewsInTime(replayed')
    <2>1. CASE replayed' = replayed
      BY <2>1 DEF ReplayInv
    <2>2. CASE replayed' = ByNewsTime(events)
      <3>1. PICK r : r = ByNewsTime(events)
        OBVIOUS
      <3>2. /\ r \in Seq(ReplayNews) /\ \A i \in 1 .. Len(r) : \E j \in DOMAIN events : r[i] = events[j]
            /\ \A i, j \in 1 .. Len(r) : i < j => r[i].at <= r[j].at
        BY <1>5, <3>1, EventsByTime
      <3>3. NewsInTime(r)
        BY <1>5, <3>2 DEF NewsInTime
      <3>4. QED
        BY <2>2, <3>1, <3>2, <3>3
    <2>3. QED
      BY <1>3, <2>1, <2>2
  <1>7. position' \in 0 .. Len(replayed')
    <2>1. Len(replayed') \in Nat
      BY <1>6
    <2>2. QED
      BY <1>1, <1>4, <2>1
  <1>8. \A l \in BOOLEAN : HistoryFits(histories'[l], l, replayed', position')
    <2> TAKE l \in BOOLEAN
    <2>1. Len(histories[l]) = 0
      BY <1>4 DEF ReplayInv, HistoryFits
    <2>2. QED
      BY <1>1, <1>4, <2>1 DEF HistoryFits
  <1>9. \A l \in BOOLEAN : DOMAIN predictions'[l] = {}
    BY <1>1, <1>4, NothingYet
  <1>10. SameAt(predictions'[TRUE], Left(TRUE)', predictions'[FALSE], Left(FALSE)')
    <2>1. Left(TRUE)' = {} /\ Left(FALSE)' = {}
      BY <1>9 DEF Left
    <2>2. QED
      BY <2>1, SameEmpty
  <1>11. \A a \in Arms : Executed(a)' = Executed(a)
    BY <1>1 DEF Executed
  <1>12. \A l \in BOOLEAN : \A i \in DOMAIN predictions'[l] : PredictionFits(predictions'[l][i], l, replayed', position')
    BY <1>9
  <1>13. \A a \in Arms : fills'[a].trades + fills'[a].without <= Cardinality(Executed(a)')
    BY <1>1, <1>11 DEF ReplayInv
  <1>14. \A a \in Arms : fills'[a] = [trades |-> 0, without |-> 0]
    BY <1>1 DEF ReplayInv
  <1>15. replayDone' \in {"no", "report", "failed"}
    BY <1>1, <1>3
  <1>16. QED
    BY <1>1, <1>6, <1>7, <1>8, <1>10, <1>12, <1>13, <1>14, <1>15 DEF ReplayInv

LEMMA LeftStays == ASSUME replayed' = replayed, predictions' = predictions, NEW l \in BOOLEAN PROVE Left(l)' = Left(l)
  BY DEF Left, Untouched

LEMMA InferenceKeeps == ReplayInv /\ InferenceFailsInReplay => ReplayInv'
  <1> SUFFICES ASSUME ReplayInv, InferenceFailsInReplay PROVE ReplayInv'
    OBVIOUS
  <1>1. /\ replayDone = "no" /\ replayDone' = "failed" /\ replayFile' = replayFile /\ replayed' = replayed /\ position' = position
        /\ histories' = histories /\ predictions' = predictions /\ decided' = decided /\ fills' = fills
    BY DEF InferenceFailsInReplay
  <1>2. Left(TRUE)' = Left(TRUE) /\ Left(FALSE)' = Left(FALSE)
    BY <1>1, LeftStays
  <1>3. \A a \in Arms : Executed(a)' = Executed(a)
    BY <1>1 DEF Executed
  <1>4. SameAt(predictions'[TRUE], Left(TRUE)', predictions'[FALSE], Left(FALSE)')
    BY <1>1, <1>2 DEF ReplayInv
  <1>5. \A a \in Arms : fills'[a].trades + fills'[a].without <= Cardinality(Executed(a)')
    BY <1>1, <1>3 DEF ReplayInv
  <1>6. \A a \in Arms : fills'[a] = [trades |-> 0, without |-> 0]
    BY <1>1 DEF ReplayInv
  <1>7. QED
    BY <1>1, <1>4, <1>5, <1>6 DEF ReplayInv

LEMMA SimulateKeeps == ReplayInv /\ SimulateFills => ReplayInv'
  <1> SUFFICES ASSUME ReplayInv, SimulateFills PROVE ReplayInv'
    OBVIOUS
  <1> DEFINE of(a, T) == {i \in Executed(a) : predictions[a.listed][i].ticker \in T}
  <1>1. /\ replayDone = "no" /\ replayDone' = "report" /\ replayFile' = replayFile /\ replayed' = replayed /\ position' = position
        /\ histories' = histories /\ predictions' = predictions /\ decided' = decided
    BY DEF SimulateFills
  <1>2. PICK unfilled \in SUBSET ReplayTickers, broken \in SUBSET ReplayTickers :
            fills' = [a \in Arms |-> [trades  |-> Cardinality(of(a, ReplayTickers \ (unfilled \cup broken))),
                                      without |-> Cardinality(of(a, unfilled))]]
    BY DEF SimulateFills
  <1>3. ASSUME NEW a \in Arms
        PROVE  fills'[a] \in ReplayFills /\ fills'[a].trades + fills'[a].without <= Cardinality(Executed(a))
    <2>1. PICK S : S = of(a, ReplayTickers \ (unfilled \cup broken))
      OBVIOUS
    <2>2. PICK T : T = of(a, unfilled)
      OBVIOUS
    <2>3. IsFiniteSet(Executed(a))
      <3>1. PICK n \in Nat : DOMAIN decided[a] = 1 .. n
        BY DEF ReplayInv
      <3>2. IsFiniteSet(1 .. n) /\ Executed(a) \subseteq 1 .. n
        BY <3>1, FS_Interval DEF Executed
      <3>3. QED
        BY <3>2, FS_Subset
    <2>4. S \subseteq Executed(a) /\ T \subseteq Executed(a) /\ S \cap T = {}
      BY <2>1, <2>2
    <2>5. IsFiniteSet(S) /\ IsFiniteSet(T)
      BY <2>3, <2>4, FS_Subset
    <2>6. Cardinality(S \cup T) = Cardinality(S) + Cardinality(T) /\ Cardinality(S) \in Nat /\ Cardinality(T) \in Nat
      BY <2>4, <2>5, TwoParts
    <2>7. Cardinality(S \cup T) <= Cardinality(Executed(a))
      <3>1. S \cup T \in SUBSET Executed(a)
        BY <2>4
      <3>2. QED
        BY <2>3, <3>1, FS_Subset
    <2>8. fills'[a] = [trades |-> Cardinality(S), without |-> Cardinality(T)]
      BY <1>2, <2>1, <2>2
    <2>9. fills'[a].trades = Cardinality(S) /\ fills'[a].without = Cardinality(T) /\ fills'[a] \in ReplayFills
      BY <2>6, <2>8 DEF ReplayFills
    <2>10. QED
      BY <2>6, <2>7, <2>9
  <1>4. fills' \in [Arms -> ReplayFills]
    BY <1>2, <1>3
  <1>5. Left(TRUE)' = Left(TRUE) /\ Left(FALSE)' = Left(FALSE)
    BY <1>1, LeftStays
  <1>6. \A a \in Arms : Executed(a)' = Executed(a)
    BY <1>1 DEF Executed
  <1>7. SameAt(predictions'[TRUE], Left(TRUE)', predictions'[FALSE], Left(FALSE)')
    BY <1>1, <1>5 DEF ReplayInv
  <1>8. \A a \in Arms : fills'[a].trades + fills'[a].without <= Cardinality(Executed(a)')
    BY <1>3, <1>6
  <1>9. QED
    BY <1>1, <1>4, <1>7, <1>8 DEF ReplayInv

\* What the decision may say, and that a weaker filter lets through what a stronger one does.
LEMMA DecideIsAnswer ==
    ASSUME NEW a, a.filter \in Filters, NEW gate \in {"open", "market", "stale"}, NEW news, NEW p, NEW side
    PROVE  DecideInReplay(a, news, p, side, gate) \in ReplayAnswers
  <1>1. DecideInReplay(a, news, p, side, gate) \in {gate, "rr", "execute", "direction"}
    BY DEF DecideInReplay
  <1>2. gate # "open" => DecideInReplay(a, news, p, side, gate) = gate
    BY DEF DecideInReplay
  <1>3. gate = "open" => DecideInReplay(a, news, p, side, gate) \in {"rr", "execute", "direction"}
    BY DEF DecideInReplay
  <1>4. QED
    BY <1>2, <1>3 DEF ReplayAnswers, Refusals

LEMMA DecideNested ==
    ASSUME NEW l, NEW gate \in {"open", "market", "stale"}, NEW news, NEW p, NEW side
    PROVE  /\ DecideInReplay(ArmOf("strict", l), news, p, side, gate) = "execute" =>
                DecideInReplay(ArmOf("lenient", l), news, p, side, gate) = "execute"
           /\ DecideInReplay(ArmOf("lenient", l), news, p, side, gate) = "execute" =>
                DecideInReplay(ArmOf("none", l), news, p, side, gate) = "execute"
  <1>1. /\ Passes("strict", news, p.ticker, side) => Passes("lenient", news, p.ticker, side)
        /\ Passes("none", news, p.ticker, side)
    BY DEF Passes
  <1>2. ASSUME NEW f \in Filters
        PROVE  DecideInReplay(ArmOf(f, l), news, p, side, gate) = "execute"
                 <=> gate = "open" /\ side # "none" /\ Passes(f, news, p.ticker, side)
    <2>1. ArmOf(f, l).filter = f
      BY DEF ArmOf
    <2>2. CASE gate # "open"
      BY <2>2 DEF DecideInReplay
    <2>3. CASE gate = "open" /\ side = "none"
      BY <2>3 DEF DecideInReplay
    <2>4. CASE gate = "open" /\ side # "none"
      <3>1. DecideInReplay(ArmOf(f, l), news, p, side, gate) = IF Passes(f, news, p.ticker, side) THEN "execute" ELSE "direction"
        BY <2>1, <2>4 DEF DecideInReplay
      <3>2. QED
        BY <2>4, <3>1
    <2>5. QED
      BY <2>2, <2>3, <2>4
  <1>3. "strict" \in Filters /\ "lenient" \in Filters /\ "none" \in Filters
    BY DEF Filters
  <1>4. QED
    BY <1>1, <1>2, <1>3

\* A history has the times of the news, and their mentions but for the blacklist.
LEMMA HistoryHas ==
    ASSUME NEW news \in Seq(ReplayNews), NEW k \in 1 .. Len(news), NEW l \in BOOLEAN, NEW h \in Seq(ReplayNews),
           HistoryFits(h, l, news, k)
    PROVE  /\ DOMAIN h = 1 .. k
           /\ \A j \in 1 .. k : /\ (~l => h[j] = news[j]) /\ h[j].made = news[j].made
                                /\ \A t : t \notin Blacklist => (Mentions(h[j], t) <=> Mentions(news[j], t))
  <1>1. DOMAIN h = 1 .. k
    BY DEF HistoryFits
  <1>2. ASSUME NEW j \in 1 .. k
        PROVE  /\ (~l => h[j] = news[j]) /\ h[j].made = news[j].made
               /\ \A t : t \notin Blacklist => (Mentions(h[j], t) <=> Mentions(news[j], t))
    <2>1. news[j] \in ReplayNews
      <3>1. j \in 1 .. Len(news)
        OBVIOUS
      <3>2. QED
        BY <3>1, ElementOfSeq
    <2>2. h[j] = Stripped(news[j], l)
      BY DEF HistoryFits
    <2>3. QED
      BY <2>1, <2>2, StrippedEvent
  <1>3. QED
    BY <1>1, <1>2

\* The history of an arm with the blacklist is that of one without to a ticker off it.
LEMMA HistoriesAgree ==
    ASSUME NEW news \in Seq(ReplayNews), NEW k \in 1 .. Len(news), NEW h1 \in Seq(ReplayNews), NEW h2 \in Seq(ReplayNews),
           HistoryFits(h1, TRUE, news, k), HistoryFits(h2, FALSE, news, k)
    PROVE  \A x, t : t \notin Blacklist => PastOf(h1, x, t) = PastOf(h2, x, t)
  <1>0. PICK l1 \in BOOLEAN, l2 \in BOOLEAN : HistoryFits(h1, l1, news, k) /\ HistoryFits(h2, l2, news, k)
    OBVIOUS
  <1>1. DOMAIN h1 = 1 .. k /\ DOMAIN h2 = 1 .. k
    BY <1>0, HistoryHas
  <1>2. ASSUME NEW j \in 1 .. k
        PROVE  h1[j].made = h2[j].made /\ \A t : t \notin Blacklist => (Mentions(h1[j], t) <=> Mentions(h2[j], t))
    <2>1. h1[j].made = news[j].made /\ \A t : t \notin Blacklist => (Mentions(h1[j], t) <=> Mentions(news[j], t))
      BY <1>0, HistoryHas
    <2>2. h2[j].made = news[j].made /\ \A t : t \notin Blacklist => (Mentions(h2[j], t) <=> Mentions(news[j], t))
      BY <1>0, HistoryHas
    <2>3. QED
      BY <2>1, <2>2
  <1>3. QED
    BY <1>1, <1>2 DEF PastOf

\* Without the blacklist the news counted are those of the file.
LEMMA HistoryIsSeen ==
    ASSUME NEW news \in Seq(ReplayNews), NEW k \in 1 .. Len(news), NEW h \in Seq(ReplayNews), HistoryFits(h, FALSE, news, k)
    PROVE  \A t : PastOf(h, news[k], t) = PastAt(news, k, t)
  <1>0. PICK l \in BOOLEAN : ~l /\ HistoryFits(h, l, news, k)
    OBVIOUS
  <1>1. DOMAIN h = 1 .. k /\ \A j \in 1 .. k : h[j] = news[j]
    BY <1>0, HistoryHas
  <1>2. QED
    BY <1>1 DEF PastOf, PastAt

\* Concatenations, piece by piece.
LEMMA TwoPieces ==
    ASSUME NEW T, NEW s \in Seq(T), NEW u \in Seq(T), NEW r, r = s \o u
    PROVE  /\ r \in Seq(T) /\ Len(s) \in Nat /\ Len(u) \in Nat /\ Len(r) = Len(s) + Len(u)
           /\ DOMAIN s = 1 .. Len(s) /\ DOMAIN u = 1 .. Len(u) /\ DOMAIN r = 1 .. Len(s) + Len(u)
           /\ \A i \in 1 .. Len(s) : r[i] = s[i]
           /\ \A i \in 1 .. Len(u) : r[Len(s) + i] = u[i]
           /\ \A j \in DOMAIN r : j \in 1 .. Len(s) \/ \E i \in 1 .. Len(u) : j = Len(s) + i
  <1>1. PICK m \in Nat : m = Len(s) /\ DOMAIN s = 1 .. m
    OBVIOUS
  <1>2. PICK n \in Nat : n = Len(u) /\ DOMAIN u = 1 .. n
    OBVIOUS
  <1>3. r \in Seq(T) /\ Len(r) = m + n /\ \A i \in 1 .. m + n : r[i] = IF i <= m THEN s[i] ELSE u[i - m]
    BY <1>1, <1>2, ConcatProperties
  <1>4. DOMAIN r = 1 .. m + n
    BY <1>3
  <1>5. \A i \in 1 .. m : r[i] = s[i]
    BY <1>3
  <1>6. \A i \in 1 .. n : r[m + i] = u[i]
    <2> TAKE i \in 1 .. n
    <2>1. m + i \in 1 .. m + n /\ ~(m + i <= m) /\ (m + i) - m = i
      OBVIOUS
    <2>2. QED
      BY <1>3, <2>1
  <1>7. \A j \in 1 .. m + n : j \in 1 .. m \/ \E i \in 1 .. n : j = m + i
    <2> TAKE j \in 1 .. m + n
    <2>1. CASE j <= m
      BY <2>1
    <2>2. CASE ~(j <= m)
      <3>1. j - m \in 1 .. n /\ j = m + (j - m)
        BY <2>2
      <3>2. QED
        BY <3>1
    <2>3. QED
      BY <2>1, <2>2
  <1>8. QED
    BY <1>1, <1>2, <1>3, <1>4, <1>5, <1>6, <1>7

\* The predictions q are the predictions old and c more for the news k; now and before are
\* those of them that are about a news of U.
GrownBy(s, c, k, U, old, q, isIn, wasIn) ==
    /\ DOMAIN q = 1 .. s + c
    /\ \A i \in 1 .. s : q[i] = old[i]
    /\ \A i \in 1 .. c : q[s + i].news = k
    /\ isIn = {i \in DOMAIN q : q[i].news \in U}
    /\ wasIn = {i \in 1 .. s : old[i].news \in U}

LEMMA PositionsGrow ==
    ASSUME NEW s \in Nat, NEW c \in Nat, NEW k, NEW U, NEW old, NEW q, NEW isIn, NEW wasIn,
           GrownBy(s, c, k, U, old, q, isIn, wasIn)
    PROVE  /\ k \in U => isIn = wasIn \cup s + 1 .. s + c
           /\ k \notin U => isIn = wasIn
  <1>1. 1 .. s + c = 1 .. s \cup s + 1 .. s + c /\ 1 .. s \cap s + 1 .. s + c = {}
    OBVIOUS
  <1>2. \A j \in s + 1 .. s + c : q[j].news = k
    <2> TAKE j \in s + 1 .. s + c
    <2>1. PICK i \in 1 .. c : j = s + i
      <3>1. j - s \in 1 .. c /\ j = s + (j - s)
        OBVIOUS
      <3>2. QED
        BY <3>1
    <2>2. QED
      BY <2>1 DEF GrownBy
  <1>3. QED
    BY <1>1, <1>2 DEF GrownBy

LEMMA ReplayEventKeeps == ReplayInv /\ ReplayEvent => ReplayInv'
  <1> SUFFICES ASSUME ReplayInv, ReplayEvent PROVE ReplayInv'
    OBVIOUS
  <1> DEFINE newsOf(l) == Stripped(replayed[position + 1], l)
             grown    == [l \in BOOLEAN |-> Append(histories[l], newsOf(l))]
             new(q)   == [l \in BOOLEAN |-> PredictionsFor(newsOf(l), grown[l], q)]
             said(q, a, side, gate) ==
                 [i \in DOMAIN new(q)[a.listed] |->
                     DecideInReplay(a, newsOf(a.listed), new(q)[a.listed][i], side[new(q)[a.listed][i]], gate)]
  <1>1. /\ replayDone = "no" /\ position < Len(replayed) /\ position' = position + 1
        /\ replayFile' = replayFile /\ replayed' = replayed /\ fills' = fills /\ replayDone' = replayDone
        /\ histories' = grown
    BY DEF ReplayEvent
  <1>2. PICK quoted \in {ReplayTickers, ReplayTickers \ Blacklist}, gate \in {"open", "market", "stale"} :
            /\ predictions' = [l \in BOOLEAN |-> predictions[l] \o new(quoted)[l]]
            /\ \E side \in [ToSet(new(quoted)[TRUE]) \cup ToSet(new(quoted)[FALSE]) -> {"long", "short", "none"}] :
                  decided' = [a \in Arms |-> decided[a] \o said(quoted, a, side, gate)]
    BY Zenon DEF ReplayEvent
  <1>30. PICK side : decided' = [a \in Arms |-> decided[a] \o said(quoted, a, side, gate)]
    BY <1>2
  <1>3. PICK k \in Nat : k = position + 1 /\ k \in 1 .. Len(replayed) /\ k <= Len(replayed) /\ k \in 1 .. k /\ position \in Nat
    BY <1>1 DEF ReplayInv
  <1>4. PICK x \in ReplayNews : x = replayed[k]
    <2>1. replayed[k] \in ReplayNews
      BY <1>3, ElementOfSeq DEF ReplayInv
    <2>2. QED
      BY <2>1
  <1>5. PICK e \in [BOOLEAN -> ReplayNews] : \A l \in BOOLEAN : e[l] = Stripped(x, l) /\ e[l] = newsOf(l)
    <2>1. \A l \in BOOLEAN : Stripped(x, l) \in ReplayNews
      BY StrippedEvent
    <2>2. [l \in BOOLEAN |-> Stripped(x, l)] \in [BOOLEAN -> ReplayNews]
      BY <2>1
    <2>3. QED
      BY <1>3, <1>4, <2>2
  <1>6. PICK h : h = grown
    OBVIOUS
  <1>7. ASSUME NEW l \in BOOLEAN
        PROVE  h[l] \in Seq(ReplayNews) /\ Len(h[l]) = k /\ HistoryFits(h[l], l, replayed, k)
    <2>1. PICK old \in Seq(ReplayNews) : old = histories[l] /\ HistoryFits(old, l, replayed, position)
      BY DEF ReplayInv
    <2>2. h[l] = Append(old, e[l])
      BY <1>5, <1>6, <2>1
    <2>3. Len(old) = position /\ \A j \in 1 .. position : old[j] = Stripped(replayed[j], l)
      BY <2>1 DEF HistoryFits
    <2>4. /\ h[l] \in Seq(ReplayNews) /\ Len(h[l]) = position + 1 /\ h[l][position + 1] = e[l]
          /\ \A j \in 1 .. position : h[l][j] = old[j]
      BY <1>5, <2>2, <2>3, AppendProperties
    <2>5. ASSUME NEW j \in 1 .. k PROVE h[l][j] = Stripped(replayed[j], l)
      <3>1. CASE j = k
        BY <1>3, <1>4, <1>5, <2>4, <3>1
      <3>2. CASE j # k
        <4>1. j \in 1 .. position
          BY <1>3, <3>2
        <4>2. QED
          BY <2>3, <2>4, <4>1
      <3>3. QED
        BY <3>1, <3>2
    <2>6. QED
      BY <1>3, <2>4, <2>5 DEF HistoryFits
  <1>8. PICK u : u = new(quoted)
    OBVIOUS
  <1>9. \A l \in BOOLEAN : u[l] = PredictionsFor(e[l], h[l], quoted)
    BY <1>5, <1>6, <1>8
  <1>10. ASSUME NEW l \in BOOLEAN
         PROVE  /\ u[l] \in Seq(PredictionShape) /\ Len(u[l]) \in Nat /\ DOMAIN u[l] = 1 .. Len(u[l])
                /\ \A i \in DOMAIN u[l] : /\ u[l][i].news = k /\ Mentions(e[l], u[l][i].ticker)
                                          /\ u[l][i].past = PastOf(h[l], e[l], u[l][i].ticker)
    BY <1>5, <1>7, <1>9, NewPredictions
  <1>11. PICK p : p = predictions'
    OBVIOUS
  <1>12. p = [l \in BOOLEAN |-> predictions[l] \o u[l]]
    BY <1>2, <1>8, <1>11
  <1>13. ASSUME NEW l \in BOOLEAN
         PROVE  /\ p[l] \in Seq(PredictionShape) /\ Len(predictions[l]) \in Nat /\ Len(p[l]) = Len(predictions[l]) + Len(u[l])
                /\ DOMAIN predictions[l] = 1 .. Len(predictions[l]) /\ DOMAIN p[l] = 1 .. Len(predictions[l]) + Len(u[l])
                /\ \A i \in 1 .. Len(predictions[l]) : p[l][i] = predictions[l][i]
                /\ \A i \in 1 .. Len(u[l]) : p[l][Len(predictions[l]) + i] = u[l][i]
                /\ \A j \in DOMAIN p[l] : j \in 1 .. Len(predictions[l]) \/ \E i \in 1 .. Len(u[l]) : j = Len(predictions[l]) + i
    <2>1. predictions[l] \in Seq(PredictionShape) /\ u[l] \in Seq(PredictionShape)
      BY <1>10 DEF ReplayInv
    <2>2. p[l] = predictions[l] \o u[l]
      BY <1>12
    <2>3. PICK s, v, r : s = predictions[l] /\ v = u[l] /\ r = p[l]
      OBVIOUS
    <2>4. s \in Seq(PredictionShape) /\ v \in Seq(PredictionShape) /\ r = s \o v
      BY <2>1, <2>2, <2>3
    <2>5. /\ r \in Seq(PredictionShape) /\ Len(s) \in Nat /\ Len(v) \in Nat /\ Len(r) = Len(s) + Len(v)
          /\ DOMAIN s = 1 .. Len(s) /\ DOMAIN v = 1 .. Len(v) /\ DOMAIN r = 1 .. Len(s) + Len(v)
      BY <2>4, TwoPieces
    <2>6. /\ \A i \in 1 .. Len(s) : r[i] = s[i]
          /\ \A i \in 1 .. Len(v) : r[Len(s) + i] = v[i]
      BY <2>4, TwoPieces
    <2>7. \A j \in DOMAIN r : j \in 1 .. Len(s) \/ \E i \in 1 .. Len(v) : j = Len(s) + i
      BY <2>4, TwoPieces
    <2>8. QED
      BY ONLY <2>3, <2>5, <2>6, <2>7
  <1>14. p \in [BOOLEAN -> Seq(PredictionShape)]
    BY <1>12, <1>13
  <1>15. ASSUME NEW l \in BOOLEAN, NEW j \in DOMAIN p[l] PROVE PredictionFits(p[l][j], l, replayed, k)
    <2>1. CASE j \in 1 .. Len(predictions[l])
      <3>1. p[l][j] = predictions[l][j] /\ j \in DOMAIN predictions[l]
        BY <1>13, <2>1
      <3>2. PredictionFits(predictions[l][j], l, replayed, position)
        BY <3>1 DEF ReplayInv
      <3>3. predictions[l][j].news \in 1 .. position
        BY <3>2 DEF PredictionFits
      <3>4. predictions[l][j].news \in 1 .. k
        BY <1>3, <3>3
      <3>5. QED
        BY <3>1, <3>2, <3>4 DEF PredictionFits
    <2>2. CASE j \notin 1 .. Len(predictions[l])
      <3>1. PICK i \in DOMAIN u[l] : p[l][j] = u[l][i]
        <4>1. PICK i \in 1 .. Len(u[l]) : j = Len(predictions[l]) + i
          BY <1>13, <1>15, <2>2
        <4>2. p[l][j] = u[l][i] /\ i \in DOMAIN u[l]
          BY <1>10, <1>13, <4>1
        <4>3. QED
          BY <4>2
      <3>2. PICK q, t : q = u[l][i] /\ t = q.ticker
        OBVIOUS
      <3>3. q.news = k /\ Mentions(e[l], t) /\ q.past = PastOf(h[l], e[l], t)
        BY <1>10, <3>2
      <3>4. l => t \notin Blacklist
        BY <1>5, <3>3, StrippedEvent
      <3>5. ~l => q.past = PastAt(replayed, k, t)
        <4>1. SUFFICES ASSUME ~l PROVE q.past = PastAt(replayed, k, t)
          OBVIOUS
        <4>2. l = FALSE /\ e[l] = x
          BY <1>5, <4>1, StrippedEvent
        <4>3. HistoryFits(h[TRUE], TRUE, replayed, k) /\ HistoryFits(h[FALSE], FALSE, replayed, k)
          BY <1>7
        <4>4. h[TRUE] \in Seq(ReplayNews) /\ h[FALSE] \in Seq(ReplayNews) /\ replayed \in Seq(ReplayNews)
          BY <1>7 DEF ReplayInv
        <4>5. PastOf(h[FALSE], x, t) = PastAt(replayed, k, t)
          <5>1. PICK g \in Seq(ReplayNews) : g = h[FALSE]
            BY <4>4
          <5>2. k \in 1 .. Len(replayed) /\ HistoryFits(g, FALSE, replayed, k) /\ replayed \in Seq(ReplayNews)
            BY <1>3, <4>3, <4>4, <5>1
          <5>3. \A y : PastOf(g, replayed[k], y) = PastAt(replayed, k, y)
            BY <5>2, HistoryIsSeen
          <5>4. QED
            BY <1>4, <5>1, <5>3
        <4>6. QED
          BY <3>3, <4>2, <4>5
      <3>6. QED
        BY <1>3, <3>1, <3>2, <3>3, <3>4, <3>5 DEF PredictionFits
    <2>3. QED
      BY <2>1, <2>2
  <1>16. SameAt(p[TRUE], Left(TRUE)', p[FALSE], Left(FALSE)')
    <2>1. Untouched' = Untouched
      BY <1>1 DEF Untouched
    <2>2. \A l \in BOOLEAN : /\ Left(l)' = {i \in DOMAIN p[l] : p[l][i].news \in Untouched}
                             /\ Left(l) = {i \in 1 .. Len(predictions[l]) : predictions[l][i].news \in Untouched}
      BY <1>11, <1>13, <2>1 DEF Left
    <2>3. SameAt(predictions[TRUE], Left(TRUE), predictions[FALSE], Left(FALSE))
      BY DEF ReplayInv
    <2>4. \A l \in BOOLEAN : \A i \in Left(l) : i \in 1 .. Len(predictions[l]) /\ p[l][i] = predictions[l][i]
      BY <1>13, <2>2
    <2>5. CASE k \in Untouched
      <3>1. e[TRUE] = x /\ e[FALSE] = x
        BY <1>4, <1>5, <2>5, StrippedEvent DEF Untouched
      <3>2. u[TRUE] = u[FALSE]
        <4>1. \A t : Mentions(x, t) => t \notin Blacklist
          BY <1>5, <3>1, StrippedEvent
        <4>2. HistoryFits(h[TRUE], TRUE, replayed, k) /\ HistoryFits(h[FALSE], FALSE, replayed, k)
          BY <1>7
        <4>3. h[TRUE] \in Seq(ReplayNews) /\ h[FALSE] \in Seq(ReplayNews) /\ replayed \in Seq(ReplayNews)
          BY <1>7 DEF ReplayInv
        <4>4. \A t : Mentions(x, t) => PastOf(h[TRUE], x, t) = PastOf(h[FALSE], x, t)
          <5>1. PICK g1 \in Seq(ReplayNews), g2 \in Seq(ReplayNews) : g1 = h[TRUE] /\ g2 = h[FALSE]
            BY <4>3
          <5>2. k \in 1 .. Len(replayed) /\ HistoryFits(g1, TRUE, replayed, k) /\ HistoryFits(g2, FALSE, replayed, k)
            BY <1>3, <4>2, <5>1
          <5>3. \A y, t : t \notin Blacklist => PastOf(g1, y, t) = PastOf(g2, y, t)
            BY <4>3, <5>2, HistoriesAgree
          <5>4. QED
            BY <4>1, <5>1, <5>3
        <4>5. Len(h[TRUE]) = Len(h[FALSE])
          BY <1>7
        <4>6. PredictionsFor(x, h[TRUE], quoted) = PredictionsFor(x, h[FALSE], quoted)
          <5>1. PICK g1, g2, covered : g1 = h[TRUE] /\ g2 = h[FALSE] /\ covered = quoted
            OBVIOUS
          <5>2. Len(g1) = Len(g2) /\ x \in ReplayNews /\ \A t : Mentions(x, t) => PastOf(g1, x, t) = PastOf(g2, x, t)
            BY <1>4, <4>4, <4>5, <5>1
          <5>3. PredictionsFor(x, g1, covered) = PredictionsFor(x, g2, covered)
            BY ONLY <5>2, SamePredictions
          <5>4. QED
            BY <5>1, <5>3
        <4>7. QED
          BY <1>9, <3>1, <4>6
      <3>3. PICK m \in Nat, n \in Nat, c \in Nat : m = Len(predictions[TRUE]) /\ n = Len(predictions[FALSE]) /\ c = Len(u[TRUE]) /\ c = Len(u[FALSE])
        BY <1>10, <1>13, <3>2
      <3>4. ASSUME NEW l \in BOOLEAN, NEW s \in Nat, s = Len(predictions[l]) PROVE Left(l)' = Left(l) \cup s + 1 .. s + c
        <4>1. c = Len(u[l])
          BY <3>3
        <4>2. PICK q, old : q = p[l] /\ old = predictions[l]
          OBVIOUS
        <4>3. DOMAIN q = 1 .. s + c /\ \A i \in 1 .. s : q[i] = old[i]
          BY <1>13, <3>4, <4>1, <4>2
        <4>4. \A i \in 1 .. c : q[s + i].news = k
          <5> TAKE i \in 1 .. c
          <5>1. q[s + i] = u[l][i]
            BY <1>13, <3>4, <4>1, <4>2
          <5>2. i \in DOMAIN u[l]
            BY <1>10, <3>4, <4>1, <4>2
          <5>3. QED
            BY <1>10, <5>1, <5>2
        <4>5. PICK isIn, wasIn : isIn = {i \in DOMAIN q : q[i].news \in Untouched} /\ wasIn = {i \in 1 .. s : old[i].news \in Untouched}
          OBVIOUS
        <4>6. isIn = wasIn \cup s + 1 .. s + c
          <5>1. PICK U : U = Untouched
            OBVIOUS
          <5>2. s \in Nat /\ c \in Nat /\ k \in U /\ GrownBy(s, c, k, U, old, q, isIn, wasIn)
            BY <2>5, <4>3, <4>4, <4>5, <5>1, <3>3, <3>4 DEF GrownBy
          <5>3. QED
            BY ONLY <5>2, PositionsGrow
        <4>7. QED
          BY <2>2, <3>4, <4>2, <4>5, <4>6
      <3>5. Left(TRUE)' = Left(TRUE) \cup m + 1 .. m + c /\ Left(FALSE)' = Left(FALSE) \cup n + 1 .. n + c
        BY <3>3, <3>4
      <3>6. Left(TRUE) \in SUBSET (1 .. m) /\ Left(FALSE) \in SUBSET (1 .. n)
        BY <2>4, <3>3
      <3>7. \A i \in 1 .. c : p[TRUE][m + i] = p[FALSE][n + i]
        <4>1. \A i \in 1 .. c : p[TRUE][m + i] = u[TRUE][i]
          BY <1>13, <3>3
        <4>2. \A i \in 1 .. c : p[FALSE][n + i] = u[FALSE][i]
          BY <1>13, <3>3
        <4>3. QED
          BY <3>2, <4>1, <4>2
      <3>8. (\A i \in Left(TRUE) : p[TRUE][i] = predictions[TRUE][i]) /\ \A i \in Left(FALSE) : p[FALSE][i] = predictions[FALSE][i]
        BY <2>4
      <3>9. PICK s, t, P, Q : s = predictions[TRUE] /\ t = predictions[FALSE] /\ P = Left(TRUE) /\ Q = Left(FALSE)
        OBVIOUS
      <3>10. PICK v, w, P2, Q2 : v = p[TRUE] /\ w = p[FALSE] /\ P2 = Left(TRUE)' /\ Q2 = Left(FALSE)'
        OBVIOUS
      <3>11. SameMoreOf(s, t, m, n, P, Q, c, v, w, P2, Q2)
        BY <2>3, <3>5, <3>6, <3>7, <3>8, <3>9, <3>10 DEF SameMoreOf
      <3>12. SameAt(v, P2, w, Q2)
        BY ONLY <3>11, m \in Nat, n \in Nat, c \in Nat, SameGrows
      <3>13. QED
        BY <3>10, <3>12
    <2>6. CASE k \notin Untouched
      <3>1. ASSUME NEW l \in BOOLEAN PROVE Left(l)' = Left(l)
        <4>1. PICK q, old : q = p[l] /\ old = predictions[l]
          OBVIOUS
        <4>2. PICK s \in Nat, c \in Nat : s = Len(predictions[l]) /\ c = Len(u[l])
          BY <1>10, <1>13
        <4>3. DOMAIN q = 1 .. s + c /\ \A i \in 1 .. s : q[i] = old[i]
          BY <1>13, <4>1, <4>2
        <4>4. \A i \in 1 .. c : q[s + i].news = k
          <5> TAKE i \in 1 .. c
          <5>1. q[s + i] = u[l][i]
            BY <1>13, <4>1, <4>2
          <5>2. i \in DOMAIN u[l]
            BY <1>10, <4>1, <4>2
          <5>3. QED
            BY <1>10, <5>1, <5>2
        <4>5. PICK isIn, wasIn : isIn = {i \in DOMAIN q : q[i].news \in Untouched} /\ wasIn = {i \in 1 .. s : old[i].news \in Untouched}
          OBVIOUS
        <4>6. isIn = wasIn
          <5>1. PICK U : U = Untouched
            OBVIOUS
          <5>2. s \in Nat /\ c \in Nat /\ k \notin U /\ GrownBy(s, c, k, U, old, q, isIn, wasIn)
            BY <2>6, <4>3, <4>4, <4>5, <5>1, <4>2 DEF GrownBy
          <5>3. k \notin U => isIn = wasIn
            BY ONLY <5>2, PositionsGrow
          <5>4. QED
            BY ONLY <5>2, <5>3
        <4>7. QED
          BY <2>2, <4>1, <4>2, <4>5, <4>6
      <3>2. Left(TRUE)' = Left(TRUE) /\ Left(FALSE)' = Left(FALSE)
        BY <3>1
      <3>3. SameAt(p[TRUE], Left(TRUE), p[FALSE], Left(FALSE))
        BY <2>3, <2>4, SameStays
      <3>4. QED
        BY <3>2, <3>3
    <2>7. QED
      BY <2>5, <2>6
  <1>17. PICK d : d = decided'
    OBVIOUS
  <1> DEFINE replies(a) == [i \in DOMAIN u[a.listed] |->
                               DecideInReplay(a, e[a.listed], u[a.listed][i], side[u[a.listed][i]], gate)]
  <1>18. \A a \in Arms : d[a] = decided[a] \o replies(a)
    <2>1. \A a \in Arms : said(quoted, a, side, gate) = replies(a)
      BY <1>5, <1>8, ArmsAre
    <2>2. QED
      BY <1>30, <1>17, <2>1
  <1>19. ASSUME NEW a \in Arms
         PROVE  /\ replies(a) \in Seq(ReplayAnswers) /\ Len(replies(a)) = Len(u[a.listed])
                /\ DOMAIN replies(a) = 1 .. Len(u[a.listed])
    <2>1. PICK n \in Nat : n = Len(u[a.listed]) /\ DOMAIN u[a.listed] = 1 .. n
      BY <1>10, ArmsAre
    <2>2. \A i \in 1 .. n : replies(a)[i] \in ReplayAnswers
      BY <1>2, <2>1, ArmsAre, DecideIsAnswer
    <2>3. replies(a) \in [1 .. n -> ReplayAnswers]
      BY <2>1, <2>2
    <2>4. QED
      BY <2>1, <2>3
  <1> HIDE DEF replies
  <1>20. ASSUME NEW a \in Arms
         PROVE  /\ d[a] \in Seq(ReplayAnswers) /\ Len(decided[a]) = Len(predictions[a.listed])
                /\ Len(d[a]) = Len(p[a.listed]) /\ DOMAIN d[a] = 1 .. Len(predictions[a.listed]) + Len(u[a.listed])
                /\ \A i \in 1 .. Len(predictions[a.listed]) : d[a][i] = decided[a][i]
                /\ \A i \in 1 .. Len(u[a.listed]) : d[a][Len(predictions[a.listed]) + i] = replies(a)[i]
    <2>1. decided[a] \in Seq(ReplayAnswers) /\ Len(decided[a]) = Len(predictions[a.listed])
      BY DEF ReplayInv
    <2>2. a.listed \in BOOLEAN
      BY ArmsAre
    <2>3. PICK s, w : s = decided[a] /\ w = replies(a) /\ s \in Seq(ReplayAnswers) /\ w \in Seq(ReplayAnswers) /\ d[a] = s \o w
      BY <1>18, <1>19, <2>1
    <2>4. /\ d[a] \in Seq(ReplayAnswers) /\ Len(d[a]) = Len(s) + Len(w) /\ DOMAIN d[a] = 1 .. Len(s) + Len(w)
          /\ \A i \in 1 .. Len(s) : d[a][i] = s[i]
          /\ \A i \in 1 .. Len(w) : d[a][Len(s) + i] = w[i]
      BY <2>3, TwoPieces
    <2>5. Len(w) = Len(u[a.listed]) /\ Len(s) = Len(predictions[a.listed])
      BY <1>19, <2>1, <2>3
    <2>6. QED
      BY <1>13, <2>1, <2>2, <2>3, <2>4, <2>5
  <1>21. d \in [Arms -> Seq(ReplayAnswers)]
    <2>1. d = [a \in Arms |-> decided[a] \o said(quoted, a, side, gate)]
      BY <1>30, <1>17
    <2>2. QED
      BY <1>20, <2>1
  <1>22. ASSUME NEW l \in BOOLEAN PROVE Nested(d[ArmOf("strict", l)], d[ArmOf("lenient", l)], d[ArmOf("none", l)])
    <2>1. PICK a, b, c : a = ArmOf("strict", l) /\ b = ArmOf("lenient", l) /\ c = ArmOf("none", l)
      OBVIOUS
    <2>2. a \in Arms /\ b \in Arms /\ c \in Arms /\ a.listed = l /\ b.listed = l /\ c.listed = l
      BY <2>1, ArmsAre DEF Filters
    <2>3. Nested(decided[a], decided[b], decided[c])
      BY <2>1 DEF ReplayInv
    <2>4. \A i \in 1 .. Len(u[l]) : /\ replies(a)[i] = "execute" => replies(b)[i] = "execute"
                                    /\ replies(b)[i] = "execute" => replies(c)[i] = "execute"
      <3> TAKE i \in 1 .. Len(u[l])
      <3>1. i \in DOMAIN u[l]
        BY <1>10
      <3>2. PICK q, si : q = u[l][i] /\ si = side[q]
        OBVIOUS
      <3>3. /\ replies(a)[i] = DecideInReplay(a, e[l], q, si, gate)
            /\ replies(b)[i] = DecideInReplay(b, e[l], q, si, gate)
            /\ replies(c)[i] = DecideInReplay(c, e[l], q, si, gate)
        BY <2>2, <3>1, <3>2 DEF replies
      <3>4. /\ DecideInReplay(a, e[l], q, si, gate) = "execute" => DecideInReplay(b, e[l], q, si, gate) = "execute"
            /\ DecideInReplay(b, e[l], q, si, gate) = "execute" => DecideInReplay(c, e[l], q, si, gate) = "execute"
        <4>1. PICK y : y = e[l]
          OBVIOUS
        <4>2. /\ DecideInReplay(ArmOf("strict", l), y, q, si, gate) = "execute" => DecideInReplay(ArmOf("lenient", l), y, q, si, gate) = "execute"
              /\ DecideInReplay(ArmOf("lenient", l), y, q, si, gate) = "execute" => DecideInReplay(ArmOf("none", l), y, q, si, gate) = "execute"
          <5>1. gate \in {"open", "market", "stale"}
            BY <1>2
          <5>2. QED
            BY ONLY <5>1, DecideNested
        <4>3. QED
          BY <2>1, <4>1, <4>2
      <3>5. QED
        BY ONLY <3>3, <3>4
    <2>5. ASSUME NEW i \in DOMAIN d[a]
          PROVE  (d[a][i] = "execute" => d[b][i] = "execute") /\ (d[b][i] = "execute" => d[c][i] = "execute")
      <3>1. CASE i \in 1 .. Len(predictions[l])
        <4>1. d[a][i] = decided[a][i] /\ d[b][i] = decided[b][i] /\ d[c][i] = decided[c][i]
          BY <1>20, <2>2, <3>1
        <4>2. i \in DOMAIN decided[a]
          <5>1. decided[a] \in Seq(ReplayAnswers) /\ Len(decided[a]) = Len(predictions[l])
            BY <1>20, <2>2 DEF ReplayInv
          <5>2. QED
            BY <3>1, <5>1
        <4>3. QED
          BY <2>3, <4>1, <4>2 DEF Nested
      <3>2. CASE i \notin 1 .. Len(predictions[l])
        <4>1. i \in DOMAIN p[l]
          BY <1>13, <1>20, <2>2, <2>5
        <4>2. PICK j \in 1 .. Len(u[l]) : i = Len(predictions[l]) + j
          BY <1>13, <3>2, <4>1
        <4>3. d[a][i] = replies(a)[j] /\ d[b][i] = replies(b)[j] /\ d[c][i] = replies(c)[j]
          <5> DEFINE after(y) == \A n \in 1 .. Len(u[y.listed]) : d[y][Len(predictions[y.listed]) + n] = replies(y)[n]
          <5>0. after(a) /\ after(b) /\ after(c)
            BY <1>20, <2>2
          <5>1. d[a][i] = replies(a)[j]
            BY <2>2, <4>2, <5>0
          <5>2. d[b][i] = replies(b)[j]
            BY <2>2, <4>2, <5>0
          <5>3. d[c][i] = replies(c)[j]
            BY <2>2, <4>2, <5>0
          <5>4. QED
            BY <5>1, <5>2, <5>3
        <4>4. QED
          BY <2>4, <4>3
      <3>3. QED
        BY <3>1, <3>2
    <2>6. QED
      BY <2>1, <2>5 DEF Nested
  <1>23. ASSUME NEW a \in Arms PROVE fills[a].trades + fills[a].without <= Cardinality(Executed(a)')
    <2>1. fills[a] = [trades |-> 0, without |-> 0]
      BY <1>1 DEF ReplayInv
    <2>2. PICK n \in Nat : DOMAIN d[a] = 1 .. n
      <3>1. d[a] \in Seq(ReplayAnswers)
        BY <1>20
      <3>2. QED
        BY <3>1
    <2>3. Executed(a)' \subseteq 1 .. n
      BY <1>17, <2>2 DEF Executed
    <2>4. IsFiniteSet(Executed(a)')
      <3>1. IsFiniteSet(1 .. n)
        BY FS_Interval
      <3>2. QED
        BY <2>3, <3>1, FS_Subset
    <2>5. Cardinality(Executed(a)') \in Nat
      BY <2>4, FS_CardinalityType
    <2>6. fills[a].trades = 0 /\ fills[a].without = 0
      BY <2>1
    <2>7. QED
      BY <2>5, <2>6
  <1>24. h \in [BOOLEAN -> Seq(ReplayNews)]
    <2>1. h = [l \in BOOLEAN |-> Append(histories[l], newsOf(l))]
      BY <1>6
    <2>2. QED
      BY <1>7, <2>1
  <1>25. position' = k /\ k \in 0 .. Len(replayed) /\ histories' = h
    BY <1>1, <1>3, <1>6
  <1> HIDE DEF newsOf, grown, new, said
  <1>26. \A a \in Arms : Len(d[a]) = Len(p[a.listed])
    BY <1>20
  <1>27. QED
    BY <1>1, <1>7, <1>11, <1>14, <1>15, <1>16, <1>17, <1>21, <1>22, <1>23, <1>24, <1>25, <1>26 DEF ReplayInv


LEMMA ReplayStep == ReplayInv /\ [WindowReplayNext]_windowReplayVars => ReplayInv'
  <1> SUFFICES ASSUME ReplayInv, [WindowReplayNext]_windowReplayVars PROVE ReplayInv'
    OBVIOUS
  <1>1. CASE LoadWindow
    BY <1>1, LoadWindowKeeps
  <1>2. CASE ReplayEvent
    BY <1>2, ReplayEventKeeps
  <1>3. CASE InferenceFailsInReplay
    BY <1>3, InferenceKeeps
  <1>4. CASE SimulateFills
    BY <1>4, SimulateKeeps
  <1>5. CASE UNCHANGED windowReplayVars
    <2>1. /\ replayFile' = replayFile /\ replayed' = replayed /\ position' = position /\ histories' = histories
          /\ predictions' = predictions /\ decided' = decided /\ fills' = fills /\ replayDone' = replayDone
      BY <1>5 DEF windowReplayVars
    <2>2. Left(TRUE)' = Left(TRUE) /\ Left(FALSE)' = Left(FALSE)
      BY <2>1, LeftStays
    <2>3. \A a \in Arms : Executed(a)' = Executed(a)
      BY <2>1 DEF Executed
    <2>4. SameAt(predictions'[TRUE], Left(TRUE)', predictions'[FALSE], Left(FALSE)')
      BY <2>1, <2>2 DEF ReplayInv
    <2>5. \A a \in Arms : fills'[a].trades + fills'[a].without <= Cardinality(Executed(a)')
      BY <2>1, <2>3 DEF ReplayInv
    <2>6. QED
      BY <2>1, <2>4, <2>5 DEF ReplayInv
  <1>6. QED
    BY <1>1, <1>2, <1>3, <1>4, <1>5 DEF WindowReplayNext

LEMMA ReplayInvHolds == WindowReplaySpec => []ReplayInv
  BY ReplayStart, ReplayStep, PTL DEF WindowReplaySpec

LEMMA ReplayTypes == ReplayInv => WindowReplayTypeOK
  <1> SUFFICES ASSUME ReplayInv PROVE WindowReplayTypeOK
    OBVIOUS
  <1>1. replayFile \in ReplayFiles /\ position \in 0 .. Len(replayed) /\ replayDone \in {"no", "report", "failed"}
    BY DEF ReplayInv
  <1>2. \A l \in BOOLEAN : Len(histories[l]) = position
    BY DEF ReplayInv, HistoryFits
  <1>3. ASSUME NEW a \in Arms
        PROVE  /\ Len(decided[a]) = Len(predictions[a.listed]) /\ ToSet(decided[a]) \subseteq Refusals \cup {"execute"}
               /\ fills[a].trades \in Nat /\ fills[a].without \in Nat
    <2>1. decided[a] \in Seq(ReplayAnswers) /\ Len(decided[a]) = Len(predictions[a.listed]) /\ fills[a] \in ReplayFills
      BY DEF ReplayInv
    <2>2. \A i \in DOMAIN decided[a] : decided[a][i] \in ReplayAnswers
      BY <2>1, ElementOfSeq
    <2>3. QED
      BY <2>1, <2>2 DEF ToSet, ReplayAnswers, ReplayFills
  <1>4. QED
    BY <1>1, <1>2, <1>3 DEF WindowReplayTypeOK

\* The replay of a window keeps its shape: as many answers as predictions, in every arm.
LEMMA WindowReplayTypeOKHolds == WindowReplaySpec => []WindowReplayTypeOK
  BY ReplayInvHolds, ReplayTypes, PTL

\* What a stronger filter lets through, a weaker one does too.
LEMMA ArmsAreNested == ReplayInv => FiltersAreNested
  <1> SUFFICES ASSUME ReplayInv, NEW l \in BOOLEAN
               PROVE  /\ Executed([filter |-> "strict", listed |-> l]) \subseteq Executed([filter |-> "lenient", listed |-> l])
                      /\ Executed([filter |-> "lenient", listed |-> l]) \subseteq Executed([filter |-> "none", listed |-> l])
    BY DEF FiltersAreNested
  <1>1. PICK a, b, c : a = ArmOf("strict", l) /\ b = ArmOf("lenient", l) /\ c = ArmOf("none", l)
    OBVIOUS
  <1>2. a \in Arms /\ b \in Arms /\ c \in Arms /\ a.listed = l /\ b.listed = l /\ c.listed = l
    BY <1>1, ArmsAre DEF Filters
  <1>3. PICK n \in Nat : n = Len(predictions[l])
    BY DEF ReplayInv
  <1>4. \A y \in {a, b, c} : decided[y] \in Seq(ReplayAnswers) /\ Len(decided[y]) = n
    BY <1>2, <1>3 DEF ReplayInv
  <1>5. DOMAIN decided[a] = 1 .. n /\ DOMAIN decided[b] = 1 .. n /\ DOMAIN decided[c] = 1 .. n
    BY <1>4
  <1>6. Nested(decided[a], decided[b], decided[c])
    BY <1>1 DEF ReplayInv
  <1>7. Executed(a) \subseteq Executed(b) /\ Executed(b) \subseteq Executed(c)
    BY <1>5, <1>6 DEF Nested, Executed
  <1>8. QED
    BY <1>1, <1>7 DEF ArmOf

\* The blacklist touches only what names it.
LEMMA BlacklistStaysLocal == ReplayInv => BlacklistIsLocal
  <1> SUFFICES ASSUME ReplayInv PROVE BlacklistIsLocal
    OBVIOUS
  <1>1. \A i \in DOMAIN predictions[TRUE] : predictions[TRUE][i].ticker \notin Blacklist
    <2>1. PICK l \in BOOLEAN : l /\ l = TRUE
      OBVIOUS
    <2>2. \A i \in DOMAIN predictions[l] : PredictionFits(predictions[l][i], l, replayed, position)
      BY DEF ReplayInv
    <2>3. QED
      BY <2>1, <2>2 DEF PredictionFits
  <1>2. SameAt(predictions[TRUE], Left(TRUE), predictions[FALSE], Left(FALSE))
    BY DEF ReplayInv
  <1>3. QED
    BY <1>1, <1>2 DEF BlacklistIsLocal

\* The news that had come out of the enricher before a news was published come before it in
\* the file: so the history of the replay has them all, and nothing else is counted.
LEMMA HistoryStaysLive == ReplayInv => HistoryIsAsLive
  <1> SUFFICES ASSUME ReplayInv, NEW i \in DOMAIN predictions[FALSE]
               PROVE  predictions[FALSE][i].past =
                        {j \in DOMAIN replayed :
                            /\ Mentions(replayed[j], predictions[FALSE][i].ticker)
                            /\ replayed[j].made < replayed[predictions[FALSE][i].news].made
                            /\ replayed[predictions[FALSE][i].news].at - replayed[j].made \in 1 .. HistoryHours}
    BY DEF HistoryIsAsLive
  <1>1. PICK p : p = predictions[FALSE][i]
    OBVIOUS
  <1>2. PICK k, t : k = p.news /\ t = p.ticker
    OBVIOUS
  <1>3. PICK n \in Nat : n = Len(replayed) /\ DOMAIN replayed = 1 .. n
    BY DEF ReplayInv
  <1>4. k \in 1 .. n /\ p.past = PastAt(replayed, k, t)
    <2>1. PICK l \in BOOLEAN : ~l /\ l = FALSE
      OBVIOUS
    <2>2. \A y \in DOMAIN predictions[l] : PredictionFits(predictions[l][y], l, replayed, position)
      BY DEF ReplayInv
    <2>3. PredictionFits(p, l, replayed, position)
      BY <1>1, <2>1, <2>2
    <2>4. position \in 0 .. n
      BY <1>3 DEF ReplayInv
    <2>5. p.news \in 1 .. position /\ p.past = PastAt(replayed, p.news, p.ticker)
      BY <2>1, <2>3 DEF PredictionFits
    <2>6. QED
      BY <1>2, <2>4, <2>5
  <1>5. PICK at \in [1 .. n -> Nat], made \in [1 .. n -> Nat] : \A j \in 1 .. n : at[j] = replayed[j].at /\ made[j] = replayed[j].made
    <2>1. \A j \in 1 .. n : replayed[j].at \in Nat /\ replayed[j].made \in Nat
      BY <1>3, ElementOfSeq, ReplayEventOf DEF ReplayInv
    <2>2. [j \in 1 .. n |-> replayed[j].at] \in [1 .. n -> Nat] /\ [j \in 1 .. n |-> replayed[j].made] \in [1 .. n -> Nat]
      BY <2>1
    <2>3. QED
      BY <2>2
  <1>6. (\A j \in 1 .. n : at[j] <= made[j]) /\ \A j, m \in 1 .. n : j < m => at[j] <= at[m]
    BY <1>3, <1>5 DEF ReplayInv, NewsInTime
  <1>7. HistoryHours \in Nat
    BY WindowReplayAssumption
  <1>8. ASSUME NEW j \in 1 .. n, at[k] - made[j] \in 1 .. HistoryHours PROVE j \in 1 .. k /\ made[j] < made[k]
    <2>1. PICK a \in Nat, b \in Nat, c \in Nat, d \in Nat : a = at[k] /\ b = made[k] /\ c = at[j] /\ d = made[j]
      BY <1>4, <1>5
    <2>2. a <= b /\ c <= d
      BY <1>4, <1>6, <2>1
    <2>3. d < a
      BY <1>7, <1>8, <2>1
    <2>4. ~(k < j)
      <3>1. SUFFICES ASSUME k < j PROVE FALSE
        OBVIOUS
      <3>2. a <= c
        BY <1>4, <1>6, <2>1, <3>1
      <3>3. QED
        BY <2>2, <2>3, <3>2
    <2>5. j \in 1 .. k
      BY <1>4, <2>4
    <2>6. d < b
      BY <2>2, <2>3
    <2>7. QED
      BY <2>1, <2>5, <2>6
  <1>9. 1 .. k \subseteq 1 .. n
    BY <1>4
  <1>10. ASSUME NEW j
         PROVE  j \in PastAt(replayed, k, t)
                  <=> j \in 1 .. n /\ Mentions(replayed[j], t) /\ replayed[j].made < replayed[k].made
                        /\ replayed[k].at - replayed[j].made \in 1 .. HistoryHours
    <2>1. j \in PastAt(replayed, k, t) <=> j \in 1 .. k /\ Mentions(replayed[j], t) /\ replayed[k].at - replayed[j].made \in 1 .. HistoryHours
      BY DEF PastAt
    <2>2. j \in 1 .. n => (replayed[k].at - replayed[j].made \in 1 .. HistoryHours => j \in 1 .. k /\ replayed[j].made < replayed[k].made)
      BY <1>4, <1>5, <1>8
    <2>3. QED
      BY <1>9, <2>1, <2>2
  <1>11. QED
    BY <1>1, <1>2, <1>3, <1>4, <1>10

\* Every prediction is counted once.
LEMMA CountsAreWhole == ReplayInv => CountsAddUp
  <1> SUFFICES ASSUME ReplayInv, NEW a \in Arms
               PROVE  /\ CountOf(a, "direction") + CountOf(a, "execute") = PostRrUniverse(a)
                      /\ fills[a].trades + fills[a].without <= CountOf(a, "execute")
    BY DEF CountsAddUp
  <1>1. PICK d \in Seq(ReplayAnswers) : d = decided[a] /\ Len(d) = Len(predictions[a.listed])
    BY DEF ReplayInv
  <1>2. \A x : CountOf(a, x) = Cardinality(AnswersOf(d, x))
    BY <1>1 DEF CountOf, AnswersOf
  <1>3. Cardinality(AnswersOf(d, "direction")) + Cardinality(AnswersOf(d, "execute"))
          = Len(d) - Cardinality(AnswersOf(d, "rr")) - Cardinality(AnswersOf(d, "market")) - Cardinality(AnswersOf(d, "stale"))
    BY KindsAddUp
  <1>4. CountOf(a, "direction") + CountOf(a, "execute") = PostRrUniverse(a)
    BY <1>1, <1>2, <1>3 DEF PostRrUniverse
  <1>5. CountOf(a, "execute") = Cardinality(Executed(a))
    BY DEF CountOf, Executed
  <1>6. fills[a].trades + fills[a].without <= Cardinality(Executed(a))
    BY DEF ReplayInv
  <1>7. QED
    BY <1>4, <1>5, <1>6

\* The replay is honest: a weaker filter never refuses what a stronger one let through, the
\* blacklist changes nothing for the news that do not name it, every news is counted with the
\* history it had when the predictor was running, and the counts of a report are whole.
THEOREM ReplayIsHonestHolds == WindowReplaySpec => []ReplayIsHonest
  <1>1. ReplayInv => ReplayIsHonest
    BY ArmsAreNested, BlacklistStaysLocal, HistoryStaysLive, CountsAreWhole DEF ReplayIsHonest
  <1>2. QED
    BY <1>1, ReplayInvHolds, PTL
===============================================================================
