--------------------------- MODULE TradingRisk_proofs ---------------------------
(***************************************************************************)
(* Proofs about BridgePositions and TradingRisk, for every value of their  *)
(* constants: the bridge behind any producer, then the decision service in *)
(* front of it.                                                            *)
(*                                                                         *)
(* The inductive invariant BridgeInv is in BridgePositions.  Its core is   *)
(* PositionKnows: whoever may still publish a CLOSE for a position, the    *)
(* consumer that opens it or its present or next tracker, has one close    *)
(* left, counted against the OPEN events and the interruptions so far.     *)
(*                                                                         *)
(* What is proved of the bridge with any producer holds with decision as   *)
(* its producer: to the bridge a step of decision is at most a new signal  *)
(* and a failure counted (OutsideStep).  The invariants of decision itself *)
(* are in TradingRisk; the number of its signals, and of the positions     *)
(* they lead to, is counted with the cardinality of finite sets.           *)
(***************************************************************************)
EXTENDS TradingRisk, FiniteSetTheorems, TLAPS

\* What the steps need of the types: counters are naturals, sets hold what they
\* should, and a delivered signal has a ticker.
Counted ==
    /\ opens \in [Ids -> Nat] /\ closes \in [Ids -> Nat] /\ books \in [Ids -> Nat]
    /\ claims \in [Ids -> Nat] /\ track \in [Ids -> TrackerSteps]
    /\ faults \in Nat /\ crashes \in Nat /\ unread \in Nat
    /\ slots \subseteq Tickers /\ cooldown \subseteq Tickers /\ persisted \subseteq Ids
    /\ todo \subseteq Ids /\ pel \subseteq Ids /\ cur \in Ids \cup {NoSig}
    /\ claimed \subseteq Ids
    /\ pnl \in Int
    /\ Ids \subseteq Nat /\ NoSig \notin Ids
    /\ \A s \in Delivered : signals[s] \in Tickers \cup {Reject}

\* These types follow from the type invariant and the shape of the stream.
LEMMA CountedFacts == ASSUME BridgeTypeOK, StreamShape PROVE Counted
<1>1. /\ opens \in [Ids -> Nat] /\ closes \in [Ids -> Nat] /\ books \in [Ids -> Nat]
      /\ claims \in [Ids -> Nat] /\ track \in [Ids -> TrackerSteps]
  BY DEF BridgeTypeOK
<1>2. faults \in Nat /\ crashes \in Nat /\ unread \in Nat
  BY BridgeAssumption DEF BridgeTypeOK
<1>3. Ids \subseteq Nat /\ NoSig \notin Ids
  BY BridgeAssumption DEF Ids, NoSig
<1>4. /\ slots \subseteq Tickers /\ cooldown \subseteq Tickers /\ persisted \subseteq Ids
      /\ todo \subseteq Ids /\ pel \subseteq Ids /\ cur \in Ids \cup {NoSig} /\ pnl \in Int
      /\ claimed \subseteq Ids
  BY DEF BridgeTypeOK
<1>5. ASSUME NEW s \in Delivered PROVE signals[s] \in Tickers \cup {Reject}
  <2>1. s \in 1 .. Len(signals)
    BY BridgeAssumption DEF BridgeTypeOK, StreamShape, Delivered, Ids
  <2>2. signals \in Seq(Tickers \cup {Reject})
    BY DEF BridgeTypeOK
  <2>3. QED
    BY <2>1, <2>2
<1>6. QED
  BY <1>1, <1>2, <1>3, <1>4, <1>5 DEF Counted

\* The same after a step.
LEMMA CountedNext == ASSUME BridgeTypeOK', StreamShape' PROVE Counted'
<1>1. QED
  BY CountedFacts, PTL

\* Sums of naturals that only grow.
LEMMA SumGrows ==
    ASSUME NEW a \in Nat, NEW b \in Nat, NEW c \in Nat, NEW d \in Nat
    PROVE  /\ a <= c /\ b <= d => a + b <= c + d
           /\ \A n \in Nat : a + b < c + d => n + a + b < n + c + d
  OBVIOUS

\* The signals delivered after one more read.
LEMMA OneMoreBelow ==
    ASSUME NEW u \in Nat
    PROVE  \A n \in Nat : n < u + 1 <=> n < u \/ n = u
  OBVIOUS

\* A step that leaves position k alone; failures may be counted.
Same(k) ==
    /\ opens'[k] = opens[k] /\ closes'[k] = closes[k] /\ books'[k] = books[k]
    /\ track'[k] = track[k]
    /\ k \in persisted' <=> k \in persisted
    /\ Opening(k)' <=> Opening(k)
    /\ k \in Delivered => k \in Delivered' /\ signals'[k] = signals[k]
    /\ faults <= faults' /\ crashes <= crashes'

\* What holds of a position still holds after a step that leaves it alone.
LEMMA Frame ==
    ASSUME Counted, Counted', StreamShape, NEW k \in Ids, PositionKnows(k), Same(k)
    PROVE  PositionKnows(k)'
<1>1. Watching(k)' <=> Watching(k)
  BY DEF Same, Watching
<1>2. faults \in Nat /\ crashes \in Nat /\ faults' \in Nat /\ crashes' \in Nat
      /\ opens[k] \in Nat /\ closes[k] \in Nat /\ books[k] \in Nat
      /\ opens'[k] \in Nat /\ closes'[k] \in Nat /\ books'[k] \in Nat
  BY DEF Counted
<1>3. faults + crashes <= faults' + crashes'
  <2>1. faults <= faults' /\ crashes <= crashes'
    BY DEF Same
  <2>2. QED
    BY <1>2, <2>1, SumGrows
<1>4. k \in persisted => k \in Delivered
  BY DEF StreamShape
<1>5. /\ Opening(k)' \/ Watching(k)' => closes'[k] < opens'[k] + faults' + crashes'
      /\ Opening(k)' /\ Watching(k)' => closes'[k] + 1 < opens'[k] + faults' + crashes'
  <2>1. Opening(k) \/ Watching(k) => closes[k] < opens[k] + faults + crashes
    BY DEF PositionKnows
  <2>2. Opening(k) /\ Watching(k) => closes[k] + 1 < opens[k] + faults + crashes
    BY DEF PositionKnows
  <2>3. opens'[k] = opens[k] /\ closes'[k] = closes[k] /\ (Opening(k)' <=> Opening(k))
    BY DEF Same
  <2>4. opens[k] + faults + crashes <= opens'[k] + faults' + crashes'
    BY <1>2, <1>3, <2>3
  <2>5. QED
    BY <1>1, <1>2, <2>1, <2>2, <2>3, <2>4
<1>6. QED
  BY <1>4, <1>5 DEF PositionKnows, Same

\* A step that counts no event keeps the balance of events.
LEMMA EventsFrame ==
    ASSUME Counted, Counted', EventsMatch,
           opens' = opens, closes' = closes, books' = books,
           faults <= faults', crashes <= crashes'
    PROVE  EventsMatch'
<1>1. faults \in Nat /\ crashes \in Nat /\ faults' \in Nat /\ crashes' \in Nat
      /\ \A s \in Ids : opens[s] \in Nat /\ closes[s] \in Nat
  BY DEF Counted
<1>2. faults + crashes <= faults' + crashes'
  BY <1>1, SumGrows
<1>3. ASSUME NEW s \in Ids PROVE closes[s] <= opens[s] + faults' + crashes'
  <2>1. closes[s] <= opens[s] + faults + crashes
    BY DEF EventsMatch
  <2>2. QED
    BY <1>1, <1>2, <2>1
<1>4. QED
  BY <1>3 DEF EventsMatch

\* What holds of a position still holds when the process ends and the end is
\* counted: its key is left to the next start.
LEMMA Halted ==
    ASSUME Counted, Counted', StreamShape, EventsMatch, NEW k \in Ids, PositionKnows(k),
           opens'[k] = opens[k], closes'[k] = closes[k], track'[k] = "none",
           k \in persisted' <=> k \in persisted, pc' = "down",
           unread' = unread, signals' = signals,
           faults + crashes < faults' + crashes'
    PROVE  PositionKnows(k)'
<1>1. ~Opening(k)'
  BY DEF Opening
<1>2. closes[k] <= opens[k] + faults + crashes
  BY DEF EventsMatch
<1>3. faults \in Nat /\ crashes \in Nat /\ faults' \in Nat /\ crashes' \in Nat
      /\ opens[k] \in Nat /\ closes[k] \in Nat
  BY DEF Counted
<1>4. closes'[k] < opens'[k] + faults' + crashes'
  <2>1. opens[k] + faults + crashes < opens[k] + faults' + crashes'
    BY <1>3, SumGrows
  <2>2. closes[k] < opens[k] + faults' + crashes'
    BY <1>2, <1>3, <2>1
  <2>3. QED
    BY <2>2
<1>5. QED
  BY <1>1, <1>4 DEF PositionKnows

\* A step counts at most one failing command, within the bound.
LEMMA FaultType ==
    ASSUME BridgeTypeOK, Fault \/ NoFault
    PROVE  faults' \in 0 .. MaxFaults /\ faults' \in {faults, faults + 1}
  BY BridgeAssumption DEF BridgeTypeOK, Fault, NoFault

\* Counting for s leaves the other counters alone.
LEMMA UpFacts ==
    ASSUME NEW f \in [Ids -> Nat], NEW s \in Ids
    PROVE  /\ Up(f, s) \in [Ids -> Nat]
           /\ Up(f, s)[s] = f[s] + 1
           /\ \A k \in Ids : k # s => Up(f, s)[k] = f[k]
  BY DEF Up

-------------------------------------------------------------------------------
(* One lemma per action. *)

\* recover_from_redis lists the keys; a failing command ends the process.
LEMMA ScanInv ==
    ASSUME BridgeInv, Scan
    PROVE  BridgeInv'
<1> USE BridgeAssumption DEF BridgeInv
<1>0. Counted
  BY CountedFacts
<1>1. BridgeTypeOK'
  <2>1. track' \in [Ids -> TrackerSteps]
    BY <1>0
       DEF Scan, Halt, NoFault, Fault, streamVars, riskVars, countVars,
           claimVars, Counted, TrackerSteps
  <2>2. faults' \in 0 .. MaxFaults
    <3>1. Fault \/ NoFault
      BY DEF Scan, Halt, streamVars, riskVars, countVars, claimVars
    <3>2. QED
      BY <3>1, FaultType
  <2>3. pc' \in ConsumerSteps
    BY <1>0
       DEF Scan, Halt, NoFault, Fault, streamVars, riskVars, countVars,
           claimVars, Counted, ConsumerSteps, BridgeTypeOK, Ids
  <2>4. cur' \in Ids \cup {NoSig}
    BY <1>0
       DEF Scan, Halt, NoFault, Fault, streamVars, riskVars, countVars,
           claimVars, Counted, BridgeTypeOK, Ids
  <2>5. todo' \subseteq Ids
    BY <1>0
       DEF Scan, Halt, NoFault, Fault, streamVars, riskVars, countVars,
           claimVars, Counted
  <2>6. QED
    BY <2>1, <2>2, <2>3, <2>4, <2>5
       DEF Scan, streamVars, riskVars, countVars, claimVars, BridgeTypeOK
<1>2. StreamShape'
  BY <1>0
     DEF Scan, Halt, NoFault, Fault, streamVars, riskVars, countVars,
         claimVars, Counted, StreamShape, Delivered, ConsumerKnows
<1>3. Counted'
  BY <1>1, <1>2, CountedNext
<1>4. ConsumerKnows'
  BY <1>0, <1>3
     DEF Scan, Halt, NoFault, Fault, streamVars, riskVars, countVars,
         claimVars, ConsumerKnows, PositionKnows, StreamShape, Counted,
         Delivered, Opening, Watching, NoSig
<1>5. ASSUME NEW k \in Ids PROVE PositionKnows(k)'
  <2>1. Same(k)
    BY <1>0, <1>3
       DEF Scan, Halt, NoFault, Fault, streamVars, riskVars, countVars,
           claimVars, Same, Opening, ConsumerKnows, Delivered, NoSig, Counted
  <2>2. QED
    BY <2>1, <1>0, <1>3, Frame
<1>6. OpenedOncePerClaim'
  BY <1>0, <1>3
     DEF Scan, Halt, NoFault, Fault, streamVars, riskVars, countVars,
         claimVars, ConsumerKnows, OpenedOncePerClaim, Counted
<1>7. EventsMatch'
  <2>1. opens' = opens /\ closes' = closes /\ books' = books
    BY DEF Scan, countVars
  <2>2. faults <= faults' /\ crashes <= crashes'
    BY <1>0
       DEF Scan, NoFault, Fault, streamVars, riskVars, countVars, claimVars,
           Counted
  <2>3. QED
    BY <1>0, <1>3, <2>1, <2>2, EventsFrame
<1>8. TrackedIsPersisted'
  BY <1>0, <1>3
     DEF Scan, Halt, NoFault, Fault, streamVars, riskVars, countVars,
         claimVars, ConsumerKnows, TrackedIsPersisted, Counted
<1>9. QED
  BY <1>1, <1>2, <1>4, <1>5, <1>6, <1>7, <1>8

\* A persisted position gets its tracker back: it was Watching by its key and is
\* Watching by its tracker.
LEMMA RespawnInv ==
    ASSUME BridgeInv, NEW s \in Ids, Respawn(s)
    PROVE  BridgeInv'
<1> USE BridgeAssumption DEF BridgeInv
<1>0. Counted
  BY CountedFacts
<1>1. BridgeTypeOK'
  <2>1. track' \in [Ids -> TrackerSteps]
    BY <1>0
       DEF Respawn, Halt, NoFault, Fault, streamVars, countVars, claimVars,
           Counted, TrackerSteps
  <2>2. faults' \in 0 .. MaxFaults
    <3>1. Fault \/ NoFault
      BY DEF Respawn, Halt, streamVars, countVars, claimVars
    <3>2. QED
      BY <3>1, FaultType
  <2>3. pc' \in ConsumerSteps
    BY <1>0
       DEF Respawn, Halt, NoFault, Fault, streamVars, countVars, claimVars,
           Counted, ConsumerSteps, BridgeTypeOK, Ids
  <2>4. cur' \in Ids \cup {NoSig}
    BY <1>0
       DEF Respawn, Halt, NoFault, Fault, streamVars, countVars, claimVars,
           Counted, BridgeTypeOK, Ids
  <2>5. slots' \subseteq Tickers
    <3>1. signals[s] \in Tickers
      BY <1>0 DEF Respawn, ConsumerKnows, PositionKnows, StreamShape, Counted
    <3>2. slots' = slots \/ slots' = slots \cup {signals[s]}
      BY DEF Respawn
    <3>3. QED
      BY <1>0, <3>1, <3>2 DEF Counted
  <2>6. todo' \subseteq Ids
    BY <1>0
       DEF Respawn, Halt, NoFault, Fault, streamVars, countVars, claimVars,
           Counted
  <2>7. QED
    BY <2>1, <2>2, <2>3, <2>4, <2>5, <2>6
       DEF Respawn, streamVars, countVars, claimVars, BridgeTypeOK
<1>2. StreamShape'
  BY <1>0
     DEF Respawn, Halt, NoFault, Fault, streamVars, countVars, claimVars,
         Counted, StreamShape, Delivered, ConsumerKnows
<1>3. Counted'
  BY <1>1, <1>2, CountedNext
<1>4. ConsumerKnows'
  BY <1>0, <1>3
     DEF Respawn, Halt, NoFault, Fault, streamVars, countVars, claimVars,
         ConsumerKnows, PositionKnows, StreamShape, Counted, Delivered,
         Opening, Watching, NoSig
<1>5. ASSUME NEW k \in Ids PROVE PositionKnows(k)'
  <2>1. CASE NoFault /\ k = s
    BY <2>1, <1>0, <1>3
       DEF Respawn, Halt, NoFault, Fault, streamVars, countVars, claimVars,
           ConsumerKnows, PositionKnows, StreamShape, Counted, Delivered,
           Opening, Watching
  <2>2. CASE NoFault /\ k # s
    <3>1. Same(k)
      BY <2>2, <1>0
         DEF Respawn, Halt, NoFault, Fault, streamVars, countVars, claimVars,
             Same, Opening, Delivered, Counted
    <3>2. QED
      BY <3>1, <1>0, <1>3, Frame
  <2>3. CASE Fault
    <3>1. pc' = "down" /\ track'[k] = "none" /\ faults + crashes < faults' + crashes'
      BY <2>3, <1>0
         DEF Respawn, Halt, NoFault, Fault, streamVars, countVars, claimVars,
             Counted
    <3>2. QED
      BY <3>1, <1>0, <1>3, Halted DEF Respawn, streamVars, countVars
  <2>4. QED
    BY <2>1, <2>2, <2>3 DEF Respawn
<1>6. OpenedOncePerClaim'
  BY <1>0, <1>3
     DEF Respawn, Halt, NoFault, Fault, streamVars, countVars, claimVars,
         ConsumerKnows, OpenedOncePerClaim, Counted
<1>7. EventsMatch'
  <2>1. opens' = opens /\ closes' = closes /\ books' = books
    BY DEF Respawn, countVars
  <2>2. faults <= faults' /\ crashes <= crashes'
    BY <1>0 DEF Respawn, NoFault, Fault, streamVars, countVars, claimVars, Counted
  <2>3. QED
    BY <1>0, <1>3, <2>1, <2>2, EventsFrame
<1>8. TrackedIsPersisted'
  BY <1>0, <1>3
     DEF Respawn, Halt, NoFault, Fault, streamVars, countVars, claimVars,
         ConsumerKnows, TrackedIsPersisted, Counted
<1>9. QED
  BY <1>1, <1>2, <1>4, <1>5, <1>6, <1>7, <1>8

\* All keys are respawned.
LEMMA RecoveredInv ==
    ASSUME BridgeInv, Recovered
    PROVE  BridgeInv'
<1> USE BridgeAssumption DEF BridgeInv
<1>0. Counted
  BY CountedFacts
<1>1. BridgeTypeOK'
  BY DEF Recovered, streamVars, riskVars, countVars, claimVars, BridgeTypeOK,
         ConsumerSteps
<1>2. StreamShape'
  BY <1>0
     DEF Recovered, streamVars, riskVars, countVars, claimVars, Counted,
         StreamShape, Delivered, ConsumerKnows
<1>3. Counted'
  BY <1>1, <1>2, CountedNext
<1>4. ConsumerKnows'
  BY <1>0, <1>3
     DEF Recovered, streamVars, riskVars, countVars, claimVars, ConsumerKnows,
         PositionKnows, StreamShape, Counted, Delivered, Opening, Watching,
         NoSig
<1>5. ASSUME NEW k \in Ids PROVE PositionKnows(k)'
  BY <1>0, <1>3
     DEF Recovered, streamVars, riskVars, countVars, claimVars, ConsumerKnows,
         PositionKnows, StreamShape, EventsMatch, Counted, Delivered, Opening,
         Watching, NoSig
<1>6. OpenedOncePerClaim'
  BY <1>0, <1>3
     DEF Recovered, streamVars, riskVars, countVars, claimVars, ConsumerKnows,
         OpenedOncePerClaim, Counted
<1>7. EventsMatch'
  <2>1. opens' = opens /\ closes' = closes /\ books' = books
    BY DEF Recovered, countVars
  <2>2. faults <= faults' /\ crashes <= crashes'
    BY <1>0 DEF Recovered, streamVars, riskVars, countVars, claimVars, Counted
  <2>3. QED
    BY <1>0, <1>3, <2>1, <2>2, EventsFrame
<1>8. TrackedIsPersisted'
  BY <1>0, <1>3
     DEF Recovered, streamVars, riskVars, countVars, claimVars, ConsumerKnows,
         TrackedIsPersisted, Counted
<1>9. QED
  BY <1>1, <1>2, <1>4, <1>5, <1>6, <1>7, <1>8

\* The pending signals become the ones to replay; all of them were delivered.
LEMMA RecoverPelInv ==
    ASSUME BridgeInv, RecoverPel
    PROVE  BridgeInv'
<1> USE BridgeAssumption DEF BridgeInv
<1>0. Counted
  BY CountedFacts
<1>1. BridgeTypeOK'
  BY DEF RecoverPel, NoFault, Fault, streamVars, riskVars, countVars,
         claimVars, BridgeTypeOK, ConsumerSteps
<1>2. StreamShape'
  BY <1>0
     DEF RecoverPel, NoFault, Fault, streamVars, riskVars, countVars,
         claimVars, Counted, StreamShape, Delivered, ConsumerKnows
<1>3. Counted'
  BY <1>1, <1>2, CountedNext
<1>4. ConsumerKnows'
  BY <1>0, <1>3
     DEF RecoverPel, NoFault, Fault, streamVars, riskVars, countVars,
         claimVars, ConsumerKnows, PositionKnows, StreamShape, Counted,
         Delivered, Opening, Watching, NoSig
<1>5. ASSUME NEW k \in Ids PROVE PositionKnows(k)'
  <2>1. Same(k)
    BY <1>0, <1>3
       DEF RecoverPel, NoFault, Fault, streamVars, riskVars, countVars,
           claimVars, Same, Opening, ConsumerKnows, Delivered, NoSig, Counted
  <2>2. QED
    BY <2>1, <1>0, <1>3, Frame
<1>6. OpenedOncePerClaim'
  BY <1>0, <1>3
     DEF RecoverPel, NoFault, Fault, streamVars, riskVars, countVars,
         claimVars, ConsumerKnows, OpenedOncePerClaim, Counted
<1>7. EventsMatch'
  <2>1. opens' = opens /\ closes' = closes /\ books' = books
    BY DEF RecoverPel, countVars
  <2>2. faults <= faults' /\ crashes <= crashes'
    BY <1>0
       DEF RecoverPel, NoFault, Fault, streamVars, riskVars, countVars,
           claimVars, Counted
  <2>3. QED
    BY <1>0, <1>3, <2>1, <2>2, EventsFrame
<1>8. TrackedIsPersisted'
  BY <1>0, <1>3
     DEF RecoverPel, NoFault, Fault, streamVars, riskVars, countVars,
         claimVars, ConsumerKnows, TrackedIsPersisted, Counted
<1>9. QED
  BY <1>1, <1>2, <1>4, <1>5, <1>6, <1>7, <1>8

\* A pending signal is taken up again.
LEMMA ReplayInv ==
    ASSUME BridgeInv, NEW s \in Ids, Replay(s)
    PROVE  BridgeInv'
<1> USE BridgeAssumption DEF BridgeInv
<1>0. Counted
  BY CountedFacts
<1>1. BridgeTypeOK'
  BY DEF Replay, streamVars, riskVars, countVars, claimVars, BridgeTypeOK,
         ConsumerSteps, NoSig, ConsumerKnows, Delivered
<1>2. StreamShape'
  BY <1>0
     DEF Replay, streamVars, riskVars, countVars, claimVars, Counted,
         StreamShape, Delivered, ConsumerKnows
<1>3. Counted'
  BY <1>1, <1>2, CountedNext
<1>4. ConsumerKnows'
  BY <1>0, <1>3
     DEF Replay, streamVars, riskVars, countVars, claimVars, ConsumerKnows,
         PositionKnows, StreamShape, Counted, Delivered, Opening, Watching,
         NoSig
<1>5. ASSUME NEW k \in Ids PROVE PositionKnows(k)'
  BY <1>0, <1>3
     DEF Replay, streamVars, riskVars, countVars, claimVars, ConsumerKnows,
         PositionKnows, StreamShape, EventsMatch, Counted, Delivered, Opening,
         Watching, NoSig
<1>6. OpenedOncePerClaim'
  BY <1>0, <1>3
     DEF Replay, streamVars, riskVars, countVars, claimVars, ConsumerKnows,
         OpenedOncePerClaim, Counted
<1>7. EventsMatch'
  <2>1. opens' = opens /\ closes' = closes /\ books' = books
    BY DEF Replay, countVars
  <2>2. faults <= faults' /\ crashes <= crashes'
    BY <1>0 DEF Replay, streamVars, riskVars, countVars, claimVars, Counted
  <2>3. QED
    BY <1>0, <1>3, <2>1, <2>2, EventsFrame
<1>8. TrackedIsPersisted'
  BY <1>0, <1>3
     DEF Replay, streamVars, riskVars, countVars, claimVars, ConsumerKnows,
         TrackedIsPersisted, Counted
<1>9. QED
  BY <1>1, <1>2, <1>4, <1>5, <1>6, <1>7, <1>8

\* XREADGROUP delivers one more signal, which nobody tracks yet.
LEMMA ReadSignalInv ==
    ASSUME BridgeInv, ReadSignal
    PROVE  BridgeInv'
<1> USE BridgeAssumption DEF BridgeInv
<1>0. Counted
  BY CountedFacts
<1>10. unread \in Ids /\ unread' = unread + 1 /\ pel' = pel \cup {unread}
  BY DEF ReadSignal, BridgeTypeOK, Ids
<1>b. Delivered \subseteq Delivered' /\ unread \in Delivered' /\ unread \notin Delivered
  <2>1. Ids \subseteq Nat /\ unread \in Nat
    BY <1>0 DEF Counted
  <2>2. \A k \in Nat : k < unread' <=> k < unread \/ k = unread
    BY <1>10, <2>1, OneMoreBelow
  <2>3. ~(unread < unread)
    BY <2>1
  <2>4. \A k \in Ids : k \in Delivered' <=> k \in Delivered \/ k = unread
    BY <2>1, <2>2 DEF Delivered
  <2>5. unread \notin Delivered
    BY <2>3 DEF Delivered
  <2>6. QED
    BY <1>10, <2>4, <2>5 DEF Delivered
<1>1. BridgeTypeOK'
  <2>1. faults' \in 0 .. MaxFaults
    <3>1. Fault \/ NoFault
      BY DEF ReadSignal, riskVars, countVars, claimVars
    <3>2. QED
      BY <3>1, FaultType
  <2>2. pc' \in ConsumerSteps
    BY <1>0
       DEF ReadSignal, NoFault, Fault, riskVars, countVars, claimVars, Counted,
           ConsumerSteps, BridgeTypeOK, Ids
  <2>3. cur' \in Ids \cup {NoSig}
    BY <1>0, <1>10 DEF ReadSignal, Counted
  <2>4. unread' \in 1 .. MaxSignals + 1
    BY <1>0
       DEF ReadSignal, NoFault, Fault, riskVars, countVars, claimVars, Counted,
           BridgeTypeOK, Ids
  <2>5. pel' \subseteq Ids
    BY <1>0, <1>10 DEF Counted
  <2>6. QED
    BY <2>1, <2>2, <2>3, <2>4, <2>5
       DEF ReadSignal, riskVars, countVars, claimVars, BridgeTypeOK
<1>2. StreamShape'
  <2>1. unread' <= Len(signals') + 1
    <3>1. unread <= Len(signals) /\ signals' = signals
      BY DEF ReadSignal
    <3>2. Len(signals) \in Nat /\ unread \in Nat
      BY DEF BridgeTypeOK
    <3>3. QED
      BY <1>10, <3>1, <3>2
  <2>2. todo' = todo /\ persisted' = persisted
    BY DEF ReadSignal, riskVars
  <2>3. QED
    BY <1>10, <1>b, <2>1, <2>2 DEF StreamShape
<1>3. Counted'
  BY <1>1, <1>2, CountedNext
<1>4. ConsumerKnows'
  <2>1. pc' = "idle" \/ (pc' = "handle" /\ cur' = unread)
    <3>1. pc = "idle" /\ ((pc' = "handle" /\ cur' = unread) \/ pc' = pc)
      BY DEF ReadSignal
    <3>2. QED
      BY <3>1
  <2>2. QED
    BY <1>b, <2>1 DEF ConsumerKnows
<1>5. ASSUME NEW k \in Ids PROVE PositionKnows(k)'
  <2>1. Same(k)
    <3>1. opens' = opens /\ closes' = closes /\ books' = books /\ track' = track
          /\ persisted' = persisted /\ crashes' = crashes /\ signals' = signals
      BY DEF ReadSignal, countVars, riskVars
    <3>2. faults <= faults'
      <4>1. faults \in Nat
        BY <1>0 DEF Counted
      <4>2. faults' = faults \/ faults' = faults + 1
        BY DEF ReadSignal, Fault, NoFault
      <4>3. QED
        BY <4>1, <4>2
    <3>3. ~Opening(k) /\ ~Opening(k)'
      BY DEF ReadSignal, Opening
    <3>4. QED
      BY <1>b, <1>0, <3>1, <3>2, <3>3 DEF Same, Counted
  <2>2. QED
    BY <2>1, <1>0, <1>3, Frame
<1>6. OpenedOncePerClaim'
  BY <1>0, <1>3
     DEF ReadSignal, NoFault, Fault, riskVars, countVars, claimVars,
         ConsumerKnows, OpenedOncePerClaim, Counted
<1>7. EventsMatch'
  <2>1. opens' = opens /\ closes' = closes /\ books' = books
    BY DEF ReadSignal, countVars
  <2>2. faults <= faults' /\ crashes <= crashes'
    BY <1>0
       DEF ReadSignal, NoFault, Fault, riskVars, countVars, claimVars, Counted
  <2>3. QED
    BY <1>0, <1>3, <2>1, <2>2, EventsFrame
<1>8. TrackedIsPersisted'
  BY <1>0, <1>3
     DEF ReadSignal, NoFault, Fault, riskVars, countVars, claimVars,
         ConsumerKnows, TrackedIsPersisted, Counted
<1>9. QED
  BY <1>1, <1>2, <1>4, <1>5, <1>6, <1>7, <1>8

\* A REJECT goes straight to the acknowledgement.
LEMMA IgnoreRejectInv ==
    ASSUME BridgeInv, IgnoreReject
    PROVE  BridgeInv'
<1> USE BridgeAssumption DEF BridgeInv
<1>0. Counted
  BY CountedFacts
<1>1. BridgeTypeOK'
  BY DEF IgnoreReject, Goto, streamVars, riskVars, countVars, claimVars,
         NoFault, BridgeTypeOK, ConsumerSteps
<1>2. StreamShape'
  BY <1>0
     DEF IgnoreReject, Goto, streamVars, riskVars, countVars, claimVars,
         NoFault, Counted, StreamShape, Delivered, ConsumerKnows
<1>3. Counted'
  BY <1>1, <1>2, CountedNext
<1>4. ConsumerKnows'
  BY <1>0, <1>3
     DEF IgnoreReject, Goto, streamVars, riskVars, countVars, claimVars,
         NoFault, ConsumerKnows, PositionKnows, StreamShape, Counted,
         Delivered, Opening, Watching, NoSig
<1>5. ASSUME NEW k \in Ids PROVE PositionKnows(k)'
  BY <1>0, <1>3
     DEF IgnoreReject, Goto, streamVars, riskVars, countVars, claimVars,
         NoFault, ConsumerKnows, PositionKnows, StreamShape, EventsMatch,
         Counted, Delivered, Opening, Watching, NoSig
<1>6. OpenedOncePerClaim'
  BY <1>0, <1>3
     DEF IgnoreReject, Goto, streamVars, riskVars, countVars, claimVars,
         NoFault, ConsumerKnows, OpenedOncePerClaim, Counted
<1>7. EventsMatch'
  <2>1. opens' = opens /\ closes' = closes /\ books' = books
    BY DEF IgnoreReject, countVars
  <2>2. faults <= faults' /\ crashes <= crashes'
    BY <1>0
       DEF IgnoreReject, Goto, streamVars, riskVars, countVars, claimVars,
           NoFault, Counted
  <2>3. QED
    BY <1>0, <1>3, <2>1, <2>2, EventsFrame
<1>8. TrackedIsPersisted'
  BY <1>0, <1>3
     DEF IgnoreReject, Goto, streamVars, riskVars, countVars, claimVars,
         NoFault, ConsumerKnows, TrackedIsPersisted, Counted
<1>9. QED
  BY <1>1, <1>2, <1>4, <1>5, <1>6, <1>7, <1>8

\* A free claim is counted, so an OPEN is owed; a second claim cannot be the first.
LEMMA ClaimInv ==
    ASSUME BridgeInv, Claim
    PROVE  BridgeInv'
<1> USE BridgeAssumption DEF BridgeInv
<1>0. Counted
  BY CountedFacts
<1>1. BridgeTypeOK'
  <2>1. claims' \in [Ids -> Nat]
    BY <1>0
       DEF Claim, Goto, Raise, Up, streamVars, riskVars, countVars, NoFault,
           Fault, Counted, ConsumerKnows, Delivered
  <2>2. faults' \in 0 .. MaxFaults
    <3>1. Fault \/ NoFault
      BY DEF Claim, Goto, Raise, Up, streamVars, riskVars, countVars
    <3>2. QED
      BY <3>1, FaultType
  <2>3. pc' \in ConsumerSteps
    BY <1>0
       DEF Claim, Goto, Raise, Up, streamVars, riskVars, countVars, NoFault,
           Fault, Counted, ConsumerSteps, BridgeTypeOK, Ids
  <2>4. cur' \in Ids \cup {NoSig}
    BY <1>0
       DEF Claim, Goto, Raise, Up, streamVars, riskVars, countVars, NoFault,
           Fault, Counted, BridgeTypeOK, Ids
  <2>5. claimed' \subseteq Ids
    BY <1>0
       DEF Claim, Goto, Raise, Up, streamVars, riskVars, countVars, NoFault,
           Fault, Counted, ConsumerKnows, Delivered
  <2>6. QED
    BY <2>1, <2>2, <2>3, <2>4, <2>5
       DEF Claim, streamVars, riskVars, countVars, BridgeTypeOK
<1>2. StreamShape'
  BY <1>0
     DEF Claim, Goto, Raise, Up, streamVars, riskVars, countVars, NoFault,
         Fault, Counted, StreamShape, Delivered, ConsumerKnows
<1>3. Counted'
  BY <1>1, <1>2, CountedNext
<1>4. ConsumerKnows'
  <2>1. cur \in Ids /\ cur \in Delivered /\ Delivered' = Delivered
    BY <1>0 DEF Claim, ConsumerKnows, streamVars, Delivered
  <2>2. CASE pc' = "open"
    <3>1. claims' = Up(claims, cur) /\ cur' = cur /\ opens' = opens /\ signals' = signals
          /\ signals[cur] # Reject
      BY <2>2 DEF Claim, Goto, Raise, countVars, streamVars
    <3>2. opens'[cur] < claims'[cur]
      BY <3>1, <2>1, <1>0, UpFacts DEF OpenedOncePerClaim, Counted
    <3>3. QED
      BY <2>1, <2>2, <3>1, <3>2 DEF ConsumerKnows
  <2>3. CASE pc' \in {"ack", "idle"}
    BY <2>1, <2>3 DEF Claim, Goto, Raise, ConsumerKnows
  <2>4. QED
    BY <2>2, <2>3 DEF Claim, Goto, Raise
<1>5. ASSUME NEW k \in Ids PROVE PositionKnows(k)'
  <2>1. Same(k)
    BY <1>0, <1>3
       DEF Claim, Goto, Raise, Up, streamVars, riskVars, countVars, NoFault,
           Fault, Same, Opening, ConsumerKnows, Delivered, NoSig, Counted
  <2>2. QED
    BY <2>1, <1>0, <1>3, Frame
<1>6. OpenedOncePerClaim'
  BY <1>0, <1>3
     DEF Claim, Goto, Raise, Up, streamVars, riskVars, countVars, NoFault,
         Fault, ConsumerKnows, OpenedOncePerClaim, Counted
<1>7. EventsMatch'
  <2>1. opens' = opens /\ closes' = closes /\ books' = books
    BY DEF Claim, countVars
  <2>2. faults <= faults' /\ crashes <= crashes'
    BY <1>0
       DEF Claim, Goto, Raise, streamVars, riskVars, countVars, NoFault, Fault,
           Counted
  <2>3. QED
    BY <1>0, <1>3, <2>1, <2>2, EventsFrame
<1>8. TrackedIsPersisted'
  <2>1. track' = track /\ persisted' = persisted
    BY DEF Claim, riskVars
  <2>2. ASSUME NEW k \in Ids, claims'[k] = 1 PROVE claims[k] = 1 \/ track[k] = "none"
    <3>1. CASE claims' = claims
      BY <2>2, <3>1
    <3>2. CASE cur \in Ids /\ claims' = Up(claims, cur) /\ k # cur
      BY <2>2, <3>2, <1>0, UpFacts DEF Counted
    <3>3. CASE cur \in Ids /\ claims' = Up(claims, cur) /\ k = cur
      <4>1. claims[cur] \in Nat /\ claims'[cur] = claims[cur] + 1
        BY <3>3, <1>0, UpFacts DEF Counted
      <4>2. claims[cur] = 0
        BY <4>1, <3>3, <2>2
      <4>3. QED
        BY <4>2, <3>3, <1>0 DEF OpenedOncePerClaim, PositionKnows, Counted
    <3>4. cur \in Ids
      BY <1>0 DEF Claim, ConsumerKnows, Delivered
    <3>5. QED
      BY <3>1, <3>2, <3>3, <3>4 DEF Claim
  <2>3. QED
    BY <2>1, <2>2 DEF TrackedIsPersisted
<1>9. QED
  BY <1>1, <1>2, <1>4, <1>5, <1>6, <1>7, <1>8

\* No position is opened, the claim stays.
LEMMA OpenRefusedInv ==
    ASSUME BridgeInv, OpenRefused
    PROVE  BridgeInv'
<1> USE BridgeAssumption DEF BridgeInv
<1>0. Counted
  BY CountedFacts
<1>1. BridgeTypeOK'
  BY DEF OpenRefused, Goto, streamVars, riskVars, countVars, claimVars,
         NoFault, BridgeTypeOK, ConsumerSteps
<1>2. StreamShape'
  BY <1>0
     DEF OpenRefused, Goto, streamVars, riskVars, countVars, claimVars,
         NoFault, Counted, StreamShape, Delivered, ConsumerKnows
<1>3. Counted'
  BY <1>1, <1>2, CountedNext
<1>4. ConsumerKnows'
  BY <1>0, <1>3
     DEF OpenRefused, Goto, streamVars, riskVars, countVars, claimVars,
         NoFault, ConsumerKnows, PositionKnows, StreamShape, Counted,
         Delivered, Opening, Watching, NoSig
<1>5. ASSUME NEW k \in Ids PROVE PositionKnows(k)'
  BY <1>0, <1>3
     DEF OpenRefused, Goto, streamVars, riskVars, countVars, claimVars,
         NoFault, ConsumerKnows, PositionKnows, StreamShape, EventsMatch,
         Counted, Delivered, Opening, Watching, NoSig
<1>6. OpenedOncePerClaim'
  BY <1>0, <1>3
     DEF OpenRefused, Goto, streamVars, riskVars, countVars, claimVars,
         NoFault, ConsumerKnows, OpenedOncePerClaim, Counted
<1>7. EventsMatch'
  <2>1. opens' = opens /\ closes' = closes /\ books' = books
    BY DEF OpenRefused, countVars
  <2>2. faults <= faults' /\ crashes <= crashes'
    BY <1>0
       DEF OpenRefused, Goto, streamVars, riskVars, countVars, claimVars,
           NoFault, Counted
  <2>3. QED
    BY <1>0, <1>3, <2>1, <2>2, EventsFrame
<1>8. TrackedIsPersisted'
  BY <1>0, <1>3
     DEF OpenRefused, Goto, streamVars, riskVars, countVars, claimVars,
         NoFault, ConsumerKnows, TrackedIsPersisted, Counted
<1>9. QED
  BY <1>1, <1>2, <1>4, <1>5, <1>6, <1>7, <1>8

\* The OPEN event is paid for by the claim, and allows one more CLOSE.
LEMMA PublishOpenInv ==
    ASSUME BridgeInv, PublishOpen
    PROVE  BridgeInv'
<1> USE BridgeAssumption DEF BridgeInv
<1>0. Counted
  BY CountedFacts
<1>1. BridgeTypeOK'
  <2>1. opens' \in [Ids -> Nat]
    BY <1>0
       DEF PublishOpen, Goto, Raise, Up, streamVars, riskVars, claimVars,
           NoFault, Fault, Counted, ConsumerKnows, Delivered
  <2>2. faults' \in 0 .. MaxFaults
    <3>1. Fault \/ NoFault
      BY DEF PublishOpen, Goto, Raise, Up, streamVars, riskVars, claimVars
    <3>2. QED
      BY <3>1, FaultType
  <2>3. pc' \in ConsumerSteps
    BY <1>0
       DEF PublishOpen, Goto, Raise, Up, streamVars, riskVars, claimVars,
           NoFault, Fault, Counted, ConsumerSteps, BridgeTypeOK, Ids
  <2>4. cur' \in Ids \cup {NoSig}
    BY <1>0
       DEF PublishOpen, Goto, Raise, Up, streamVars, riskVars, claimVars,
           NoFault, Fault, Counted, BridgeTypeOK, Ids
  <2>5. QED
    BY <2>1, <2>2, <2>3, <2>4
       DEF PublishOpen, streamVars, riskVars, claimVars, BridgeTypeOK
<1>2. StreamShape'
  BY <1>0
     DEF PublishOpen, Goto, Raise, Up, streamVars, riskVars, claimVars,
         NoFault, Fault, Counted, StreamShape, Delivered, ConsumerKnows
<1>3. Counted'
  BY <1>1, <1>2, CountedNext
<1>4. ConsumerKnows'
  <2>1. CASE pc' = "idle"
    BY <2>1 DEF ConsumerKnows
  <2>2. CASE pc' = "persist"
    <3>1. /\ cur' = cur /\ unread' = unread /\ signals' = signals /\ track' = track
          /\ claims' = claims /\ persisted' = persisted /\ opens' = Up(opens, cur)
          /\ pc = "open"
      BY <2>2 DEF PublishOpen, Goto, Raise, streamVars, claimVars, riskVars
    <3>2. cur \in Ids /\ cur \in Delivered /\ cur \in Delivered' /\ signals[cur] # Reject
      BY <3>1 DEF ConsumerKnows, Delivered
    <3>3. opens[cur] \in Nat /\ opens'[cur] = opens[cur] + 1
      BY <1>0, <3>1, <3>2, UpFacts DEF Counted
    <3>4. claims[cur] = 1 => track[cur] = "none" /\ cur \notin persisted
      BY <3>1, <3>2, <3>3 DEF ConsumerKnows, PositionKnows
    <3>5. opens'[cur] > 0
      BY <3>3
    <3>6. QED
      BY <2>2, <3>1, <3>2, <3>4, <3>5 DEF ConsumerKnows
  <2>3. QED
    BY <2>1, <2>2 DEF PublishOpen, Goto, Raise
<1>5. ASSUME NEW k \in Ids PROVE PositionKnows(k)'
  <2>1. CASE k # cur
    <3>1. Same(k)
      BY <2>1, <1>0
         DEF PublishOpen, Goto, Raise, Up, streamVars, riskVars, claimVars,
             NoFault, Fault, Same, NoSig, Opening, Delivered, Counted
    <3>2. QED
      BY <3>1, <1>0, <1>3, Frame
  <2>2. CASE k = cur /\ faults' = faults
    BY <2>2, <1>0, <1>3
       DEF PublishOpen, Goto, Raise, Up, streamVars, riskVars, claimVars,
           NoFault, Fault, ConsumerKnows, PositionKnows, EventsMatch, Counted,
           Delivered, Opening, Watching
  <2>3. CASE k = cur /\ faults' # faults
    BY <2>3, <1>0, <1>3
       DEF PublishOpen, Goto, Raise, Up, streamVars, riskVars, claimVars,
           NoFault, Fault, ConsumerKnows, PositionKnows, EventsMatch, Counted,
           Delivered, Opening, Watching
  <2>4. QED
    BY <2>1, <2>2, <2>3
<1>6. OpenedOncePerClaim'
  BY <1>0, <1>3
     DEF PublishOpen, Goto, Raise, Up, streamVars, riskVars, claimVars,
         NoFault, Fault, ConsumerKnows, OpenedOncePerClaim, Counted
<1>7. EventsMatch'
  BY <1>0, <1>3
     DEF PublishOpen, Goto, Raise, Up, streamVars, riskVars, claimVars,
         NoFault, Fault, PositionKnows, EventsMatch, Watching, Counted
<1>8. TrackedIsPersisted'
  BY <1>0, <1>3
     DEF PublishOpen, Goto, Raise, Up, streamVars, riskVars, claimVars,
         NoFault, Fault, ConsumerKnows, TrackedIsPersisted, Counted
<1>9. QED
  BY <1>1, <1>2, <1>4, <1>5, <1>6, <1>7, <1>8

\* The key is set while the consumer is still opening the position.
LEMMA PersistInv ==
    ASSUME BridgeInv, Persist
    PROVE  BridgeInv'
<1> USE BridgeAssumption DEF BridgeInv
<1>0. Counted
  BY CountedFacts
<1>1. BridgeTypeOK'
  <2>1. faults' \in 0 .. MaxFaults
    <3>1. Fault \/ NoFault
      BY DEF Persist, Goto, Raise, streamVars, countVars, claimVars
    <3>2. QED
      BY <3>1, FaultType
  <2>2. pc' \in ConsumerSteps
    BY <1>0
       DEF Persist, Goto, Raise, streamVars, countVars, claimVars, NoFault,
           Fault, Counted, ConsumerSteps, BridgeTypeOK, Ids
  <2>3. cur' \in Ids \cup {NoSig}
    BY <1>0
       DEF Persist, Goto, Raise, streamVars, countVars, claimVars, NoFault,
           Fault, Counted, BridgeTypeOK, Ids
  <2>4. persisted' \subseteq Ids
    BY <1>0
       DEF Persist, Goto, Raise, streamVars, countVars, claimVars, NoFault,
           Fault, Counted, ConsumerKnows, Delivered
  <2>5. QED
    BY <2>1, <2>2, <2>3, <2>4
       DEF Persist, streamVars, countVars, claimVars, BridgeTypeOK
<1>2. StreamShape'
  BY <1>0
     DEF Persist, Goto, Raise, streamVars, countVars, claimVars, NoFault,
         Fault, Counted, StreamShape, Delivered, ConsumerKnows
<1>3. Counted'
  BY <1>1, <1>2, CountedNext
<1>4. ConsumerKnows'
  BY <1>0, <1>3
     DEF Persist, Goto, Raise, streamVars, countVars, claimVars, NoFault,
         Fault, ConsumerKnows, PositionKnows, StreamShape, Counted, Delivered,
         Opening, Watching, NoSig
<1>5. ASSUME NEW k \in Ids PROVE PositionKnows(k)'
  <2>1. CASE k # cur
    <3>1. Same(k)
      BY <2>1, <1>0
         DEF Persist, Goto, Raise, streamVars, countVars, claimVars, NoFault,
             Fault, Same, NoSig, Opening, Delivered, Counted
    <3>2. QED
      BY <3>1, <1>0, <1>3, Frame
  <2>2. CASE k = cur /\ faults' = faults
    BY <2>2, <1>0, <1>3
       DEF Persist, Goto, Raise, streamVars, countVars, claimVars, NoFault,
           Fault, ConsumerKnows, PositionKnows, EventsMatch, Counted,
           Delivered, Opening, Watching
  <2>3. CASE k = cur /\ faults' # faults
    BY <2>3, <1>0, <1>3
       DEF Persist, Goto, Raise, streamVars, countVars, claimVars, NoFault,
           Fault, ConsumerKnows, PositionKnows, EventsMatch, Counted,
           Delivered, Opening, Watching
  <2>4. QED
    BY <2>1, <2>2, <2>3
<1>6. OpenedOncePerClaim'
  BY <1>0, <1>3
     DEF Persist, Goto, Raise, streamVars, countVars, claimVars, NoFault,
         Fault, ConsumerKnows, OpenedOncePerClaim, Counted
<1>7. EventsMatch'
  <2>1. opens' = opens /\ closes' = closes /\ books' = books
    BY DEF Persist, countVars
  <2>2. faults <= faults' /\ crashes <= crashes'
    BY <1>0
       DEF Persist, Goto, Raise, streamVars, countVars, claimVars, NoFault,
           Fault, Counted
  <2>3. QED
    BY <1>0, <1>3, <2>1, <2>2, EventsFrame
<1>8. TrackedIsPersisted'
  BY <1>0, <1>3
     DEF Persist, Goto, Raise, streamVars, countVars, claimVars, NoFault,
         Fault, ConsumerKnows, TrackedIsPersisted, Counted
<1>9. QED
  BY <1>1, <1>2, <1>4, <1>5, <1>6, <1>7, <1>8

\* The right to close goes from the consumer to the tracker it starts.
LEMMA TakeSlotInv ==
    ASSUME BridgeInv, TakeSlot
    PROVE  BridgeInv'
<1> USE BridgeAssumption DEF BridgeInv
<1>0. Counted
  BY CountedFacts
<1>1. BridgeTypeOK'
  <2>1. track' \in [Ids -> TrackerSteps]
    BY <1>0
       DEF TakeSlot, Goto, Raise, streamVars, countVars, claimVars, NoFault,
           Fault, Counted, TrackerSteps
  <2>2. faults' \in 0 .. MaxFaults
    <3>1. Fault \/ NoFault
      BY DEF TakeSlot, Goto, Raise, streamVars, countVars, claimVars
    <3>2. QED
      BY <3>1, FaultType
  <2>3. pc' \in ConsumerSteps
    BY <1>0
       DEF TakeSlot, Goto, Raise, streamVars, countVars, claimVars, NoFault,
           Fault, Counted, ConsumerSteps, BridgeTypeOK, Ids
  <2>4. cur' \in Ids \cup {NoSig}
    BY <1>0
       DEF TakeSlot, Goto, Raise, streamVars, countVars, claimVars, NoFault,
           Fault, Counted, BridgeTypeOK, Ids
  <2>5. slots' \subseteq Tickers
    <3>1. signals[cur] \in Tickers
      BY <1>0 DEF TakeSlot, ConsumerKnows, Counted
    <3>2. slots' = slots \/ slots' = slots \cup {signals[cur]}
      BY DEF TakeSlot
    <3>3. QED
      BY <1>0, <3>1, <3>2 DEF Counted
  <2>6. QED
    BY <2>1, <2>2, <2>3, <2>4, <2>5
       DEF TakeSlot, streamVars, countVars, claimVars, BridgeTypeOK
<1>2. StreamShape'
  BY <1>0
     DEF TakeSlot, Goto, Raise, streamVars, countVars, claimVars, NoFault,
         Fault, Counted, StreamShape, Delivered, ConsumerKnows
<1>3. Counted'
  BY <1>1, <1>2, CountedNext
<1>4. ConsumerKnows'
  BY <1>0, <1>3
     DEF TakeSlot, Goto, Raise, streamVars, countVars, claimVars, NoFault,
         Fault, ConsumerKnows, PositionKnows, StreamShape, Counted, Delivered,
         Opening, Watching, NoSig
<1>5. ASSUME NEW k \in Ids PROVE PositionKnows(k)'
  <2>1. CASE k # cur
    <3>1. Same(k)
      BY <2>1, <1>0
         DEF TakeSlot, Goto, Raise, streamVars, countVars, claimVars, NoFault,
             Fault, Same, NoSig, Opening, Delivered, Counted
    <3>2. QED
      BY <3>1, <1>0, <1>3, Frame
  <2>2. CASE k = cur /\ faults' = faults
    BY <2>2, <1>0, <1>3
       DEF TakeSlot, Goto, Raise, streamVars, countVars, claimVars, NoFault,
           Fault, ConsumerKnows, PositionKnows, EventsMatch, Counted,
           Delivered, Opening, Watching
  <2>3. CASE k = cur /\ faults' # faults
    BY <2>3, <1>0, <1>3
       DEF TakeSlot, Goto, Raise, streamVars, countVars, claimVars, NoFault,
           Fault, ConsumerKnows, PositionKnows, EventsMatch, Counted,
           Delivered, Opening, Watching
  <2>4. QED
    BY <2>1, <2>2, <2>3
<1>6. OpenedOncePerClaim'
  BY <1>0, <1>3
     DEF TakeSlot, Goto, Raise, streamVars, countVars, claimVars, NoFault,
         Fault, ConsumerKnows, OpenedOncePerClaim, Counted
<1>7. EventsMatch'
  <2>1. opens' = opens /\ closes' = closes /\ books' = books
    BY DEF TakeSlot, countVars
  <2>2. faults <= faults' /\ crashes <= crashes'
    BY <1>0
       DEF TakeSlot, Goto, Raise, streamVars, countVars, claimVars, NoFault,
           Fault, Counted
  <2>3. QED
    BY <1>0, <1>3, <2>1, <2>2, EventsFrame
<1>8. TrackedIsPersisted'
  BY <1>0, <1>3
     DEF TakeSlot, Goto, Raise, streamVars, countVars, claimVars, NoFault,
         Fault, ConsumerKnows, TrackedIsPersisted, Counted
<1>9. QED
  BY <1>1, <1>2, <1>4, <1>5, <1>6, <1>7, <1>8

\* The signal leaves the pending list.
LEMMA AckSignalInv ==
    ASSUME BridgeInv, AckSignal
    PROVE  BridgeInv'
<1> USE BridgeAssumption DEF BridgeInv
<1>0. Counted
  BY CountedFacts
<1>1. BridgeTypeOK'
  <2>1. faults' \in 0 .. MaxFaults
    <3>1. Fault \/ NoFault
      BY DEF AckSignal, riskVars, countVars, claimVars
    <3>2. QED
      BY <3>1, FaultType
  <2>2. pc' \in ConsumerSteps
    BY <1>0
       DEF AckSignal, NoFault, Fault, riskVars, countVars, claimVars, Counted,
           ConsumerSteps, BridgeTypeOK, Ids
  <2>3. cur' \in Ids \cup {NoSig}
    BY <1>0
       DEF AckSignal, NoFault, Fault, riskVars, countVars, claimVars, Counted,
           BridgeTypeOK, Ids
  <2>4. pel' \subseteq Ids
    BY <1>0
       DEF AckSignal, NoFault, Fault, riskVars, countVars, claimVars, Counted,
           BridgeTypeOK, Ids
  <2>5. QED
    BY <2>1, <2>2, <2>3, <2>4
       DEF AckSignal, riskVars, countVars, claimVars, BridgeTypeOK
<1>2. StreamShape'
  BY <1>0
     DEF AckSignal, NoFault, Fault, riskVars, countVars, claimVars, Counted,
         StreamShape, Delivered, ConsumerKnows
<1>3. Counted'
  BY <1>1, <1>2, CountedNext
<1>4. ConsumerKnows'
  BY <1>0, <1>3
     DEF AckSignal, NoFault, Fault, riskVars, countVars, claimVars,
         ConsumerKnows, PositionKnows, StreamShape, Counted, Delivered,
         Opening, Watching, NoSig
<1>5. ASSUME NEW k \in Ids PROVE PositionKnows(k)'
  <2>1. Same(k)
    BY <1>0, <1>3
       DEF AckSignal, NoFault, Fault, riskVars, countVars, claimVars, Same,
           Opening, ConsumerKnows, Delivered, NoSig, Counted
  <2>2. QED
    BY <2>1, <1>0, <1>3, Frame
<1>6. OpenedOncePerClaim'
  BY <1>0, <1>3
     DEF AckSignal, NoFault, Fault, riskVars, countVars, claimVars,
         ConsumerKnows, OpenedOncePerClaim, Counted
<1>7. EventsMatch'
  <2>1. opens' = opens /\ closes' = closes /\ books' = books
    BY DEF AckSignal, countVars
  <2>2. faults <= faults' /\ crashes <= crashes'
    BY <1>0 DEF AckSignal, NoFault, Fault, riskVars, countVars, claimVars, Counted
  <2>3. QED
    BY <1>0, <1>3, <2>1, <2>2, EventsFrame
<1>8. TrackedIsPersisted'
  BY <1>0, <1>3
     DEF AckSignal, NoFault, Fault, riskVars, countVars, claimVars,
         ConsumerKnows, TrackedIsPersisted, Counted
<1>9. QED
  BY <1>1, <1>2, <1>4, <1>5, <1>6, <1>7, <1>8

\* The tracker uses its right to close.
LEMMA PublishCloseInv ==
    ASSUME BridgeInv, NEW s \in Ids, PublishClose(s)
    PROVE  BridgeInv'
<1> USE BridgeAssumption DEF BridgeInv
<1>0. Counted
  BY CountedFacts
<1>1. BridgeTypeOK'
  <2>1. track' \in [Ids -> TrackerSteps]
    BY <1>0
       DEF PublishClose, Step, Dies, Up, streamVars, loopVars, riskVars,
           claimVars, NoFault, Fault, Counted, TrackerSteps
  <2>2. closes' \in [Ids -> Nat]
    BY <1>0
       DEF PublishClose, Step, Dies, Up, streamVars, loopVars, riskVars,
           claimVars, NoFault, Fault, Counted
  <2>3. faults' \in 0 .. MaxFaults
    <3>1. Fault \/ NoFault
      BY DEF PublishClose, Step, Dies, Up, streamVars, loopVars, riskVars,
             claimVars
    <3>2. QED
      BY <3>1, FaultType
  <2>4. QED
    BY <2>1, <2>2, <2>3
       DEF PublishClose, streamVars, loopVars, riskVars, claimVars,
           BridgeTypeOK
<1>2. StreamShape'
  BY <1>0
     DEF PublishClose, Step, Dies, Up, streamVars, loopVars, riskVars,
         claimVars, NoFault, Fault, Counted, StreamShape, Delivered,
         ConsumerKnows
<1>3. Counted'
  BY <1>1, <1>2, CountedNext
<1>4. ConsumerKnows'
  <2>1. /\ pc' = pc /\ cur' = cur /\ todo' = todo /\ unread' = unread /\ signals' = signals
        /\ claims' = claims /\ opens' = opens
    BY DEF PublishClose, loopVars, streamVars, claimVars, countVars
  <2>2. \A k \in Ids : track[k] = "none" => track'[k] = "none" /\ k # s
    BY <1>0 DEF PublishClose, Step, Dies, Counted
  <2>3. \A k \in Ids : k # s => (k \in persisted' <=> k \in persisted)
    BY DEF PublishClose, riskVars
  <2>4. \A k \in Delivered : k \in Ids /\ k \in Delivered'
    BY <2>1 DEF Delivered
  <2>5. todo \subseteq Ids
    BY <1>0 DEF Counted
  <2>6. QED
    BY <2>1, <2>2, <2>3, <2>4, <2>5 DEF ConsumerKnows
<1>5. ASSUME NEW k \in Ids PROVE PositionKnows(k)'
  <2>1. CASE k # s
    <3>1. track'[k] = track[k]
      BY <2>1, <1>0 DEF PublishClose, Step, Dies, Counted
    <3>2. opens'[k] = opens[k] /\ closes'[k] = closes[k] /\ books'[k] = books[k]
      BY <2>1, <1>0, UpFacts DEF PublishClose, countVars, Counted
    <3>3. k \in persisted' <=> k \in persisted
      BY <2>1 DEF PublishClose, riskVars
    <3>4. faults <= faults' /\ crashes <= crashes'
      BY <1>0 DEF PublishClose, Step, Dies, Fault, NoFault, Counted
    <3>5. pc' = pc /\ cur' = cur /\ unread' = unread /\ signals' = signals
      BY DEF PublishClose, loopVars, streamVars
    <3>6. QED
      BY <3>1, <3>2, <3>3, <3>4, <3>5, <1>0, <1>3, Frame
         DEF Same, Opening, Delivered
  <2>2. CASE k = s /\ faults' = faults
    BY <2>2, <1>0, <1>3
       DEF PublishClose, Step, Dies, Up, streamVars, loopVars, riskVars,
           claimVars, NoFault, Fault, PositionKnows, EventsMatch, Counted,
           Delivered, Opening, Watching
  <2>3. CASE k = s /\ faults' # faults
    BY <2>3, <1>0, <1>3
       DEF PublishClose, Step, Dies, Up, streamVars, loopVars, riskVars,
           claimVars, NoFault, Fault, PositionKnows, EventsMatch, Counted,
           Delivered, Opening, Watching
  <2>4. QED
    BY <2>1, <2>2, <2>3
<1>6. OpenedOncePerClaim'
  BY <1>0, <1>3
     DEF PublishClose, Step, Dies, Up, streamVars, loopVars, riskVars,
         claimVars, NoFault, Fault, ConsumerKnows, OpenedOncePerClaim, Counted
<1>7. EventsMatch'
  BY <1>0, <1>3
     DEF PublishClose, Step, Dies, Up, streamVars, loopVars, riskVars,
         claimVars, NoFault, Fault, PositionKnows, EventsMatch, Watching,
         Counted
<1>8. TrackedIsPersisted'
  BY <1>0, <1>3
     DEF PublishClose, Step, Dies, Up, streamVars, loopVars, riskVars,
         claimVars, NoFault, Fault, ConsumerKnows, TrackedIsPersisted, Counted
<1>9. QED
  BY <1>1, <1>2, <1>4, <1>5, <1>6, <1>7, <1>8

\* The result of an announced close goes into the daily PnL.
LEMMA BookInv ==
    ASSUME BridgeInv, NEW s \in Ids, Book(s)
    PROVE  BridgeInv'
<1> USE BridgeAssumption DEF BridgeInv
<1>0. Counted
  BY CountedFacts
<1>1. BridgeTypeOK'
  <2>1. track' \in [Ids -> TrackerSteps]
    BY <1>0
       DEF Book, Step, Dies, Up, streamVars, loopVars, claimVars, NoFault,
           Fault, Counted, TrackerSteps
  <2>2. books' \in [Ids -> Nat]
    BY <1>0
       DEF Book, Step, Dies, Up, streamVars, loopVars, claimVars, NoFault,
           Fault, Counted
  <2>3. faults' \in 0 .. MaxFaults
    <3>1. Fault \/ NoFault
      BY DEF Book, Step, Dies, Up, streamVars, loopVars, claimVars
    <3>2. QED
      BY <3>1, FaultType
  <2>4. pnl' \in Int
    BY <1>0
       DEF Book, Step, Dies, Up, streamVars, loopVars, claimVars, NoFault,
           Fault, Counted
  <2>5. QED
    BY <2>1, <2>2, <2>3, <2>4
       DEF Book, streamVars, loopVars, claimVars, BridgeTypeOK
<1>2. StreamShape'
  BY <1>0
     DEF Book, Step, Dies, Up, streamVars, loopVars, claimVars, NoFault, Fault,
         Counted, StreamShape, Delivered, ConsumerKnows
<1>3. Counted'
  BY <1>1, <1>2, CountedNext
<1>4. ConsumerKnows'
  <2>1. /\ pc' = pc /\ cur' = cur /\ todo' = todo /\ unread' = unread /\ signals' = signals
        /\ claims' = claims /\ opens' = opens
    BY DEF Book, loopVars, streamVars, claimVars, countVars
  <2>2. \A k \in Ids : track[k] = "none" => track'[k] = "none" /\ k # s
    BY <1>0 DEF Book, Step, Dies, Counted
  <2>3. \A k \in Ids : k # s => (k \in persisted' <=> k \in persisted)
    BY DEF Book, riskVars
  <2>4. \A k \in Delivered : k \in Ids /\ k \in Delivered'
    BY <2>1 DEF Delivered
  <2>5. todo \subseteq Ids
    BY <1>0 DEF Counted
  <2>6. QED
    BY <2>1, <2>2, <2>3, <2>4, <2>5 DEF ConsumerKnows
<1>5. ASSUME NEW k \in Ids PROVE PositionKnows(k)'
  <2>1. CASE k # s
    <3>1. track'[k] = track[k]
      BY <2>1, <1>0 DEF Book, Step, Dies, Counted
    <3>2. opens'[k] = opens[k] /\ closes'[k] = closes[k] /\ books'[k] = books[k]
      BY <2>1, <1>0, UpFacts DEF Book, countVars, Counted
    <3>3. k \in persisted' <=> k \in persisted
      BY <2>1 DEF Book, riskVars
    <3>4. faults <= faults' /\ crashes <= crashes'
      BY <1>0 DEF Book, Step, Dies, Fault, NoFault, Counted
    <3>5. pc' = pc /\ cur' = cur /\ unread' = unread /\ signals' = signals
      BY DEF Book, loopVars, streamVars
    <3>6. QED
      BY <3>1, <3>2, <3>3, <3>4, <3>5, <1>0, <1>3, Frame
         DEF Same, Opening, Delivered
  <2>2. CASE k = s /\ faults' = faults
    BY <2>2, <1>0, <1>3
       DEF Book, Step, Dies, Up, streamVars, loopVars, claimVars, NoFault,
           Fault, PositionKnows, EventsMatch, Counted, Delivered, Opening,
           Watching
  <2>3. CASE k = s /\ faults' # faults
    BY <2>3, <1>0, <1>3
       DEF Book, Step, Dies, Up, streamVars, loopVars, claimVars, NoFault,
           Fault, PositionKnows, EventsMatch, Counted, Delivered, Opening,
           Watching
  <2>4. QED
    BY <2>1, <2>2, <2>3
<1>6. OpenedOncePerClaim'
  BY <1>0, <1>3
     DEF Book, Step, Dies, Up, streamVars, loopVars, claimVars, NoFault, Fault,
         ConsumerKnows, OpenedOncePerClaim, Counted
<1>7. EventsMatch'
  BY <1>0, <1>3
     DEF Book, Step, Dies, Up, streamVars, loopVars, claimVars, NoFault, Fault,
         PositionKnows, EventsMatch, Watching, Counted
<1>8. TrackedIsPersisted'
  BY <1>0, <1>3
     DEF Book, Step, Dies, Up, streamVars, loopVars, claimVars, NoFault, Fault,
         ConsumerKnows, TrackedIsPersisted, Counted
<1>9. QED
  BY <1>1, <1>2, <1>4, <1>5, <1>6, <1>7, <1>8

\* The key of a booked position is deleted.
LEMMA ForgetInv ==
    ASSUME BridgeInv, NEW s \in Ids, Forget(s)
    PROVE  BridgeInv'
<1> USE BridgeAssumption DEF BridgeInv
<1>0. Counted
  BY CountedFacts
<1>1. BridgeTypeOK'
  <2>1. track' \in [Ids -> TrackerSteps]
    BY <1>0
       DEF Forget, Step, Dies, streamVars, loopVars, countVars, claimVars,
           NoFault, Fault, Counted, TrackerSteps
  <2>2. faults' \in 0 .. MaxFaults
    <3>1. Fault \/ NoFault
      BY DEF Forget, Step, Dies, streamVars, loopVars, countVars, claimVars
    <3>2. QED
      BY <3>1, FaultType
  <2>3. persisted' \subseteq Ids
    BY <1>0
       DEF Forget, Step, Dies, streamVars, loopVars, countVars, claimVars,
           NoFault, Fault, Counted, ConsumerKnows, Delivered
  <2>4. QED
    BY <2>1, <2>2, <2>3
       DEF Forget, streamVars, loopVars, countVars, claimVars, BridgeTypeOK
<1>2. StreamShape'
  BY <1>0
     DEF Forget, Step, Dies, streamVars, loopVars, countVars, claimVars,
         NoFault, Fault, Counted, StreamShape, Delivered, ConsumerKnows
<1>3. Counted'
  BY <1>1, <1>2, CountedNext
<1>4. ConsumerKnows'
  <2>1. /\ pc' = pc /\ cur' = cur /\ todo' = todo /\ unread' = unread /\ signals' = signals
        /\ claims' = claims /\ opens' = opens
    BY DEF Forget, loopVars, streamVars, claimVars, countVars
  <2>2. \A k \in Ids : track[k] = "none" => track'[k] = "none" /\ k # s
    BY <1>0 DEF Forget, Step, Dies, Counted
  <2>3. \A k \in Ids : k # s => (k \in persisted' <=> k \in persisted)
    BY DEF Forget, riskVars
  <2>4. \A k \in Delivered : k \in Ids /\ k \in Delivered'
    BY <2>1 DEF Delivered
  <2>5. todo \subseteq Ids
    BY <1>0 DEF Counted
  <2>6. QED
    BY <2>1, <2>2, <2>3, <2>4, <2>5 DEF ConsumerKnows
<1>5. ASSUME NEW k \in Ids PROVE PositionKnows(k)'
  <2>1. CASE k # s
    <3>1. track'[k] = track[k]
      BY <2>1, <1>0 DEF Forget, Step, Dies, Counted
    <3>2. opens'[k] = opens[k] /\ closes'[k] = closes[k] /\ books'[k] = books[k]
      BY <2>1, <1>0, UpFacts DEF Forget, countVars, Counted
    <3>3. k \in persisted' <=> k \in persisted
      BY <2>1 DEF Forget, riskVars
    <3>4. faults <= faults' /\ crashes <= crashes'
      BY <1>0 DEF Forget, Step, Dies, Fault, NoFault, Counted
    <3>5. pc' = pc /\ cur' = cur /\ unread' = unread /\ signals' = signals
      BY DEF Forget, loopVars, streamVars
    <3>6. QED
      BY <3>1, <3>2, <3>3, <3>4, <3>5, <1>0, <1>3, Frame
         DEF Same, Opening, Delivered
  <2>2. CASE k = s /\ faults' = faults
    BY <2>2, <1>0, <1>3
       DEF Forget, Step, Dies, streamVars, loopVars, countVars, claimVars,
           NoFault, Fault, PositionKnows, EventsMatch, Counted, Delivered,
           Opening, Watching
  <2>3. CASE k = s /\ faults' # faults
    BY <2>3, <1>0, <1>3
       DEF Forget, Step, Dies, streamVars, loopVars, countVars, claimVars,
           NoFault, Fault, PositionKnows, EventsMatch, Counted, Delivered,
           Opening, Watching
  <2>4. QED
    BY <2>1, <2>2, <2>3
<1>6. OpenedOncePerClaim'
  BY <1>0, <1>3
     DEF Forget, Step, Dies, streamVars, loopVars, countVars, claimVars,
         NoFault, Fault, ConsumerKnows, OpenedOncePerClaim, Counted
<1>7. EventsMatch'
  <2>1. opens' = opens /\ closes' = closes /\ books' = books
    BY DEF Forget, countVars
  <2>2. faults <= faults' /\ crashes <= crashes'
    BY <1>0
       DEF Forget, Step, Dies, streamVars, loopVars, countVars, claimVars,
           NoFault, Fault, Counted
  <2>3. QED
    BY <1>0, <1>3, <2>1, <2>2, EventsFrame
<1>8. TrackedIsPersisted'
  BY <1>0, <1>3
     DEF Forget, Step, Dies, streamVars, loopVars, countVars, claimVars,
         NoFault, Fault, ConsumerKnows, TrackedIsPersisted, Counted
<1>9. QED
  BY <1>1, <1>2, <1>4, <1>5, <1>6, <1>7, <1>8

\* The ticker leaves the set of open positions.
LEMMA FreeSlotInv ==
    ASSUME BridgeInv, NEW s \in Ids, FreeSlot(s)
    PROVE  BridgeInv'
<1> USE BridgeAssumption DEF BridgeInv
<1>0. Counted
  BY CountedFacts
<1>1. BridgeTypeOK'
  <2>1. track' \in [Ids -> TrackerSteps]
    BY <1>0
       DEF FreeSlot, Step, Dies, streamVars, loopVars, countVars, claimVars,
           NoFault, Fault, Counted, TrackerSteps
  <2>2. faults' \in 0 .. MaxFaults
    <3>1. Fault \/ NoFault
      BY DEF FreeSlot, Step, Dies, streamVars, loopVars, countVars, claimVars
    <3>2. QED
      BY <3>1, FaultType
  <2>3. slots' \subseteq Tickers
    BY <1>0
       DEF FreeSlot, Step, Dies, streamVars, loopVars, countVars, claimVars,
           NoFault, Fault, Counted, ConsumerKnows, PositionKnows, StreamShape
  <2>4. QED
    BY <2>1, <2>2, <2>3
       DEF FreeSlot, streamVars, loopVars, countVars, claimVars, BridgeTypeOK
<1>2. StreamShape'
  BY <1>0
     DEF FreeSlot, Step, Dies, streamVars, loopVars, countVars, claimVars,
         NoFault, Fault, Counted, StreamShape, Delivered, ConsumerKnows
<1>3. Counted'
  BY <1>1, <1>2, CountedNext
<1>4. ConsumerKnows'
  <2>1. /\ pc' = pc /\ cur' = cur /\ todo' = todo /\ unread' = unread /\ signals' = signals
        /\ claims' = claims /\ opens' = opens
    BY DEF FreeSlot, loopVars, streamVars, claimVars, countVars
  <2>2. \A k \in Ids : track[k] = "none" => track'[k] = "none" /\ k # s
    BY <1>0 DEF FreeSlot, Step, Dies, Counted
  <2>3. \A k \in Ids : k # s => (k \in persisted' <=> k \in persisted)
    BY DEF FreeSlot, riskVars
  <2>4. \A k \in Delivered : k \in Ids /\ k \in Delivered'
    BY <2>1 DEF Delivered
  <2>5. todo \subseteq Ids
    BY <1>0 DEF Counted
  <2>6. QED
    BY <2>1, <2>2, <2>3, <2>4, <2>5 DEF ConsumerKnows
<1>5. ASSUME NEW k \in Ids PROVE PositionKnows(k)'
  <2>1. CASE k # s
    <3>1. track'[k] = track[k]
      BY <2>1, <1>0 DEF FreeSlot, Step, Dies, Counted
    <3>2. opens'[k] = opens[k] /\ closes'[k] = closes[k] /\ books'[k] = books[k]
      BY <2>1, <1>0, UpFacts DEF FreeSlot, countVars, Counted
    <3>3. k \in persisted' <=> k \in persisted
      BY <2>1 DEF FreeSlot, riskVars
    <3>4. faults <= faults' /\ crashes <= crashes'
      BY <1>0 DEF FreeSlot, Step, Dies, Fault, NoFault, Counted
    <3>5. pc' = pc /\ cur' = cur /\ unread' = unread /\ signals' = signals
      BY DEF FreeSlot, loopVars, streamVars
    <3>6. QED
      BY <3>1, <3>2, <3>3, <3>4, <3>5, <1>0, <1>3, Frame
         DEF Same, Opening, Delivered
  <2>2. CASE k = s /\ faults' = faults
    BY <2>2, <1>0, <1>3
       DEF FreeSlot, Step, Dies, streamVars, loopVars, countVars, claimVars,
           NoFault, Fault, PositionKnows, EventsMatch, Counted, Delivered,
           Opening, Watching
  <2>3. CASE k = s /\ faults' # faults
    BY <2>3, <1>0, <1>3
       DEF FreeSlot, Step, Dies, streamVars, loopVars, countVars, claimVars,
           NoFault, Fault, PositionKnows, EventsMatch, Counted, Delivered,
           Opening, Watching
  <2>4. QED
    BY <2>1, <2>2, <2>3
<1>6. OpenedOncePerClaim'
  BY <1>0, <1>3
     DEF FreeSlot, Step, Dies, streamVars, loopVars, countVars, claimVars,
         NoFault, Fault, ConsumerKnows, OpenedOncePerClaim, Counted
<1>7. EventsMatch'
  <2>1. opens' = opens /\ closes' = closes /\ books' = books
    BY DEF FreeSlot, countVars
  <2>2. faults <= faults' /\ crashes <= crashes'
    BY <1>0
       DEF FreeSlot, Step, Dies, streamVars, loopVars, countVars, claimVars,
           NoFault, Fault, Counted
  <2>3. QED
    BY <1>0, <1>3, <2>1, <2>2, EventsFrame
<1>8. TrackedIsPersisted'
  BY <1>0, <1>3
     DEF FreeSlot, Step, Dies, streamVars, loopVars, countVars, claimVars,
         NoFault, Fault, ConsumerKnows, TrackedIsPersisted, Counted
<1>9. QED
  BY <1>1, <1>2, <1>4, <1>5, <1>6, <1>7, <1>8

\* The cooldown is set and the tracker ends.
LEMMA CoolInv ==
    ASSUME BridgeInv, NEW s \in Ids, Cool(s)
    PROVE  BridgeInv'
<1> USE BridgeAssumption DEF BridgeInv
<1>0. Counted
  BY CountedFacts
<1>1. BridgeTypeOK'
  <2>1. track' \in [Ids -> TrackerSteps]
    BY <1>0
       DEF Cool, Step, Dies, streamVars, loopVars, countVars, claimVars,
           NoFault, Fault, Counted, TrackerSteps
  <2>2. faults' \in 0 .. MaxFaults
    <3>1. Fault \/ NoFault
      BY DEF Cool, Step, Dies, streamVars, loopVars, countVars, claimVars
    <3>2. QED
      BY <3>1, FaultType
  <2>3. cooldown' \subseteq Tickers
    <3>1. signals[s] \in Tickers
      BY <1>0 DEF Cool, PositionKnows, Counted
    <3>2. cooldown' = cooldown \/ cooldown' = cooldown \cup {signals[s]}
      BY DEF Cool
    <3>3. QED
      BY <1>0, <3>1, <3>2 DEF Counted
  <2>4. QED
    BY <2>1, <2>2, <2>3
       DEF Cool, streamVars, loopVars, countVars, claimVars, BridgeTypeOK
<1>2. StreamShape'
  BY <1>0
     DEF Cool, Step, Dies, streamVars, loopVars, countVars, claimVars, NoFault,
         Fault, Counted, StreamShape, Delivered, ConsumerKnows
<1>3. Counted'
  BY <1>1, <1>2, CountedNext
<1>4. ConsumerKnows'
  <2>1. /\ pc' = pc /\ cur' = cur /\ todo' = todo /\ unread' = unread /\ signals' = signals
        /\ claims' = claims /\ opens' = opens
    BY DEF Cool, loopVars, streamVars, claimVars, countVars
  <2>2. \A k \in Ids : track[k] = "none" => track'[k] = "none" /\ k # s
    BY <1>0 DEF Cool, Step, Dies, Counted
  <2>3. \A k \in Ids : k # s => (k \in persisted' <=> k \in persisted)
    BY DEF Cool, riskVars
  <2>4. \A k \in Delivered : k \in Ids /\ k \in Delivered'
    BY <2>1 DEF Delivered
  <2>5. todo \subseteq Ids
    BY <1>0 DEF Counted
  <2>6. QED
    BY <2>1, <2>2, <2>3, <2>4, <2>5 DEF ConsumerKnows
<1>5. ASSUME NEW k \in Ids PROVE PositionKnows(k)'
  <2>1. CASE k # s
    <3>1. track'[k] = track[k]
      BY <2>1, <1>0 DEF Cool, Step, Dies, Counted
    <3>2. opens'[k] = opens[k] /\ closes'[k] = closes[k] /\ books'[k] = books[k]
      BY <2>1, <1>0, UpFacts DEF Cool, countVars, Counted
    <3>3. k \in persisted' <=> k \in persisted
      BY <2>1 DEF Cool, riskVars
    <3>4. faults <= faults' /\ crashes <= crashes'
      BY <1>0 DEF Cool, Step, Dies, Fault, NoFault, Counted
    <3>5. pc' = pc /\ cur' = cur /\ unread' = unread /\ signals' = signals
      BY DEF Cool, loopVars, streamVars
    <3>6. QED
      BY <3>1, <3>2, <3>3, <3>4, <3>5, <1>0, <1>3, Frame
         DEF Same, Opening, Delivered
  <2>2. CASE k = s /\ faults' = faults
    BY <2>2, <1>0, <1>3
       DEF Cool, Step, Dies, streamVars, loopVars, countVars, claimVars,
           NoFault, Fault, PositionKnows, EventsMatch, Counted, Delivered,
           Opening, Watching
  <2>3. CASE k = s /\ faults' # faults
    BY <2>3, <1>0, <1>3
       DEF Cool, Step, Dies, streamVars, loopVars, countVars, claimVars,
           NoFault, Fault, PositionKnows, EventsMatch, Counted, Delivered,
           Opening, Watching
  <2>4. QED
    BY <2>1, <2>2, <2>3
<1>6. OpenedOncePerClaim'
  BY <1>0, <1>3
     DEF Cool, Step, Dies, streamVars, loopVars, countVars, claimVars, NoFault,
         Fault, ConsumerKnows, OpenedOncePerClaim, Counted
<1>7. EventsMatch'
  <2>1. opens' = opens /\ closes' = closes /\ books' = books
    BY DEF Cool, countVars
  <2>2. faults <= faults' /\ crashes <= crashes'
    BY <1>0
       DEF Cool, Step, Dies, streamVars, loopVars, countVars, claimVars,
           NoFault, Fault, Counted
  <2>3. QED
    BY <1>0, <1>3, <2>1, <2>2, EventsFrame
<1>8. TrackedIsPersisted'
  BY <1>0, <1>3
     DEF Cool, Step, Dies, streamVars, loopVars, countVars, claimVars, NoFault,
         Fault, ConsumerKnows, TrackedIsPersisted, Counted
<1>9. QED
  BY <1>1, <1>2, <1>4, <1>5, <1>6, <1>7, <1>8

\* A cooldown expires.
LEMMA CooldownEndsInv ==
    ASSUME BridgeInv, NEW x \in Tickers, CooldownEnds(x)
    PROVE  BridgeInv'
<1> USE BridgeAssumption DEF BridgeInv
<1>0. Counted
  BY CountedFacts
<1>1. BridgeTypeOK'
  BY DEF CooldownEnds, streamVars, loopVars, countVars, claimVars, BridgeTypeOK
<1>2. StreamShape'
  BY <1>0
     DEF CooldownEnds, streamVars, loopVars, countVars, claimVars, Counted,
         StreamShape, Delivered, ConsumerKnows
<1>3. Counted'
  BY <1>1, <1>2, CountedNext
<1>4. ConsumerKnows'
  BY <1>0, <1>3
     DEF CooldownEnds, streamVars, loopVars, countVars, claimVars,
         ConsumerKnows, PositionKnows, StreamShape, Counted, Delivered,
         Opening, Watching, NoSig
<1>5. ASSUME NEW k \in Ids PROVE PositionKnows(k)'
  BY <1>0, <1>3
     DEF CooldownEnds, streamVars, loopVars, countVars, claimVars,
         ConsumerKnows, PositionKnows, StreamShape, EventsMatch, Counted,
         Delivered, Opening, Watching, NoSig
<1>6. OpenedOncePerClaim'
  BY <1>0, <1>3
     DEF CooldownEnds, streamVars, loopVars, countVars, claimVars,
         ConsumerKnows, OpenedOncePerClaim, Counted
<1>7. EventsMatch'
  <2>1. opens' = opens /\ closes' = closes /\ books' = books
    BY DEF CooldownEnds, countVars
  <2>2. faults <= faults' /\ crashes <= crashes'
    BY <1>0 DEF CooldownEnds, streamVars, loopVars, countVars, claimVars, Counted
  <2>3. QED
    BY <1>0, <1>3, <2>1, <2>2, EventsFrame
<1>8. TrackedIsPersisted'
  BY <1>0, <1>3
     DEF CooldownEnds, streamVars, loopVars, countVars, claimVars,
         ConsumerKnows, TrackedIsPersisted, Counted
<1>9. QED
  BY <1>1, <1>2, <1>4, <1>5, <1>6, <1>7, <1>8

\* A new day reads another PnL key.
LEMMA NewDayInv ==
    ASSUME BridgeInv, NewDay
    PROVE  BridgeInv'
<1> USE BridgeAssumption DEF BridgeInv
<1>0. Counted
  BY CountedFacts
<1>1. BridgeTypeOK'
  BY DEF NewDay, streamVars, loopVars, countVars, claimVars, BridgeTypeOK
<1>2. StreamShape'
  BY <1>0
     DEF NewDay, streamVars, loopVars, countVars, claimVars, Counted,
         StreamShape, Delivered, ConsumerKnows
<1>3. Counted'
  BY <1>1, <1>2, CountedNext
<1>4. ConsumerKnows'
  BY <1>0, <1>3
     DEF NewDay, streamVars, loopVars, countVars, claimVars, ConsumerKnows,
         PositionKnows, StreamShape, Counted, Delivered, Opening, Watching,
         NoSig
<1>5. ASSUME NEW k \in Ids PROVE PositionKnows(k)'
  BY <1>0, <1>3
     DEF NewDay, streamVars, loopVars, countVars, claimVars, ConsumerKnows,
         PositionKnows, StreamShape, EventsMatch, Counted, Delivered, Opening,
         Watching, NoSig
<1>6. OpenedOncePerClaim'
  BY <1>0, <1>3
     DEF NewDay, streamVars, loopVars, countVars, claimVars, ConsumerKnows,
         OpenedOncePerClaim, Counted
<1>7. EventsMatch'
  <2>1. opens' = opens /\ closes' = closes /\ books' = books
    BY DEF NewDay, countVars
  <2>2. faults <= faults' /\ crashes <= crashes'
    BY <1>0 DEF NewDay, streamVars, loopVars, countVars, claimVars, Counted
  <2>3. QED
    BY <1>0, <1>3, <2>1, <2>2, EventsFrame
<1>8. TrackedIsPersisted'
  BY <1>0, <1>3
     DEF NewDay, streamVars, loopVars, countVars, claimVars, ConsumerKnows,
         TrackedIsPersisted, Counted
<1>9. QED
  BY <1>1, <1>2, <1>4, <1>5, <1>6, <1>7, <1>8

\* A claim expires: the history of claims stays.
LEMMA ClaimExpiresInv ==
    ASSUME BridgeInv, NEW s \in Ids, ClaimExpires(s)
    PROVE  BridgeInv'
<1> USE BridgeAssumption DEF BridgeInv
<1>0. Counted
  BY CountedFacts
<1>1. BridgeTypeOK'
  <2>1. claimed' \subseteq Ids
    BY <1>0
       DEF ClaimExpires, streamVars, loopVars, riskVars, countVars, Counted,
           ConsumerKnows, Delivered
  <2>2. expiries' \in 0 .. MaxExpiries
    BY <1>0
       DEF ClaimExpires, streamVars, loopVars, riskVars, countVars, Counted,
           BridgeTypeOK, Ids
  <2>3. QED
    BY <2>1, <2>2
       DEF ClaimExpires, streamVars, loopVars, riskVars, countVars,
           BridgeTypeOK
<1>2. StreamShape'
  BY <1>0
     DEF ClaimExpires, streamVars, loopVars, riskVars, countVars, Counted,
         StreamShape, Delivered, ConsumerKnows
<1>3. Counted'
  BY <1>1, <1>2, CountedNext
<1>4. ConsumerKnows'
  BY <1>0, <1>3
     DEF ClaimExpires, streamVars, loopVars, riskVars, countVars,
         ConsumerKnows, PositionKnows, StreamShape, Counted, Delivered,
         Opening, Watching, NoSig
<1>5. ASSUME NEW k \in Ids PROVE PositionKnows(k)'
  BY <1>0, <1>3
     DEF ClaimExpires, streamVars, loopVars, riskVars, countVars,
         ConsumerKnows, PositionKnows, StreamShape, EventsMatch, Counted,
         Delivered, Opening, Watching, NoSig
<1>6. OpenedOncePerClaim'
  BY <1>0, <1>3
     DEF ClaimExpires, streamVars, loopVars, riskVars, countVars,
         ConsumerKnows, OpenedOncePerClaim, Counted
<1>7. EventsMatch'
  <2>1. opens' = opens /\ closes' = closes /\ books' = books
    BY DEF ClaimExpires, countVars
  <2>2. faults <= faults' /\ crashes <= crashes'
    BY <1>0 DEF ClaimExpires, streamVars, loopVars, riskVars, countVars, Counted
  <2>3. QED
    BY <1>0, <1>3, <2>1, <2>2, EventsFrame
<1>8. TrackedIsPersisted'
  BY <1>0, <1>3
     DEF ClaimExpires, streamVars, loopVars, riskVars, countVars,
         ConsumerKnows, TrackedIsPersisted, Counted
<1>9. QED
  BY <1>1, <1>2, <1>4, <1>5, <1>6, <1>7, <1>8

\* The process dies; every tracker with it.
LEMMA CrashInv ==
    ASSUME BridgeInv, Crash
    PROVE  BridgeInv'
<1> USE BridgeAssumption DEF BridgeInv
<1>0. Counted
  BY CountedFacts
<1>1. BridgeTypeOK'
  BY DEF Crash, Halt, streamVars, riskVars, countVars, claimVars, BridgeTypeOK,
         ConsumerSteps, TrackerSteps, NoSig
<1>2. StreamShape'
  BY <1>0
     DEF Crash, Halt, streamVars, riskVars, countVars, claimVars, Counted,
         StreamShape, Delivered, ConsumerKnows
<1>3. Counted'
  BY <1>1, <1>2, CountedNext
<1>4. ConsumerKnows'
  BY <1>0, <1>3
     DEF Crash, Halt, streamVars, riskVars, countVars, claimVars,
         ConsumerKnows, PositionKnows, StreamShape, Counted, Delivered,
         Opening, Watching, NoSig
<1>5. ASSUME NEW k \in Ids PROVE PositionKnows(k)'
  BY <1>0, <1>3
     DEF Crash, Halt, streamVars, riskVars, countVars, claimVars,
         ConsumerKnows, PositionKnows, StreamShape, EventsMatch, Counted,
         Delivered, Opening, Watching, NoSig
<1>6. OpenedOncePerClaim'
  BY <1>0, <1>3
     DEF Crash, Halt, streamVars, riskVars, countVars, claimVars,
         ConsumerKnows, OpenedOncePerClaim, Counted
<1>7. EventsMatch'
  <2>1. opens' = opens /\ closes' = closes /\ books' = books
    BY DEF Crash, countVars
  <2>2. faults <= faults' /\ crashes <= crashes'
    BY <1>0 DEF Crash, streamVars, riskVars, countVars, claimVars, Counted
  <2>3. QED
    BY <1>0, <1>3, <2>1, <2>2, EventsFrame
<1>8. TrackedIsPersisted'
  BY <1>0, <1>3
     DEF Crash, Halt, streamVars, riskVars, countVars, claimVars,
         ConsumerKnows, TrackedIsPersisted, Counted
<1>9. QED
  BY <1>1, <1>2, <1>4, <1>5, <1>6, <1>7, <1>8

\* The process is started again.
LEMMA RestartInv ==
    ASSUME BridgeInv, Restart
    PROVE  BridgeInv'
<1> USE BridgeAssumption DEF BridgeInv
<1>0. Counted
  BY CountedFacts
<1>1. BridgeTypeOK'
  BY DEF Restart, streamVars, riskVars, countVars, claimVars, BridgeTypeOK,
         ConsumerSteps
<1>2. StreamShape'
  BY <1>0
     DEF Restart, streamVars, riskVars, countVars, claimVars, Counted,
         StreamShape, Delivered, ConsumerKnows
<1>3. Counted'
  BY <1>1, <1>2, CountedNext
<1>4. ConsumerKnows'
  BY <1>0, <1>3
     DEF Restart, streamVars, riskVars, countVars, claimVars, ConsumerKnows,
         PositionKnows, StreamShape, Counted, Delivered, Opening, Watching,
         NoSig
<1>5. ASSUME NEW k \in Ids PROVE PositionKnows(k)'
  BY <1>0, <1>3
     DEF Restart, streamVars, riskVars, countVars, claimVars, ConsumerKnows,
         PositionKnows, StreamShape, EventsMatch, Counted, Delivered, Opening,
         Watching, NoSig
<1>6. OpenedOncePerClaim'
  BY <1>0, <1>3
     DEF Restart, streamVars, riskVars, countVars, claimVars, ConsumerKnows,
         OpenedOncePerClaim, Counted
<1>7. EventsMatch'
  <2>1. opens' = opens /\ closes' = closes /\ books' = books
    BY DEF Restart, countVars
  <2>2. faults <= faults' /\ crashes <= crashes'
    BY <1>0 DEF Restart, streamVars, riskVars, countVars, claimVars, Counted
  <2>3. QED
    BY <1>0, <1>3, <2>1, <2>2, EventsFrame
<1>8. TrackedIsPersisted'
  BY <1>0, <1>3
     DEF Restart, streamVars, riskVars, countVars, claimVars, ConsumerKnows,
         TrackedIsPersisted, Counted
<1>9. QED
  BY <1>1, <1>2, <1>4, <1>5, <1>6, <1>7, <1>8

\* A producer adds a signal that nobody has read.
LEMMA SignalInv ==
    ASSUME BridgeInv, NEW x \in Tickers \cup {Reject}, Signal(x)
    PROVE  BridgeInv'
<1> USE BridgeAssumption DEF BridgeInv
<1>0. Counted
  BY CountedFacts
<1>1. BridgeTypeOK'
  <2>1. signals' \in Seq(Tickers \cup {Reject}) /\ Len(signals') <= MaxSignals
    BY <1>0
       DEF Signal, loopVars, riskVars, countVars, claimVars, Counted,
           BridgeTypeOK, Ids
  <2>2. QED
    BY <2>1 DEF Signal, loopVars, riskVars, countVars, claimVars, BridgeTypeOK
<1>2. StreamShape'
  BY <1>0
     DEF Signal, loopVars, riskVars, countVars, claimVars, Counted,
         StreamShape, Delivered, ConsumerKnows, BridgeTypeOK
<1>3. Counted'
  BY <1>1, <1>2, CountedNext
<1>4. ConsumerKnows'
  <2>1. \A k \in Delivered : k \in Delivered' /\ signals'[k] = signals[k]
    <3>1. Len(signals) \in Nat /\ signals \in Seq(Tickers \cup {Reject}) /\ unread \in Nat
      BY DEF BridgeTypeOK
    <3>2. \A k \in Delivered : k \in 1 .. Len(signals)
      BY <3>1, <1>0 DEF StreamShape, Delivered, Ids
    <3>3. QED
      BY <3>1, <3>2 DEF Signal, Delivered
  <2>2. /\ pc' = pc /\ cur' = cur /\ todo' = todo /\ track' = track /\ persisted' = persisted
        /\ claims' = claims /\ opens' = opens
    BY DEF Signal, loopVars, claimVars, riskVars, countVars
  <2>3. QED
    BY <2>1, <2>2 DEF ConsumerKnows
<1>5. ASSUME NEW k \in Ids PROVE PositionKnows(k)'
  BY <1>0, <1>3
     DEF Signal, loopVars, riskVars, countVars, claimVars, ConsumerKnows,
         PositionKnows, StreamShape, EventsMatch, Counted, Delivered, Opening,
         Watching, NoSig
<1>6. OpenedOncePerClaim'
  BY <1>0, <1>3
     DEF Signal, loopVars, riskVars, countVars, claimVars, ConsumerKnows,
         OpenedOncePerClaim, Counted
<1>7. EventsMatch'
  <2>1. opens' = opens /\ closes' = closes /\ books' = books
    BY DEF Signal, countVars
  <2>2. faults <= faults' /\ crashes <= crashes'
    BY <1>0 DEF Signal, loopVars, riskVars, countVars, claimVars, Counted
  <2>3. QED
    BY <1>0, <1>3, <2>1, <2>2, EventsFrame
<1>8. TrackedIsPersisted'
  BY <1>0, <1>3
     DEF Signal, loopVars, riskVars, countVars, claimVars, ConsumerKnows,
         TrackedIsPersisted, Counted
<1>9. QED
  BY <1>1, <1>2, <1>4, <1>5, <1>6, <1>7, <1>8

-------------------------------------------------------------------------------
(* The theorems. *)

\* The start: nothing is delivered, tracked, persisted or counted.
LEMMA BridgeInitInv == BridgeInit => BridgeInv
<1> SUFFICES ASSUME BridgeInit PROVE BridgeInv
  OBVIOUS
<1> USE BridgeAssumption
<1>1. BridgeTypeOK
  BY DEF BridgeInit, BridgeTypeOK, Ids, ConsumerSteps, TrackerSteps
<1>2. StreamShape
  BY DEF BridgeInit, StreamShape
<1>3. ConsumerKnows
  BY DEF BridgeInit, ConsumerKnows
<1>4. ASSUME NEW s \in Ids PROVE PositionKnows(s)
  <2>1. ~Opening(s) /\ ~Watching(s)
    BY DEF BridgeInit, Opening, Watching
  <2>2. QED
    BY <2>1 DEF BridgeInit, PositionKnows
<1>5. OpenedOncePerClaim /\ TrackedIsPersisted
  BY DEF BridgeInit, OpenedOncePerClaim, TrackedIsPersisted
<1>6. EventsMatch
  BY DEF BridgeInit, EventsMatch
<1>7. QED
  BY <1>1, <1>2, <1>3, <1>4, <1>5, <1>6 DEF BridgeInv

\* A step that changes nothing: the poll that finds no signal, or no step at all.
LEMMA StutterInv == BridgeInv /\ UNCHANGED bridgeVars => BridgeInv'
<1> SUFFICES ASSUME BridgeInv, UNCHANGED bridgeVars PROVE BridgeInv'
  OBVIOUS
<1>1. /\ signals' = signals /\ unread' = unread /\ pel' = pel
      /\ pc' = pc /\ cur' = cur /\ todo' = todo /\ track' = track
      /\ claimed' = claimed /\ claims' = claims /\ expiries' = expiries
      /\ persisted' = persisted /\ slots' = slots /\ cooldown' = cooldown /\ pnl' = pnl
      /\ opens' = opens /\ closes' = closes /\ books' = books
      /\ faults' = faults /\ crashes' = crashes
  BY DEF bridgeVars, streamVars, loopVars, claimVars, riskVars, countVars
<1>2. BridgeTypeOK' /\ StreamShape'
  BY <1>1 DEF BridgeInv, BridgeTypeOK, StreamShape, Delivered
<1>3. ConsumerKnows'
  BY <1>1 DEF BridgeInv, ConsumerKnows, Delivered
<1>4. \A s \in Ids : PositionKnows(s)'
  BY <1>1 DEF BridgeInv, PositionKnows, Opening, Watching, Delivered
<1>5. OpenedOncePerClaim' /\ EventsMatch' /\ TrackedIsPersisted'
  BY <1>1 DEF BridgeInv, OpenedOncePerClaim, EventsMatch, TrackedIsPersisted
<1>6. QED
  BY <1>2, <1>3, <1>4, <1>5 DEF BridgeInv

\* Every step of the bridge and its environment keeps the invariant.
LEMMA BridgeNextInv == BridgeInv /\ [BridgeNext]_bridgeVars => BridgeInv'
<1> SUFFICES ASSUME BridgeInv, [BridgeNext]_bridgeVars PROVE BridgeInv'
  OBVIOUS
<1>1. CASE Consumer
  <2>1. CASE ReadNothing
    BY <2>1, StutterInv DEF ReadNothing
  <2>2. CASE \E s \in Ids : Respawn(s) \/ Replay(s)
    BY <2>2, RespawnInv, ReplayInv
  <2>3. QED
    BY <1>1, <2>1, <2>2, ScanInv, RecoveredInv, RecoverPelInv, ReadSignalInv,
       IgnoreRejectInv,
       ClaimInv, OpenRefusedInv, PublishOpenInv, PersistInv, TakeSlotInv, AckSignalInv
       DEF Consumer
<1>2. ASSUME NEW s \in Ids, Tracker(s) PROVE BridgeInv'
  BY <1>2, PublishCloseInv, BookInv, ForgetInv, FreeSlotInv, CoolInv DEF Tracker
<1>3. ASSUME NEW s \in Ids, ClaimExpires(s) PROVE BridgeInv'
  BY <1>3, ClaimExpiresInv
<1>4. ASSUME NEW x \in Tickers, CooldownEnds(x) PROVE BridgeInv'
  BY <1>4, CooldownEndsInv
<1>5. ASSUME NEW x \in Tickers \cup {Reject}, Signal(x) PROVE BridgeInv'
  BY <1>5, SignalInv
<1>6. CASE NewDay \/ Crash \/ Restart
  BY <1>6, NewDayInv, CrashInv, RestartInv
<1>7. CASE UNCHANGED bridgeVars
  BY <1>7, StutterInv
<1>8. QED
  BY <1>1, <1>2, <1>3, <1>4, <1>5, <1>6, <1>7 DEF BridgeNext, BridgeStep

\* The inductive invariant holds in every behaviour of the bridge, for any number
\* of signals, tickers, failing commands, expired claims and crashes.
THEOREM BridgeInvariant == BridgeSpec => []BridgeInv
<1>1. QED
  BY BridgeInitInv, BridgeNextInv, PTL DEF BridgeSpec

\* No signal opens more positions than its claim was taken (pipeline.py, SET NX
\* before open_position).
THEOREM OpenedOncePerClaimHolds == BridgeSpec => []OpenedOncePerClaim
<1>1. BridgeInv => OpenedOncePerClaim
  BY DEF BridgeInv
<1>2. QED
  BY <1>1, BridgeInvariant, PTL

\* A position is closed only after it was opened, at most once more per
\* interruption, and each result is announced before it is booked.
THEOREM EventsMatchHolds == BridgeSpec => []EventsMatch
<1>1. BridgeInv => EventsMatch
  BY DEF BridgeInv
<1>2. QED
  BY <1>1, BridgeInvariant, PTL

\* Until its result is booked, a tracked position whose claim was taken once is in
\* Redis, where a restart finds it.
THEOREM TrackedIsPersistedHolds == BridgeSpec => []TrackedIsPersisted
<1>1. BridgeInv => TrackedIsPersisted
  BY DEF BridgeInv
<1>2. QED
  BY <1>1, BridgeInvariant, PTL

\* Only Forget deletes the key of a position.
LEMMA OnlyForgetDeletes ==
    ASSUME BridgeInv, BridgeNext, NEW k \in persisted, k \notin persisted'
    PROVE  Forget(k)
<1>1. ASSUME NEW s \in Ids, Tracker(s) PROVE Forget(k)
  <2>1. ~PublishClose(s) /\ ~Book(s) /\ ~FreeSlot(s) /\ ~Cool(s)
    BY DEF PublishClose, Book, FreeSlot, Cool, riskVars
  <2>2. Forget(s)
    BY <1>1, <2>1 DEF Tracker
  <2>3. QED
    BY <2>2 DEF Forget
<1>2. ~Consumer
  BY DEF Consumer, Scan, Recovered, RecoverPel, ReadSignal, ReadNothing,
         IgnoreReject, Claim,
         OpenRefused, PublishOpen, Persist, TakeSlot, AckSignal, Respawn, Replay, riskVars,
         bridgeVars
<1>3. /\ \A s \in Ids : ~ClaimExpires(s)
      /\ \A x \in Tickers : ~CooldownEnds(x)
      /\ ~NewDay /\ ~Crash /\ ~Restart
      /\ \A x \in Tickers \cup {Reject} : ~Signal(x)
  BY DEF ClaimExpires, CooldownEnds, NewDay, Crash, Restart, Signal, riskVars
<1>4. QED
  BY <1>1, <1>2, <1>3 DEF BridgeNext, BridgeStep

\* The key of a position goes only when its result is in the daily PnL.
THEOREM ForgottenOnlyWhenBookedHolds == BridgeSpec => ForgottenOnlyWhenBooked
<1>1. BridgeInv /\ [BridgeNext]_bridgeVars
        => [\A s \in persisted \ persisted' : books[s] > 0]_bridgeVars
  <2>1. ASSUME BridgeInv, BridgeNext, NEW s \in persisted, s \notin persisted'
        PROVE  books[s] > 0
    <3>1. track[s] = "forget"
      BY <2>1, OnlyForgetDeletes DEF Forget
    <3>2. s \in Ids
      BY <2>1 DEF BridgeInv, BridgeTypeOK
    <3>3. QED
      BY <2>1, <3>1, <3>2 DEF BridgeInv, PositionKnows
  <2>2. QED
    BY <2>1
<1>2. QED
  BY <1>1, BridgeInvariant, PTL DEF BridgeSpec, ForgottenOnlyWhenBooked

\* The types hold: no command takes a key or a counter out of its range.
THEOREM BridgeTypeOKHolds == BridgeSpec => []BridgeTypeOK
<1>1. BridgeInv => BridgeTypeOK
  BY DEF BridgeInv
<1>2. QED
  BY <1>1, BridgeInvariant, PTL
-------------------------------------------------------------------------------
(* The ticker set against the positions. *)

\* What one step of the bridge or of a producer may do to the failures.
LEMMA FailuresGrow ==
    ASSUME BridgeInv, [BridgeNext]_bridgeVars, faults' + crashes' = 0
    PROVE  faults = 0 /\ crashes = 0 /\ faults' = 0 /\ crashes' = 0
<1>1. faults \in Nat /\ crashes \in Nat
  BY BridgeAssumption DEF BridgeInv, BridgeTypeOK
<1>2. faults' = faults \/ faults' = faults + 1
  BY DEF BridgeNext, BridgeStep, Consumer, Scan, Respawn, Recovered, RecoverPel, Replay,
         ReadSignal, ReadNothing, IgnoreReject, Claim, OpenRefused, PublishOpen, Persist,
         TakeSlot, AckSignal, Tracker, PublishClose, Book, Forget, FreeSlot, Cool, Step,
         Dies, Goto, Raise, NoFault, Fault, CooldownEnds, NewDay, ClaimExpires, Crash,
         Restart, Signal, bridgeVars
<1>3. crashes' = crashes \/ crashes' = crashes + 1
  BY DEF BridgeNext, BridgeStep, Consumer, Scan, Respawn, Recovered, RecoverPel, Replay,
         ReadSignal, ReadNothing, IgnoreReject, Claim, OpenRefused, PublishOpen, Persist,
         TakeSlot, AckSignal, Tracker, PublishClose, Book, Forget, FreeSlot, Cool,
         CooldownEnds, NewDay, ClaimExpires, Crash, Restart, Signal, bridgeVars
<1>4. QED
  BY <1>1, <1>2, <1>3

\* In a run without failures each signal is read once, claimed once and
\* acknowledged before the next one.
LEMMA HandledOnceStep ==
    ASSUME BridgeInv, BridgeInv', HandledOnce, [BridgeNext]_bridgeVars
    PROVE  HandledOnce'
<1> SUFFICES ASSUME faults' + crashes' = 0
             PROVE  /\ pc' # "down" /\ todo' = {} /\ pel' \subseteq {cur'}
                    /\ pc' \in {"scan", "respawn", "pel", "idle"} => pel' = {}
                    /\ pc' \in {"scan", "respawn", "pel"} => persisted' = {}
                    /\ \A s \in Ids :
                          claims'[s] <= IF s < unread' /\ ~(pc' = "handle" /\ s = cur')
                                        THEN 1 ELSE 0
  BY DEF HandledOnce
<1>1. faults = 0 /\ crashes = 0 /\ faults' = 0 /\ crashes' = 0
  BY FailuresGrow
<1>2. Counted
  BY CountedFacts DEF BridgeInv
<1>3. ~Fault /\ crashes' # crashes + 1
  BY <1>1 DEF Fault
<1>4. /\ pc # "down" /\ todo = {} /\ pel \subseteq {cur}
      /\ pc \in {"scan", "respawn", "pel", "idle"} => pel = {}
      /\ pc \in {"scan", "respawn", "pel"} => persisted = {}
      /\ \A s \in Ids : claims[s] <= IF s < unread /\ ~(pc = "handle" /\ s = cur)
                                     THEN 1 ELSE 0
  BY <1>1 DEF HandledOnce
<1> USE DEF streamVars, loopVars, riskVars, countVars, claimVars
<1>5. CASE Scan \/ Recovered \/ RecoverPel
  BY <1>3, <1>4, <1>5 DEF Scan, Recovered, RecoverPel
<1>6. CASE \E s \in Ids : Respawn(s) \/ Replay(s)
  BY <1>4, <1>6 DEF Respawn, Replay
<1>7. CASE ReadSignal
  <2>1. /\ pc = "idle" /\ unread' = unread + 1 /\ pel' = pel \cup {unread}
        /\ pc' = "handle" /\ cur' = unread /\ UNCHANGED <<todo, persisted, claims>>
    BY <1>3, <1>7 DEF ReadSignal
  <2>2. unread \in Nat /\ Ids \subseteq Nat
    BY <1>2 DEF Counted
  <2>3. ASSUME NEW s \in Ids
        PROVE  claims'[s] <= IF s < unread' /\ ~(pc' = "handle" /\ s = cur') THEN 1 ELSE 0
    <3>1. claims[s] <= IF s < unread THEN 1 ELSE 0
      BY <1>4, <2>1
    <3>2. QED
      BY <2>1, <2>2, <3>1
  <2>4. QED
    BY <1>4, <2>1, <2>3
<1>8. CASE Claim
  <2>1. /\ pc = "handle" /\ cur \in Delivered /\ pc' \in {"open", "ack"}
        /\ UNCHANGED <<unread, pel, todo, persisted, cur>>
        /\ claims' = Up(claims, cur) \/ claims' = claims
    BY <1>3, <1>8 DEF Claim, Goto, Raise, BridgeInv, ConsumerKnows
  <2>2. claims \in [Ids -> Nat] /\ cur \in Ids /\ cur < unread
    BY <1>2, <2>1 DEF Counted, Delivered
  <2>3. claims[cur] = 0
    BY <1>4, <2>1, <2>2
  <2>4. QED
    BY <1>4, <2>1, <2>2, <2>3 DEF Up
<1>9. CASE AckSignal
  BY <1>3, <1>4, <1>9 DEF AckSignal
<1>10. CASE IgnoreReject \/ OpenRefused \/ PublishOpen \/ Persist \/ TakeSlot
  <2>1. /\ pc \in {"handle", "open", "persist", "slot"} /\ pc' \in {"persist", "slot", "ack"}
        /\ UNCHANGED <<unread, pel, todo, cur, claims>>
    BY <1>3, <1>10 DEF IgnoreReject, OpenRefused, PublishOpen, Persist, TakeSlot, Goto, Raise
  <2>2. cur \in Delivered
    BY <2>1 DEF BridgeInv, ConsumerKnows
  <2>3. \A s \in Ids : claims[s] <= IF s < unread THEN 1 ELSE 0
    BY <1>2, <1>4, <2>2 DEF Delivered, Counted
  <2>4. QED
    BY <1>4, <2>1, <2>3
<1>11. CASE \/ \E s \in Ids : Tracker(s) \/ ClaimExpires(s)
            \/ \E x \in Tickers : CooldownEnds(x)
            \/ NewDay \/ ReadNothing
            \/ \E x \in Tickers \cup {Reject} : Signal(x)
            \/ UNCHANGED bridgeVars
  <2>1. UNCHANGED <<pc, todo, pel, cur, claims, unread>> /\ persisted' \subseteq persisted
    BY <1>11 DEF Tracker, PublishClose, Book, Forget, FreeSlot, Cool, ClaimExpires,
                 CooldownEnds, NewDay, ReadNothing, Signal, bridgeVars
  <2>2. QED
    BY <1>4, <2>1
<1>12. CASE Crash \/ Restart
  BY <1>3, <1>4, <1>12 DEF Crash, Restart
<1>13. QED
  BY <1>5, <1>6, <1>7, <1>8, <1>9, <1>10, <1>11, <1>12 DEF BridgeNext, BridgeStep, Consumer

\* The signals the bridge has seen are ids, and in the stream.
SeenIds ==
    /\ unread \in Nat /\ Len(signals) \in Nat /\ unread <= Len(signals) + 1
    /\ \A s \in 1 .. unread - 1 : s \in Ids
    /\ \A s \in Ids : s < unread => s \in 1 .. unread - 1 /\ s \in 1 .. Len(signals)

LEMMA SeenAreIds == ASSUME BridgeInv PROVE SeenIds
<1>1. /\ unread \in 1 .. MaxSignals + 1 /\ unread <= Len(signals) + 1 /\ MaxSignals \in Nat
      /\ signals \in Seq(Tickers \cup {Reject})
  BY BridgeAssumption DEF BridgeInv, BridgeTypeOK, StreamShape
<1>2. Len(signals) \in Nat
  BY <1>1
<1>3. QED
  BY <1>1, <1>2 DEF SeenIds, Ids

LEMMA SeenAreIdsNext == ASSUME BridgeInv' PROVE SeenIds'
BY SeenAreIds, PTL

\* Steps that give no tracker a position and take nothing out of the ticker set.
LEMMA SlotsFrame ==
    ASSUME BridgeInv, BridgeInv', SlotsFollowPositions,
           \A s \in Ids : s < unread =>
               /\ s < unread' /\ signals'[s] = signals[s]
               /\ track[s] \notin {"none", "cool"} /\ faults' + crashes' = 0
                  => track'[s] \notin {"none", "cool"},
           \A s \in Ids : track'[s] \in {"watch", "book", "forget"}
                          => track[s] \in {"watch", "book", "forget"},
           Len(signals') >= Len(signals),
           \A u \in 1 .. Len(signals) : signals'[u] = signals[u],
           slots' = slots,
           faults' + crashes' = 0 => faults + crashes = 0
    PROVE  SlotsFollowPositions'
<1>0. Counted /\ Counted'
  BY CountedFacts, CountedNext DEF BridgeInv
<1>10. SeenIds /\ SeenIds'
  BY SeenAreIds, SeenAreIdsNext
<1>1. NoSlotLeaks'
  <2> SUFFICES ASSUME faults' + crashes' = 0, NEW x \in slots
               PROVE  \E s \in Ids : /\ s < unread' /\ signals'[s] = x
                                     /\ track'[s] \notin {"none", "cool"}
    BY DEF NoSlotLeaks
  <2>1. PICK s \in Ids : /\ s < unread /\ signals[s] = x
                         /\ track[s] \notin {"none", "cool"}
    BY DEF SlotsFollowPositions, NoSlotLeaks
  <2>2. QED
    BY <2>1
<1>2. OwnSlotHeld'
  <2> SUFFICES ASSUME NEW s \in 1 .. unread' - 1, track'[s] \in {"watch", "book", "forget"},
                      \A u \in 1 .. Len(signals') \ {s} : signals'[u] # signals'[s]
               PROVE  signals'[s] \in slots
    BY DEF OwnSlotHeld
  <2>1. s \in Ids
    BY <1>10 DEF SeenIds
  <2>2. track[s] \in {"watch", "book", "forget"}
    BY <2>1
  <2>3. s \in Delivered
    BY <2>1, <2>2 DEF BridgeInv, PositionKnows
  <2>4. /\ s < unread /\ unread \in Nat /\ Len(signals) \in Nat /\ unread <= Len(signals) + 1
        /\ Len(signals') \in Nat
    BY <1>10, <2>1, <2>3 DEF SeenIds, Delivered
  <2>5. s \in 1 .. unread - 1 /\ s \in 1 .. Len(signals)
    BY <2>4
  <2>6. \A u \in 1 .. Len(signals) \ {s} : signals[u] # signals[s]
    BY <2>4, <2>5
  <2>7. signals[s] \in slots
    BY <2>2, <2>5, <2>6 DEF SlotsFollowPositions, OwnSlotHeld
  <2>8. QED
    BY <2>5, <2>7
<1>3. QED
  BY <1>1, <1>2 DEF SlotsFollowPositions

\* A tracker starts with the slot of its ticker.
LEMMA SlotTaken ==
    ASSUME BridgeInv, BridgeInv', SlotsFollowPositions, NEW k \in Ids, k < unread,
           UNCHANGED <<signals, unread, crashes>>,
           \A s \in Ids \ {k} : track'[s] = track[s],
           slots' = slots \cup {signals[k]},
           faults' + crashes' = 0 => faults + crashes = 0 /\ track'[k] = "watch"
    PROVE  SlotsFollowPositions'
<1>0. Counted /\ Counted'
  BY CountedFacts, CountedNext DEF BridgeInv
<1>10. SeenIds /\ SeenIds'
  BY SeenAreIds, SeenAreIdsNext
<1>1. NoSlotLeaks'
  <2> SUFFICES ASSUME faults' + crashes' = 0, NEW x \in slots'
               PROVE  \E s \in Ids : /\ s < unread /\ signals[s] = x
                                     /\ track'[s] \notin {"none", "cool"}
    BY DEF NoSlotLeaks
  <2>1. CASE x = signals[k]
    BY <2>1
  <2>2. CASE x \in slots
    <3>1. PICK s \in Ids : /\ s < unread /\ signals[s] = x
                           /\ track[s] \notin {"none", "cool"}
      BY <2>2 DEF SlotsFollowPositions, NoSlotLeaks
    <3>2. track'[s] \notin {"none", "cool"}
      BY <3>1
    <3>3. QED
      BY <3>1, <3>2
  <2>3. QED
    BY <2>1, <2>2
<1>2. OwnSlotHeld'
  <2> SUFFICES ASSUME NEW s \in 1 .. unread - 1, track'[s] \in {"watch", "book", "forget"},
                      \A u \in 1 .. Len(signals) \ {s} : signals[u] # signals[s]
               PROVE  signals[s] \in slots'
    BY DEF OwnSlotHeld
  <2>1. s \in Ids
    BY <1>10 DEF SeenIds
  <2>2. CASE s = k
    BY <2>2
  <2>3. CASE s # k
    BY <2>1, <2>3 DEF SlotsFollowPositions, OwnSlotHeld
  <2>4. QED
    BY <2>2, <2>3
<1>3. QED
  BY <1>1, <1>2 DEF SlotsFollowPositions

\* A slot goes with its position; who holds another ticker's keeps it.
LEMMA FreeSlotSlots ==
    ASSUME BridgeInv, BridgeInv', SlotsFollowPositions, NEW k \in Ids, FreeSlot(k)
    PROVE  SlotsFollowPositions'
<1>0. Counted
  BY CountedFacts DEF BridgeInv
<1>10. SeenIds /\ SeenIds'
  BY SeenAreIds, SeenAreIdsNext
<1>1. /\ track[k] = "free" /\ UNCHANGED <<signals, unread, crashes>>
      /\ \A s \in Ids \ {k} : track'[s] = track[s]
      /\ track'[k] \in {"cool", "none"}
      /\ slots' = slots \ {signals[k]} \/ (slots' = slots /\ Fault)
      /\ NoFault \/ Fault
  BY <1>0 DEF FreeSlot, Step, Dies, streamVars, Counted
<1>2. k \in Delivered
  BY <1>1 DEF BridgeInv, PositionKnows
<1>3. NoSlotLeaks'
  <2> SUFFICES ASSUME faults' + crashes' = 0, NEW x \in slots'
               PROVE  \E s \in Ids : /\ s < unread /\ signals[s] = x
                                     /\ track'[s] \notin {"none", "cool"}
    BY <1>1 DEF NoSlotLeaks
  <2>1. faults = 0 /\ crashes = 0 /\ ~Fault
    BY <1>0, <1>1 DEF NoFault, Fault, Counted
  <2>2. PICK s \in Ids : /\ s < unread /\ signals[s] = x
                         /\ track[s] \notin {"none", "cool"}
    BY <1>1, <2>1 DEF SlotsFollowPositions, NoSlotLeaks
  <2>3. s # k
    BY <1>1, <2>1, <2>2
  <2>4. QED
    BY <1>1, <2>2, <2>3
<1>4. OwnSlotHeld'
  <2> SUFFICES ASSUME NEW s \in 1 .. unread - 1, track'[s] \in {"watch", "book", "forget"},
                      \A u \in 1 .. Len(signals) \ {s} : signals[u] # signals[s]
               PROVE  signals[s] \in slots'
    BY <1>1 DEF OwnSlotHeld
  <2>1. s \in Ids /\ s # k
    BY <1>1, <1>10 DEF SeenIds
  <2>2. signals[s] \in slots
    BY <1>1, <2>1 DEF SlotsFollowPositions, OwnSlotHeld
  <2>3. k \in 1 .. Len(signals)
    BY <1>2, <1>10 DEF SeenIds, Delivered
  <2>4. signals[k] # signals[s]
    BY <2>1, <2>3
  <2>5. QED
    BY <1>1, <2>2, <2>4
<1>5. QED
  BY <1>3, <1>4 DEF SlotsFollowPositions

\* After a crash nobody tracks a position, and something has failed.
LEMMA HaltedSlots ==
    ASSUME BridgeInv', track' = [s \in Ids |-> "none"], faults' + crashes' # 0
    PROVE  SlotsFollowPositions'
<1>1. \A s \in 1 .. unread' - 1 : s \in Ids
  BY SeenAreIdsNext DEF SeenIds
<1>2. QED
  BY <1>1 DEF SlotsFollowPositions, NoSlotLeaks, OwnSlotHeld

\* The ticker set follows the positions through every command.
LEMMA SlotsStep ==
    ASSUME BridgeInv, BridgeInv', HandledOnce, SlotsFollowPositions,
           [BridgeNext]_bridgeVars
    PROVE  SlotsFollowPositions'
<1>0. Counted /\ SeenIds
  BY CountedFacts, SeenAreIds DEF BridgeInv
<1>1. faults' + crashes' = 0 => faults + crashes = 0
  BY FailuresGrow
<1>20. Fault => faults' + crashes' # 0
  <2>1. \A a, b \in Nat : a + 1 + b # 0
    OBVIOUS
  <2>2. faults \in Nat /\ crashes' \in Nat
    BY BridgeAssumption DEF BridgeInv, BridgeTypeOK
  <2>3. QED
    BY <2>1, <2>2 DEF Fault
<1>2. faults \in Nat /\ crashes \in Nat /\ faults' \in Nat /\ crashes' \in Nat
  BY BridgeAssumption DEF BridgeInv, BridgeTypeOK
<1> USE DEF streamVars, loopVars, riskVars, countVars, claimVars
<1>3. CASE /\ UNCHANGED <<signals, unread, slots, track>>
  <2>1. Len(signals) \in Nat
    BY <1>0 DEF SeenIds
  <2>2. QED
    BY <1>1, <1>3, <2>1, SlotsFrame
<1>4. CASE Scan
  <2>1. CASE UNCHANGED track
    BY <1>3, <1>4, <2>1 DEF Scan
  <2>2. CASE Fault /\ Halt
    BY <1>20, <2>2, HaltedSlots DEF Halt
  <2>3. QED
    BY <1>4, <2>1, <2>2 DEF Scan
<1>5. ASSUME NEW s \in Ids, Respawn(s) PROVE SlotsFollowPositions'
  <2>1. CASE Fault /\ Halt
    BY <1>20, <2>1, HaltedSlots DEF Halt
  <2>2. CASE /\ slots' = slots \cup {signals[s]}
             /\ track' = [track EXCEPT ![s] = "watch"]
    <3>1. s < unread
      BY <1>5 DEF Respawn, BridgeInv, StreamShape, Delivered
    <3>2. /\ \A k \in Ids \ {s} : track'[k] = track[k]
          /\ track'[s] = "watch" /\ UNCHANGED <<signals, unread, crashes>>
      BY <1>0, <1>5, <2>2 DEF Respawn, Counted
    <3>3. QED
      BY <1>1, <2>2, <3>1, <3>2, SlotTaken
  <2>3. QED
    BY <1>5, <2>1, <2>2 DEF Respawn
<1>6. CASE TakeSlot
  <2>1. pc = "slot" /\ cur \in Ids /\ cur < unread
    BY <1>0, <1>6 DEF TakeSlot, BridgeInv, ConsumerKnows, Delivered, Counted
  <2>2. CASE UNCHANGED <<slots, track>>
    BY <1>3, <1>6, <2>2 DEF TakeSlot
  <2>3. CASE slots' = slots \cup {signals[cur]}
    <3>1. /\ UNCHANGED <<signals, unread, crashes>>
          /\ \A k \in Ids \ {cur} : track'[k] = track[k]
      BY <1>0, <1>6 DEF TakeSlot, Counted
    <3>2. ASSUME faults' + crashes' = 0 PROVE track'[cur] = "watch"
      <4>1. claims[cur] <= 1 /\ claims[cur] \in Nat
        BY <1>0, <1>1, <2>1, <3>2 DEF HandledOnce, Counted
      <4>2. opens[cur] > 0 /\ opens[cur] <= claims[cur] /\ opens[cur] \in Nat
        BY <1>0, <2>1 DEF BridgeInv, ConsumerKnows, OpenedOncePerClaim, Counted
      <4>3. claims[cur] = 1
        BY <4>1, <4>2
      <4>4. track[cur] = "none"
        BY <2>1, <4>3 DEF BridgeInv, ConsumerKnows
      <4>5. ~Fault
        BY <1>20, <3>2
      <4>6. QED
        BY <1>0, <1>6, <4>4, <4>5, <2>1 DEF TakeSlot, Raise, Counted
    <3>3. QED
      BY <1>1, <2>1, <2>3, <3>1, <3>2, SlotTaken
  <2>4. QED
    BY <1>6, <2>2, <2>3 DEF TakeSlot
<1>7. CASE ReadSignal
  <2>1. unread' = unread + 1 /\ UNCHANGED <<signals, slots, track>>
    BY <1>7 DEF ReadSignal
  <2>2. /\ Len(signals) \in Nat /\ unread \in Nat /\ Ids \subseteq Nat
    BY <1>0 DEF SeenIds, Counted
  <2>3. \A s \in Ids : s < unread => s < unread'
    BY <2>1, <2>2
  <2>4. QED
    BY <1>1, <2>1, <2>2, <2>3, SlotsFrame
<1>8. ASSUME NEW k \in Ids, PublishClose(k) \/ Book(k) \/ Forget(k) \/ Cool(k)
      PROVE  SlotsFollowPositions'
  <2>1. /\ UNCHANGED <<signals, unread, slots, crashes>>
        /\ \A s \in Ids \ {k} : track'[s] = track[s]
        /\ \/ track[k] = "watch" /\ track'[k] = "book"
           \/ track[k] = "book" /\ track'[k] = "forget"
           \/ track[k] = "forget" /\ track'[k] = "free"
           \/ track[k] = "cool" /\ track'[k] = "none"
           \/ track'[k] = "none" /\ Fault
    BY <1>0, <1>8 DEF PublishClose, Book, Forget, Cool, Step, Dies, Counted
  <2>2. faults' + crashes' = 0 => ~Fault
    BY <1>20
  <2>3. /\ \A s \in Ids : track[s] \notin {"none", "cool"} /\ faults' + crashes' = 0
                          => track'[s] \notin {"none", "cool"}
        /\ \A s \in Ids : track'[s] \in {"watch", "book", "forget"}
                          => track[s] \in {"watch", "book", "forget"}
    BY <2>1, <2>2
  <2>4. Len(signals) \in Nat
    BY <1>0 DEF SeenIds
  <2>5. QED
    BY <1>1, <2>1, <2>3, <2>4, SlotsFrame
<1>9. ASSUME NEW x \in Tickers \cup {Reject}, Signal(x) PROVE SlotsFollowPositions'
  <2>1. signals \in Seq(Tickers \cup {Reject}) /\ signals' = Append(signals, x)
        /\ UNCHANGED <<unread, slots, track>>
    BY <1>9 DEF Signal, BridgeInv, BridgeTypeOK
  <2>2. /\ Len(signals') >= Len(signals)
        /\ \A u \in 1 .. Len(signals) : signals'[u] = signals[u]
    BY <2>1
  <2>3. \A s \in Ids : s < unread => signals'[s] = signals[s]
    BY <1>0, <2>2 DEF SeenIds
  <2>4. QED
    BY <1>1, <2>1, <2>2, <2>3, SlotsFrame
<1>10. CASE Crash
  BY <1>2, <1>10, HaltedSlots DEF Crash, Halt
<1>11. ASSUME NEW k \in Ids, FreeSlot(k) PROVE SlotsFollowPositions'
  BY <1>11, FreeSlotSlots
<1>12. ASSUME \/ Recovered \/ RecoverPel \/ ReadNothing \/ IgnoreReject \/ Claim
              \/ OpenRefused \/ PublishOpen \/ Persist \/ AckSignal \/ Restart \/ NewDay
              \/ \E s \in Ids : Replay(s) \/ ClaimExpires(s)
              \/ \E x \in Tickers : CooldownEnds(x)
              \/ UNCHANGED bridgeVars
       PROVE  UNCHANGED <<signals, unread, slots, track>>
  BY <1>12 DEF Recovered, RecoverPel, ReadNothing, IgnoreReject, Claim, OpenRefused,
               PublishOpen, Persist, AckSignal, Restart, NewDay, Replay, ClaimExpires,
               CooldownEnds, bridgeVars
<1>13. QED
  BY <1>3, <1>4, <1>5, <1>6, <1>7, <1>8, <1>9, <1>10, <1>11, <1>12
     DEF BridgeNext, BridgeStep, Consumer, Tracker

LEMMA SlotsInvariant == BridgeSpec => []SlotsInv
<1>1. BridgeInit => SlotsInv
  BY BridgeAssumption
     DEF BridgeInit, SlotsInv, HandledOnce, SlotsFollowPositions, NoSlotLeaks, OwnSlotHeld,
         Ids, NoSig
<1>2. BridgeInv /\ BridgeInv' /\ SlotsInv /\ [BridgeNext]_bridgeVars => SlotsInv'
  BY HandledOnceStep, SlotsStep DEF SlotsInv
<1>3. QED
  BY <1>1, <1>2, BridgeInvariant, PTL DEF BridgeSpec

\* While nothing fails a ticker in the set has its position, and whatever fails a
\* tracked position has its ticker in the set, unless a second signal names it.
THEOREM SlotsFollowPositionsHolds == BridgeSpec => []SlotsFollowPositions
<1>1. SlotsInv => SlotsFollowPositions
  BY DEF SlotsInv
<1>2. QED
  BY <1>1, SlotsInvariant, PTL

-------------------------------------------------------------------------------
(* The bridge behind its producer. *)

\* What the bridge sees of a step of decision.
OutsideStep ==
    /\ UNCHANGED <<unread, pel, loopVars, track, claimVars, riskVars, countVars>>
    /\ signals' \in Seq(Tickers \cup {Reject}) /\ Len(signals') <= MaxSignals
    /\ Len(signals') >= Len(signals)
    /\ \A u \in 1 .. Len(signals) : signals'[u] = signals[u]
    /\ faults' \in 0 .. MaxFaults /\ crashes' \in 0 .. MaxCrashes
    /\ faults <= faults' /\ crashes <= crashes'

\* Nothing the bridge knows is disturbed by it.
LEMMA OutsideInv ==
    ASSUME BridgeInv, OutsideStep
    PROVE  BridgeInv'
<1> USE BridgeAssumption DEF BridgeInv
<1>0. Counted
  BY CountedFacts
<1>1. /\ pc' = pc /\ cur' = cur /\ todo' = todo /\ track' = track /\ unread' = unread
      /\ pel' = pel /\ claimed' = claimed /\ claims' = claims /\ expiries' = expiries
      /\ persisted' = persisted /\ slots' = slots /\ cooldown' = cooldown /\ pnl' = pnl
      /\ opens' = opens /\ closes' = closes /\ books' = books
  BY DEF OutsideStep, loopVars, riskVars, countVars, claimVars
<1>2. BridgeTypeOK'
  BY <1>1 DEF OutsideStep, BridgeTypeOK
<1>3. Len(signals) \in Nat /\ Len(signals') \in Nat /\ unread \in Nat
  <2>1. unread \in Nat
    BY DEF BridgeTypeOK
  <2>2. signals \in Seq(Tickers \cup {Reject}) /\ signals' \in Seq(Tickers \cup {Reject})
    BY DEF OutsideStep, BridgeTypeOK
  <2>3. QED
    BY <2>1, <2>2
<1>4. StreamShape'
  BY <1>1, <1>3 DEF OutsideStep, StreamShape, Delivered
<1>5. Counted'
  BY <1>2, <1>4, CountedNext
<1>6. \A k \in Delivered : k \in Delivered' /\ signals'[k] = signals[k]
  <2>1. \A k \in Delivered : k \in 1 .. Len(signals)
    BY <1>0, <1>3 DEF StreamShape, Delivered, Ids
  <2>2. QED
    BY <1>1, <2>1 DEF OutsideStep, Delivered
<1>7. ConsumerKnows'
  BY <1>1, <1>6 DEF ConsumerKnows
<1>8. ASSUME NEW k \in Ids PROVE PositionKnows(k)'
  <2>1. Same(k)
    BY <1>1, <1>6 DEF Same, OutsideStep, Opening
  <2>2. QED
    BY <1>0, <1>5, <2>1, Frame
<1>9. OpenedOncePerClaim' /\ TrackedIsPersisted'
  BY <1>1 DEF OpenedOncePerClaim, TrackedIsPersisted
<1>10. EventsMatch'
  BY <1>0, <1>1, <1>5, EventsFrame DEF OutsideStep
<1>11. QED
  BY <1>2, <1>4, <1>7, <1>8, <1>9, <1>10

LEMMA OutsideSlots ==
    ASSUME BridgeInv, BridgeInv', SlotsInv, OutsideStep
    PROVE  SlotsInv'
<1>1. /\ pc' = pc /\ cur' = cur /\ todo' = todo /\ track' = track /\ unread' = unread
      /\ pel' = pel /\ claims' = claims /\ persisted' = persisted /\ slots' = slots
  BY DEF OutsideStep, loopVars, riskVars, claimVars
<1>2. faults' + crashes' = 0 => faults + crashes = 0
  <2>1. \A a, b, c, d \in Nat : a <= c /\ b <= d /\ c + d = 0 => a + b = 0
    OBVIOUS
  <2>2. faults \in Nat /\ crashes \in Nat /\ faults' \in Nat /\ crashes' \in Nat
    BY BridgeAssumption DEF BridgeInv, BridgeTypeOK
  <2>3. QED
    BY <2>1, <2>2 DEF OutsideStep
<1>3. HandledOnce'
  BY <1>1, <1>2 DEF SlotsInv, HandledOnce
<1>4. SlotsFollowPositions'
  <2>1. \A s \in Ids : s < unread => signals'[s] = signals[s]
    BY SeenAreIds DEF SeenIds, OutsideStep
  <2>2. QED
    BY <1>1, <1>2, <2>1, SlotsFrame DEF SlotsInv, OutsideStep
<1>5. QED
  BY <1>3, <1>4 DEF SlotsInv

-------------------------------------------------------------------------------
(* What decision knows. *)

\* The types of decision's own state.
DecisionTypes ==
    /\ preds \in Seq(Tickers) /\ Len(preds) <= MaxSignals
    /\ dunread \in 1 .. Len(preds) + 1
    /\ dpel \subseteq 1 .. dunread - 1
    /\ dpc \in DecisionSteps
    /\ dcur \in 0 .. dunread - 1
    /\ dtodo \subseteq 1 .. dunread - 1
    /\ dclaimed \subseteq Ids
    /\ executed \in [Ids -> Nat]
    /\ rejected \in [Ids -> Nat]
    /\ missed \subseteq Ids
    /\ lag \in 0 .. MaxSignals

DecisionInv == DecisionTypes /\ DecisionShape /\ AnswersAreExplained

\* The numbers up to n are n numbers.
LEMMA UpTo ==
    ASSUME NEW n \in Nat
    PROVE  IsFiniteSet(1 .. n) /\ Cardinality(1 .. n) = n
<1>1. 1 > n => n = 0
  OBVIOUS
<1>2. n - 1 + 1 = n
  OBVIOUS
<1>3. QED
  BY <1>1, <1>2, FS_Interval

\* Predictions are numbered like signals, and only finitely many can be answered.
LEMMA DecisionFacts ==
    ASSUME BridgeInv, DecisionInv
    PROVE  /\ Len(preds) \in Nat /\ dunread \in Nat
           /\ dunread <= Len(preds) + 1 /\ dunread <= MaxSignals + 1
           /\ 1 .. dunread - 1 \subseteq Ids
           /\ dcur \in Ids \cup {NoSig}
           /\ dcur # NoSig => preds[dcur] \in Tickers
           /\ IsFiniteSet(Ids) /\ Cardinality(Ids) = MaxSignals
           /\ IsFiniteSet(Answered) /\ Cardinality(Answered) \in Nat
           /\ Len(signals) \in Nat /\ Len(signals) <= MaxSignals
<1> USE BridgeAssumption
<1>1. /\ preds \in Seq(Tickers) /\ Len(preds) \in Nat /\ Len(preds) <= MaxSignals
      /\ dunread \in 1 .. Len(preds) + 1 /\ dcur \in 0 .. dunread - 1
  BY DEF DecisionInv, DecisionTypes
<1>2. dunread \in Nat /\ dunread <= MaxSignals + 1 /\ dunread <= Len(preds) + 1
  BY <1>1
<1>3. 1 .. dunread - 1 \subseteq Ids /\ dcur \in Ids \cup {NoSig}
  BY <1>1, <1>2 DEF Ids, NoSig
<1>4. dcur # NoSig => preds[dcur] \in Tickers
  <2>1. dcur # NoSig => dcur \in 1 .. Len(preds)
    BY <1>1, <1>2 DEF NoSig
  <2>2. QED
    BY <1>1, <2>1
<1>5. IsFiniteSet(Ids) /\ Cardinality(Ids) = MaxSignals
  BY UpTo DEF Ids
<1>6. IsFiniteSet(Answered) /\ Cardinality(Answered) \in Nat
  BY <1>5, FS_Subset, FS_CardinalityType DEF Answered
<1>7. Len(signals) \in Nat /\ Len(signals) <= MaxSignals
  BY DEF BridgeInv, BridgeTypeOK
<1>8. QED
  BY <1>1, <1>2, <1>3, <1>4, <1>5, <1>6, <1>7

\* The answer to a prediction that had none is one more answered prediction, and
\* there are never more than predictions.
LEMMA OneMoreAnswered ==
    ASSUME BridgeInv, DecisionInv, NEW p \in Ids \ Answered,
           \/ executed' = Up(executed, p) /\ rejected' = rejected
           \/ rejected' = Up(rejected, p) /\ executed' = executed
    PROVE  /\ executed' \in [Ids -> Nat] /\ rejected' \in [Ids -> Nat]
           /\ Answered' = Answered \cup {p}
           /\ Cardinality(Answered') = Len(signals) + 1
           /\ Len(signals) + 1 <= MaxSignals
           /\ AnsweredOnce'
<1> USE BridgeAssumption
<1>1. executed \in [Ids -> Nat] /\ rejected \in [Ids -> Nat]
  BY DEF DecisionInv, DecisionTypes
<1>2. /\ executed' \in [Ids -> Nat] /\ rejected' \in [Ids -> Nat]
      /\ \A k \in Ids \ {p} : executed'[k] = executed[k] /\ rejected'[k] = rejected[k]
      /\ executed'[p] + rejected'[p] = executed[p] + rejected[p] + 1
  <2>1. CASE executed' = Up(executed, p) /\ rejected' = rejected
    BY <1>1, <2>1, UpFacts
  <2>2. CASE rejected' = Up(rejected, p) /\ executed' = executed
    <3>1. \A a, b \in Nat : a + (b + 1) = a + b + 1
      OBVIOUS
    <3>2. rejected[p] \in Nat /\ executed[p] \in Nat
      BY <1>1
    <3>3. rejected'[p] = rejected[p] + 1 /\ executed'[p] = executed[p]
      BY <1>1, <2>2, UpFacts
    <3>4. executed'[p] + rejected'[p] = executed[p] + rejected[p] + 1
      BY <3>1, <3>2, <3>3
    <3>5. QED
      BY <1>1, <2>2, <3>4, UpFacts
  <2>3. QED
    BY <2>1, <2>2
<1>3. executed[p] + rejected[p] = 0
  BY <1>1 DEF Answered
<1>4. Answered' = Answered \cup {p}
  BY <1>2, <1>3 DEF Answered
<1>5. Cardinality(Answered') = Len(signals) + 1 /\ IsFiniteSet(Answered')
  BY <1>4, DecisionFacts, FS_AddElement DEF DecisionInv, DecisionShape
<1>6. Cardinality(Answered') <= MaxSignals
  <2>1. Answered' \in SUBSET Ids
    BY <1>4 DEF Answered
  <2>2. QED
    BY <2>1, DecisionFacts, FS_Subset
<1>7. AnsweredOnce'
  BY <1>2, <1>3 DEF DecisionInv, AnswersAreExplained, AnsweredOnce
<1>8. QED
  BY <1>2, <1>4, <1>5, <1>6, <1>7

\* What a step of decision may do to the failures.
LEMMA DecisionFaults ==
    ASSUME BridgeInv, Decision
    PROVE  /\ faults' \in 0 .. MaxFaults /\ faults <= faults' /\ crashes' = crashes
           /\ UNCHANGED <<unread, pel, loopVars, track, claimVars, riskVars, countVars>>
<1>1. Fault \/ NoFault \/ UNCHANGED bridgeVars
  BY DEF Decision, DRecoverPel, DRead, DAck, DClaim, Lookup, GateKill, GateCooldown,
         GateCount, PublishExecute, PublishReject, DReplay, DGoto, DRaise
<1>2. faults' \in 0 .. MaxFaults /\ faults' \in {faults, faults + 1}
  BY <1>1, BridgeAssumption DEF BridgeInv, BridgeTypeOK, Fault, NoFault, bridgeVars
<1>3. faults <= faults'
  BY <1>2, BridgeAssumption DEF BridgeInv, BridgeTypeOK
<1>4. /\ crashes' = crashes
      /\ UNCHANGED <<unread, pel, loopVars, track, claimVars, riskVars, countVars>>
  BY DEF Decision, DRecoverPel, DRead, DAck, DClaim, Lookup, GateKill, GateCooldown,
         GateCount, PublishExecute, PublishReject, DReplay, processKeeps,
         bridgeButSignals, bridgeVars, streamVars
<1>5. QED
  BY <1>2, <1>3, <1>4

\* One more signal, after those that are there.
LEMMA OneMoreSignal ==
    ASSUME BridgeInv, DecisionInv, NEW x \in Tickers \cup {Reject},
           Len(signals) + 1 <= MaxSignals, signals' = Append(signals, x)
    PROVE  /\ signals' \in Seq(Tickers \cup {Reject})
           /\ Len(signals') = Len(signals) + 1 /\ Len(signals') <= MaxSignals
           /\ \A u \in 1 .. Len(signals) : signals'[u] = signals[u]
           /\ signals'[Len(signals) + 1] = x
  BY DEF BridgeInv, BridgeTypeOK

\* A prediction is published only from the hands of decision, and answered only then.
LEMMA PublishFacts ==
    ASSUME BridgeInv, DecisionInv, PublishExecute \/ PublishReject
    PROVE  /\ dcur \in Ids \ Answered /\ dcur \in dclaimed
           /\ \/ UNCHANGED <<signals, executed, rejected>> /\ DRaise
              \/ /\ \/ executed' = Up(executed, dcur) /\ rejected' = rejected
                    \/ rejected' = Up(rejected, dcur) /\ executed' = executed
                 /\ \E x \in Tickers \cup {Reject} : signals' = Append(signals, x)
                 /\ DGoto("ack") \/ DRaise
           /\ UNCHANGED <<processKeeps, dclaimed, missed, lag>>
<1>1. dpc \in InProcess
  BY DEF PublishExecute, PublishReject, InProcess
<1>2. dcur \in Ids \ Answered /\ dcur \in dclaimed /\ preds[dcur] \in Tickers
  BY <1>1, DecisionFacts DEF DecisionInv, DecisionShape
<1>3. QED
  BY <1>2 DEF PublishExecute, PublishReject

\* To the bridge, every step of decision is a signal, a failure or nothing.
LEMMA DecisionIsOutside ==
    ASSUME BridgeInv, DecisionInv, Decision \/ DCrash
    PROVE  OutsideStep
<1> USE BridgeAssumption
<1>1. CASE PublishExecute \/ PublishReject
  <2>1. CASE UNCHANGED signals
    BY <1>1, <2>1, DecisionFaults DEF Decision, OutsideStep, BridgeInv, BridgeTypeOK
  <2>2. CASE \E x \in Tickers \cup {Reject} : signals' = Append(signals, x)
    <3>1. Len(signals) + 1 <= MaxSignals
      <4>1. \/ executed' = Up(executed, dcur) /\ rejected' = rejected
            \/ rejected' = Up(rejected, dcur) /\ executed' = executed
        <5>1. signals' # signals
          BY <2>2, DecisionFacts DEF BridgeInv, BridgeTypeOK
        <5>2. QED
          BY <1>1, <5>1, PublishFacts
      <4>2. QED
        BY <1>1, <4>1, PublishFacts, OneMoreAnswered
    <3>2. /\ signals' \in Seq(Tickers \cup {Reject}) /\ Len(signals') <= MaxSignals
          /\ Len(signals') >= Len(signals)
          /\ \A u \in 1 .. Len(signals) : signals'[u] = signals[u]
      BY <2>2, <3>1, OneMoreSignal, DecisionFacts
    <3>3. crashes' \in 0 .. MaxCrashes /\ crashes <= crashes'
      BY <1>1, DecisionFaults DEF Decision, BridgeInv, BridgeTypeOK
    <3>4. QED
      BY <1>1, <3>2, <3>3, DecisionFaults DEF Decision, OutsideStep
  <2>3. QED
    BY <1>1, <2>1, <2>2, PublishFacts
<1>2. CASE Decision /\ ~(PublishExecute \/ PublishReject)
  <2>1. UNCHANGED signals
    BY <1>2 DEF Decision, DRecoverPel, DRead, DAck, DClaim, Lookup, GateKill, GateCooldown,
         GateCount, DReplay, bridgeVars, streamVars
  <2>2. QED
    BY <1>2, <2>1, DecisionFaults DEF OutsideStep, BridgeInv, BridgeTypeOK
<1>3. CASE DCrash
  BY <1>3 DEF DCrash, OutsideStep, BridgeInv, BridgeTypeOK, streamVars
<1>4. QED
  BY <1>1, <1>2, <1>3 DEF Decision

-------------------------------------------------------------------------------
(* The steps of decision, and what they leave of its invariant. *)

\* A step that answers nothing and publishes nothing.
Unanswering == UNCHANGED <<signals, executed, rejected>>

LEMMA UnansweringKeeps ==
    ASSUME Unanswering
    PROVE  /\ Answered' = Answered
           /\ AnsweredOnce => AnsweredOnce'
  BY DEF Unanswering, Answered, AnsweredOnce

\* A lost connection or an error ends what nothing-failed promises.
LEMMA FailureCounted ==
    ASSUME BridgeInv, BridgeInv', faults <= faults', crashes <= crashes'
    PROVE  /\ faults' + crashes' = 0 => faults + crashes = 0
           /\ faults + crashes > 0 => faults' + crashes' > 0
           /\ Fault => faults' + crashes' # 0 /\ faults' + crashes' > 0
           /\ crashes' = crashes + 1 => faults' + crashes' # 0 /\ faults' + crashes' > 0
<1>1. faults \in Nat /\ crashes \in Nat /\ faults' \in Nat /\ crashes' \in Nat
  BY BridgeAssumption DEF BridgeInv, BridgeTypeOK
<1>2. \A a, b, c, d \in Nat : a <= c /\ b <= d /\ c + d = 0 => a + b = 0
  OBVIOUS
<1>3. \A a, b, c, d \in Nat : a <= c /\ b <= d /\ a + b > 0 => c + d > 0
  OBVIOUS
<1>4. \A a, c, d \in Nat : c = a + 1 \/ d = a + 1 => c + d # 0 /\ c + d > 0
  OBVIOUS
<1>5. faults' + crashes' = 0 => faults + crashes = 0
  BY <1>1, <1>2
<1>6. faults + crashes > 0 => faults' + crashes' > 0
  BY <1>1, <1>3
<1>7. faults' = faults + 1 \/ crashes' = crashes + 1
        => faults' + crashes' # 0 /\ faults' + crashes' > 0
  BY <1>1, <1>4
<1>8. QED
  BY <1>5, <1>6, <1>7 DEF Fault

\* A step of the bridge.
LEMMA BridgeStepDecision ==
    ASSUME BridgeInv, BridgeInv', DecisionInv, UNCHANGED decisionVars, UNCHANGED signals,
           faults <= faults', crashes <= crashes'
    PROVE  DecisionInv'
<1>1. /\ preds' = preds /\ dunread' = dunread /\ dpel' = dpel /\ dpc' = dpc /\ dcur' = dcur
      /\ dtodo' = dtodo /\ dclaimed' = dclaimed /\ executed' = executed
      /\ rejected' = rejected /\ missed' = missed /\ lag' = lag
  BY DEF decisionVars
<1>2. DecisionTypes'
  BY <1>1 DEF DecisionInv, DecisionTypes
<1>3. Answered' = Answered /\ AnsweredOnce'
  BY <1>1, UnansweringKeeps DEF Unanswering, DecisionInv, AnswersAreExplained
<1>4. DecisionShape'
  BY <1>1, <1>3, FailureCounted DEF DecisionInv, DecisionShape
<1>5. UnansweredNeedsFailure'
  BY <1>1, FailureCounted DEF DecisionInv, AnswersAreExplained, UnansweredNeedsFailure
<1>6. QED
  BY <1>2, <1>3, <1>4, <1>5 DEF DecisionInv, AnswersAreExplained

\* A new prediction.
LEMMA PredictDecision ==
    ASSUME BridgeInv, DecisionInv, NEW x \in Tickers, Predict(x)
    PROVE  DecisionInv'
<1> USE BridgeAssumption
<1>1. /\ dunread' = dunread /\ dpel' = dpel /\ dpc' = dpc /\ dcur' = dcur
      /\ dtodo' = dtodo /\ dclaimed' = dclaimed /\ executed' = executed
      /\ rejected' = rejected /\ missed' = missed /\ lag' = lag
      /\ signals' = signals /\ faults' = faults /\ crashes' = crashes
  BY DEF Predict, bridgeVars, streamVars
<1>2. /\ preds' \in Seq(Tickers) /\ Len(preds') = Len(preds) + 1
      /\ Len(preds') <= MaxSignals
  BY DecisionFacts DEF Predict, DecisionInv, DecisionTypes
<1>3. dunread \in 1 .. Len(preds') + 1
  BY <1>2, DecisionFacts DEF DecisionInv, DecisionTypes
<1>4. DecisionTypes'
  BY <1>1, <1>2, <1>3 DEF DecisionInv, DecisionTypes
<1>5. Answered' = Answered /\ AnsweredOnce'
  BY <1>1, UnansweringKeeps DEF Unanswering, DecisionInv, AnswersAreExplained
<1>6. DecisionShape'
  BY <1>1, <1>5 DEF DecisionInv, DecisionShape
<1>7. UnansweredNeedsFailure'
  BY <1>1 DEF DecisionInv, AnswersAreExplained, UnansweredNeedsFailure
<1>8. QED
  BY <1>4, <1>5, <1>6, <1>7 DEF DecisionInv, AnswersAreExplained

\* The steps that answer nothing: what they may do to decision's state.
LEMMA UnansweringDecision ==
    ASSUME BridgeInv, BridgeInv', DecisionInv, faults <= faults', crashes <= crashes',
           UNCHANGED <<preds, executed, rejected>>, UNCHANGED signals, DecisionTypes',
           dclaimed \subseteq dclaimed', missed \subseteq missed',
           dpc' \in InProcess \cup {"handle", "ack"} => dcur' # NoSig,
           dpc' \in InProcess => dcur' \in dclaimed' \ Answered,
           dpc' = "ack" => dcur' \in dclaimed',
           faults' + crashes' = 0 =>
              \A p \in dclaimed' : \/ p \in Answered \cup missed'
                                   \/ dpc' \in InProcess /\ dcur' = p
                                   \/ /\ p \in dclaimed
                                      /\ dpc \in InProcess /\ dcur = p
                                         => dpc' \in InProcess /\ dcur' = dcur,
           \A p \in 1 .. dunread' - 1 \ dpel' :
              \/ p \in 1 .. dunread - 1 \ dpel
              \/ dpc = "ack" /\ p = dcur
    PROVE  DecisionInv'
<1>1. Answered' = Answered /\ AnsweredOnce'
  BY UnansweringKeeps DEF Unanswering, DecisionInv, AnswersAreExplained
<1>2. faults' + crashes' = 0 =>
        \A p \in dclaimed : \/ p \in Answered \cup missed
                            \/ dpc \in InProcess /\ dcur = p
  BY FailureCounted DEF DecisionInv, DecisionShape
<1>3. faults' + crashes' = 0 =>
        \A p \in dclaimed' : \/ p \in Answered \cup missed'
                             \/ dpc' \in InProcess /\ dcur' = p
  BY <1>2
<1>4. DecisionShape'
  BY <1>1, <1>3 DEF DecisionInv, DecisionShape
<1>5. UnansweredNeedsFailure'
  <2> SUFFICES ASSUME NEW p \in 1 .. dunread' - 1 \ dpel',
                      executed[p] + rejected[p] = 0
               PROVE  p \in missed' \/ faults' + crashes' > 0
    BY DEF UnansweredNeedsFailure
  <2>1. CASE p \in 1 .. dunread - 1 \ dpel
    BY <2>1, FailureCounted DEF DecisionInv, AnswersAreExplained, UnansweredNeedsFailure
  <2>2. CASE dpc = "ack" /\ p = dcur
    <3>1. p \in dclaimed /\ p \notin Answered
      BY <2>2 DEF DecisionInv, DecisionShape, Answered
    <3>2. faults' + crashes' = 0 => p \in missed
      BY <1>2, <2>2, <3>1 DEF InProcess
    <3>3. faults' + crashes' # 0 => faults' + crashes' > 0
      <4>1. \A a, b \in Nat : a + b # 0 => a + b > 0
        OBVIOUS
      <4>2. faults' \in Nat /\ crashes' \in Nat
        BY BridgeAssumption DEF BridgeInv, BridgeTypeOK
      <4>3. QED
        BY <4>1, <4>2
    <3>4. QED
      BY <3>2, <3>3
  <2>3. QED
    BY <2>1, <2>2
<1>6. QED
  BY <1>1, <1>4, <1>5 DEF DecisionInv, AnswersAreExplained

\* The types, after a step that reads no prediction.
LEMMA TypesKeep ==
    ASSUME BridgeInv, DecisionInv, UNCHANGED <<preds, executed, rejected, dunread>>,
           dpel' \subseteq dpel, dpc' \in DecisionSteps,
           dcur' \in {dcur, NoSig} \cup dtodo, dtodo' \subseteq dtodo \cup dpel,
           \A p \in dclaimed' : p \in dclaimed \/ (p = dcur /\ dcur # NoSig),
           \A p \in missed' : p \in missed \/ (p = dcur /\ dcur # NoSig),
           lag' \in 0 .. MaxSignals
    PROVE  DecisionTypes'
<1>1. \A p \in dclaimed' \cup missed' : p \in Ids
  BY DecisionFacts DEF DecisionInv, DecisionTypes
<1>2. dcur' \in 0 .. dunread - 1
  BY DecisionFacts DEF DecisionInv, DecisionTypes, NoSig
<1>3. QED
  BY <1>1, <1>2 DEF DecisionInv, DecisionTypes

\* The pending predictions are looked up.
LEMMA DRecoverPelDecision ==
    ASSUME BridgeInv, BridgeInv', DecisionInv, DRecoverPel
    PROVE  DecisionInv'
<1> USE BridgeAssumption
<1>1. /\ UNCHANGED <<preds, executed, rejected>> /\ UNCHANGED signals
      /\ faults <= faults' /\ crashes <= crashes'
  BY DecisionFaults, DecisionIsOutside
     DEF Decision, OutsideStep, DRecoverPel, processKeeps, bridgeButSignals, bridgeVars,
         streamVars
<1>2. DecisionTypes'
  <2>1. /\ dunread' = dunread /\ dpel' \subseteq dpel /\ dpc' \in DecisionSteps
        /\ dcur' \in {dcur, NoSig} \cup dtodo /\ dtodo' \subseteq dtodo \cup dpel
    BY DEF DRecoverPel, DecisionInv, DecisionTypes, DecisionSteps
  <2>2. dcur # NoSig \/ UNCHANGED <<dclaimed, missed>>
    BY DEF DRecoverPel, DecisionInv, DecisionShape, InProcess
  <2>3. /\ \A p \in dclaimed' : p \in dclaimed \/ (p = dcur /\ dcur # NoSig)
        /\ \A p \in missed' : p \in missed \/ (p = dcur /\ dcur # NoSig)
    BY <2>2 DEF DRecoverPel
  <2>4. lag' \in 0 .. MaxSignals
    BY DEF DRecoverPel, DecisionInv, DecisionTypes
  <2>5. QED
    BY <1>1, <2>1, <2>3, <2>4, TypesKeep
<1>3. /\ dclaimed \subseteq dclaimed' /\ missed \subseteq missed'
      /\ dpc' \in InProcess \cup {"handle", "ack"} => dcur' # NoSig
      /\ dpc' \in InProcess => dcur' \in dclaimed' \ Answered
      /\ dpc' = "ack" => dcur' \in dclaimed'
  BY <1>1, DecisionFacts
     DEF DRecoverPel, DecisionInv, DecisionShape, NoSig, InProcess, Ids
<1>4. faults' + crashes' = 0 =>
        \A p \in dclaimed' : \/ p \in Answered \cup missed'
                             \/ dpc' \in InProcess /\ dcur' = p
                             \/ /\ p \in dclaimed
                                /\ dpc \in InProcess /\ dcur = p
                                   => dpc' \in InProcess /\ dcur' = dcur
  BY <1>1, FailureCounted DEF DRecoverPel, InProcess
<1>5. \A p \in 1 .. dunread' - 1 \ dpel' :
        \/ p \in 1 .. dunread - 1 \ dpel
        \/ dpc = "ack" /\ p = dcur
  BY <1>1 DEF DRecoverPel
<1>6. QED
  BY <1>1, <1>2, <1>3, <1>4, <1>5, UnansweringDecision

\* The next prediction is read; a lost reply leaves it pending.
LEMMA DReadDecision ==
    ASSUME BridgeInv, BridgeInv', DecisionInv, DRead
    PROVE  DecisionInv'
<1> USE BridgeAssumption
<1>1. /\ UNCHANGED <<preds, executed, rejected>> /\ UNCHANGED signals
      /\ faults <= faults' /\ crashes <= crashes'
  BY DecisionFaults, DecisionIsOutside
     DEF Decision, OutsideStep, DRead, processKeeps, bridgeButSignals, bridgeVars,
         streamVars
<1>2. /\ dunread' = dunread + 1 /\ dpel' = dpel \cup {dunread} /\ dunread <= Len(preds)
      /\ \/ dpc' = "handle" /\ dcur' = dunread
         \/ dpc' = dpc /\ dcur' = dcur
      /\ dpc = "idle" /\ UNCHANGED <<dtodo, dclaimed, missed, lag>>
  BY DEF DRead
<1>3. DecisionTypes'
  <2>1. dunread' \in 1 .. Len(preds') + 1 /\ dunread \in Nat \ {0}
    BY <1>1, <1>2, DecisionFacts DEF DecisionInv, DecisionTypes
  <2>2. 1 .. dunread' - 1 = (1 .. dunread - 1) \cup {dunread}
    BY <1>2, <2>1
  <2>3. dcur' \in 0 .. dunread' - 1
    BY <1>2, <2>1, DecisionFacts DEF DecisionInv, DecisionTypes
  <2>4. QED
    BY <1>1, <1>2, <2>1, <2>2, <2>3 DEF DecisionInv, DecisionTypes, DecisionSteps
<1>4. dunread # NoSig
  BY DecisionFacts DEF DecisionInv, DecisionTypes, NoSig
<1>5. \A p \in 1 .. dunread' - 1 \ dpel' : p \in 1 .. dunread - 1 \ dpel
  BY <1>2, DecisionFacts
<1>6. QED
  BY <1>1, <1>2, <1>3, <1>4, <1>5, UnansweringDecision DEF InProcess

\* Only here does a prediction leave the pending ones.
LEMMA DAckDecision ==
    ASSUME BridgeInv, BridgeInv', DecisionInv, DAck
    PROVE  DecisionInv'
<1> USE BridgeAssumption
<1>1. /\ UNCHANGED <<preds, executed, rejected>> /\ UNCHANGED signals
      /\ faults <= faults' /\ crashes <= crashes'
  BY DecisionFaults, DecisionIsOutside
     DEF Decision, OutsideStep, DAck, processKeeps, bridgeButSignals, bridgeVars,
         streamVars
<1>2. DecisionTypes'
  <2>1. /\ dunread' = dunread /\ dpel' \subseteq dpel /\ dpc' \in DecisionSteps
        /\ dcur' \in {dcur, NoSig} \cup dtodo /\ dtodo' \subseteq dtodo \cup dpel
    BY DEF DAck, DecisionInv, DecisionTypes, DecisionSteps
  <2>2. dcur # NoSig \/ UNCHANGED <<dclaimed, missed>>
    BY DEF DAck, DecisionInv, DecisionShape, InProcess
  <2>3. /\ \A p \in dclaimed' : p \in dclaimed \/ (p = dcur /\ dcur # NoSig)
        /\ \A p \in missed' : p \in missed \/ (p = dcur /\ dcur # NoSig)
    BY <2>2 DEF DAck
  <2>4. lag' \in 0 .. MaxSignals
    BY DEF DAck, DecisionInv, DecisionTypes
  <2>5. QED
    BY <1>1, <2>1, <2>3, <2>4, TypesKeep
<1>3. /\ dclaimed \subseteq dclaimed' /\ missed \subseteq missed'
      /\ dpc' \in InProcess \cup {"handle", "ack"} => dcur' # NoSig
      /\ dpc' \in InProcess => dcur' \in dclaimed' \ Answered
      /\ dpc' = "ack" => dcur' \in dclaimed'
  BY <1>1, DecisionFacts DEF DAck, DecisionInv, DecisionShape, NoSig, InProcess, Ids
<1>4. faults' + crashes' = 0 =>
        \A p \in dclaimed' : \/ p \in Answered \cup missed'
                             \/ dpc' \in InProcess /\ dcur' = p
                             \/ /\ p \in dclaimed
                                /\ dpc \in InProcess /\ dcur = p
                                   => dpc' \in InProcess /\ dcur' = dcur
  BY <1>1, FailureCounted DEF DAck, InProcess
<1>5. \A p \in 1 .. dunread' - 1 \ dpel' :
        \/ p \in 1 .. dunread - 1 \ dpel
        \/ dpc = "ack" /\ p = dcur
  BY <1>1 DEF DAck
<1>6. QED
  BY <1>1, <1>2, <1>3, <1>4, <1>5, UnansweringDecision

\* SET NX of the claim.
LEMMA DClaimDecision ==
    ASSUME BridgeInv, BridgeInv', DecisionInv, DClaim
    PROVE  DecisionInv'
<1> USE BridgeAssumption
<1>1. /\ UNCHANGED <<preds, executed, rejected>> /\ UNCHANGED signals
      /\ faults <= faults' /\ crashes <= crashes'
  BY DecisionFaults, DecisionIsOutside
     DEF Decision, OutsideStep, DClaim, processKeeps, bridgeButSignals, bridgeVars,
         streamVars
<1>2. DecisionTypes'
  <2>1. /\ dunread' = dunread /\ dpel' \subseteq dpel /\ dpc' \in DecisionSteps
        /\ dcur' \in {dcur, NoSig} \cup dtodo /\ dtodo' \subseteq dtodo \cup dpel
    BY DEF DClaim, DGoto, DRaise, processKeeps, bridgeButSignals, bridgeVars,
         DecisionInv, DecisionTypes, DecisionSteps
  <2>2. dcur # NoSig \/ UNCHANGED <<dclaimed, missed>>
    BY DEF DClaim, DGoto, DRaise, processKeeps, bridgeButSignals, bridgeVars,
         DecisionInv, DecisionShape, InProcess
  <2>3. /\ \A p \in dclaimed' : p \in dclaimed \/ (p = dcur /\ dcur # NoSig)
        /\ \A p \in missed' : p \in missed \/ (p = dcur /\ dcur # NoSig)
    BY <2>2 DEF DClaim, DGoto, DRaise, processKeeps, bridgeButSignals, bridgeVars
  <2>4. lag' \in 0 .. MaxSignals
    BY DEF DClaim, DGoto, DRaise, processKeeps, bridgeButSignals, bridgeVars,
         DecisionInv, DecisionTypes
  <2>5. QED
    BY <1>1, <2>1, <2>3, <2>4, TypesKeep
<1>3. /\ dclaimed \subseteq dclaimed' /\ missed \subseteq missed'
      /\ dpc' \in InProcess \cup {"handle", "ack"} => dcur' # NoSig
      /\ dpc' \in InProcess => dcur' \in dclaimed' \ Answered
      /\ dpc' = "ack" => dcur' \in dclaimed'
  BY <1>1, DecisionFacts
     DEF DClaim, DGoto, DRaise, processKeeps, bridgeButSignals, bridgeVars,
         DecisionInv, DecisionShape, NoSig, InProcess, Ids
<1>4. faults' + crashes' = 0 =>
        \A p \in dclaimed' : \/ p \in Answered \cup missed'
                             \/ dpc' \in InProcess /\ dcur' = p
                             \/ /\ p \in dclaimed
                                /\ dpc \in InProcess /\ dcur = p
                                   => dpc' \in InProcess /\ dcur' = dcur
  BY <1>1, FailureCounted
     DEF DClaim, DGoto, DRaise, processKeeps, bridgeButSignals, bridgeVars, InProcess
<1>5. \A p \in 1 .. dunread' - 1 \ dpel' :
        \/ p \in 1 .. dunread - 1 \ dpel
        \/ dpc = "ack" /\ p = dcur
  BY <1>1 DEF DClaim, DGoto, DRaise, processKeeps, bridgeButSignals, bridgeVars
<1>6. QED
  BY <1>1, <1>2, <1>3, <1>4, <1>5, UnansweringDecision

\* The enrichment, and the gates that need no Redis.
LEMMA LookupDecision ==
    ASSUME BridgeInv, BridgeInv', DecisionInv, Lookup
    PROVE  DecisionInv'
<1> USE BridgeAssumption
<1>1. /\ UNCHANGED <<preds, executed, rejected>> /\ UNCHANGED signals
      /\ faults <= faults' /\ crashes <= crashes'
  BY DecisionFaults, DecisionIsOutside
     DEF Decision, OutsideStep, Lookup, processKeeps, bridgeButSignals, bridgeVars,
         streamVars
<1>2. DecisionTypes'
  <2>1. /\ dunread' = dunread /\ dpel' \subseteq dpel /\ dpc' \in DecisionSteps
        /\ dcur' \in {dcur, NoSig} \cup dtodo /\ dtodo' \subseteq dtodo \cup dpel
    BY DEF Lookup, DGoto, DRaise, processKeeps, bridgeButSignals, bridgeVars,
         DecisionInv, DecisionTypes, DecisionSteps
  <2>2. dcur # NoSig \/ UNCHANGED <<dclaimed, missed>>
    BY DEF Lookup, DGoto, DRaise, processKeeps, bridgeButSignals, bridgeVars,
         DecisionInv, DecisionShape, InProcess
  <2>3. /\ \A p \in dclaimed' : p \in dclaimed \/ (p = dcur /\ dcur # NoSig)
        /\ \A p \in missed' : p \in missed \/ (p = dcur /\ dcur # NoSig)
    BY <2>2 DEF Lookup, DGoto, DRaise, processKeeps, bridgeButSignals, bridgeVars
  <2>4. lag' \in 0 .. MaxSignals
    BY DEF Lookup, DGoto, DRaise, processKeeps, bridgeButSignals, bridgeVars,
         DecisionInv, DecisionTypes
  <2>5. QED
    BY <1>1, <2>1, <2>3, <2>4, TypesKeep
<1>3. /\ dclaimed \subseteq dclaimed' /\ missed \subseteq missed'
      /\ dpc' \in InProcess \cup {"handle", "ack"} => dcur' # NoSig
      /\ dpc' \in InProcess => dcur' \in dclaimed' \ Answered
      /\ dpc' = "ack" => dcur' \in dclaimed'
  BY <1>1, DecisionFacts
     DEF Lookup, DGoto, DRaise, processKeeps, bridgeButSignals, bridgeVars,
         DecisionInv, DecisionShape, NoSig, InProcess, Ids
<1>4. faults' + crashes' = 0 =>
        \A p \in dclaimed' : \/ p \in Answered \cup missed'
                             \/ dpc' \in InProcess /\ dcur' = p
                             \/ /\ p \in dclaimed
                                /\ dpc \in InProcess /\ dcur = p
                                   => dpc' \in InProcess /\ dcur' = dcur
  BY <1>1, FailureCounted
     DEF Lookup, DGoto, DRaise, processKeeps, bridgeButSignals, bridgeVars, InProcess
<1>5. \A p \in 1 .. dunread' - 1 \ dpel' :
        \/ p \in 1 .. dunread - 1 \ dpel
        \/ dpc = "ack" /\ p = dcur
  BY <1>1 DEF Lookup, DGoto, DRaise, processKeeps, bridgeButSignals, bridgeVars
<1>6. QED
  BY <1>1, <1>2, <1>3, <1>4, <1>5, UnansweringDecision

\* The daily PnL.
LEMMA GateKillDecision ==
    ASSUME BridgeInv, BridgeInv', DecisionInv, GateKill
    PROVE  DecisionInv'
<1> USE BridgeAssumption
<1>1. /\ UNCHANGED <<preds, executed, rejected>> /\ UNCHANGED signals
      /\ faults <= faults' /\ crashes <= crashes'
  BY DecisionFaults, DecisionIsOutside
     DEF Decision, OutsideStep, GateKill, processKeeps, bridgeButSignals, bridgeVars,
         streamVars
<1>2. DecisionTypes'
  <2>1. /\ dunread' = dunread /\ dpel' \subseteq dpel /\ dpc' \in DecisionSteps
        /\ dcur' \in {dcur, NoSig} \cup dtodo /\ dtodo' \subseteq dtodo \cup dpel
    BY DEF GateKill, DGoto, DRaise, processKeeps, bridgeButSignals, bridgeVars,
         DecisionInv, DecisionTypes, DecisionSteps
  <2>2. dcur # NoSig \/ UNCHANGED <<dclaimed, missed>>
    BY DEF GateKill, DGoto, DRaise, processKeeps, bridgeButSignals, bridgeVars,
         DecisionInv, DecisionShape, InProcess
  <2>3. /\ \A p \in dclaimed' : p \in dclaimed \/ (p = dcur /\ dcur # NoSig)
        /\ \A p \in missed' : p \in missed \/ (p = dcur /\ dcur # NoSig)
    BY <2>2 DEF GateKill, DGoto, DRaise, processKeeps, bridgeButSignals, bridgeVars
  <2>4. lag' \in 0 .. MaxSignals
    BY DEF GateKill, DGoto, DRaise, processKeeps, bridgeButSignals, bridgeVars,
         DecisionInv, DecisionTypes
  <2>5. QED
    BY <1>1, <2>1, <2>3, <2>4, TypesKeep
<1>3. /\ dclaimed \subseteq dclaimed' /\ missed \subseteq missed'
      /\ dpc' \in InProcess \cup {"handle", "ack"} => dcur' # NoSig
      /\ dpc' \in InProcess => dcur' \in dclaimed' \ Answered
      /\ dpc' = "ack" => dcur' \in dclaimed'
  BY <1>1, DecisionFacts
     DEF GateKill, DGoto, DRaise, processKeeps, bridgeButSignals, bridgeVars,
         DecisionInv, DecisionShape, NoSig, InProcess, Ids
<1>4. faults' + crashes' = 0 =>
        \A p \in dclaimed' : \/ p \in Answered \cup missed'
                             \/ dpc' \in InProcess /\ dcur' = p
                             \/ /\ p \in dclaimed
                                /\ dpc \in InProcess /\ dcur = p
                                   => dpc' \in InProcess /\ dcur' = dcur
  BY <1>1, FailureCounted
     DEF GateKill, DGoto, DRaise, processKeeps, bridgeButSignals, bridgeVars,
         InProcess
<1>5. \A p \in 1 .. dunread' - 1 \ dpel' :
        \/ p \in 1 .. dunread - 1 \ dpel
        \/ dpc = "ack" /\ p = dcur
  BY <1>1 DEF GateKill, DGoto, DRaise, processKeeps, bridgeButSignals, bridgeVars
<1>6. QED
  BY <1>1, <1>2, <1>3, <1>4, <1>5, UnansweringDecision

\* The cooldown of the ticker.
LEMMA GateCooldownDecision ==
    ASSUME BridgeInv, BridgeInv', DecisionInv, GateCooldown
    PROVE  DecisionInv'
<1> USE BridgeAssumption
<1>1. /\ UNCHANGED <<preds, executed, rejected>> /\ UNCHANGED signals
      /\ faults <= faults' /\ crashes <= crashes'
  BY DecisionFaults, DecisionIsOutside
     DEF Decision, OutsideStep, GateCooldown, processKeeps, bridgeButSignals, bridgeVars,
         streamVars
<1>2. DecisionTypes'
  <2>1. /\ dunread' = dunread /\ dpel' \subseteq dpel /\ dpc' \in DecisionSteps
        /\ dcur' \in {dcur, NoSig} \cup dtodo /\ dtodo' \subseteq dtodo \cup dpel
    BY DEF GateCooldown, DGoto, DRaise, processKeeps, bridgeButSignals, bridgeVars,
         DecisionInv, DecisionTypes, DecisionSteps
  <2>2. dcur # NoSig \/ UNCHANGED <<dclaimed, missed>>
    BY DEF GateCooldown, DGoto, DRaise, processKeeps, bridgeButSignals, bridgeVars,
         DecisionInv, DecisionShape, InProcess
  <2>3. /\ \A p \in dclaimed' : p \in dclaimed \/ (p = dcur /\ dcur # NoSig)
        /\ \A p \in missed' : p \in missed \/ (p = dcur /\ dcur # NoSig)
    BY <2>2 DEF GateCooldown, DGoto, DRaise, processKeeps, bridgeButSignals, bridgeVars
  <2>4. lag' \in 0 .. MaxSignals
    BY DEF GateCooldown, DGoto, DRaise, processKeeps, bridgeButSignals, bridgeVars,
         DecisionInv, DecisionTypes
  <2>5. QED
    BY <1>1, <2>1, <2>3, <2>4, TypesKeep
<1>3. /\ dclaimed \subseteq dclaimed' /\ missed \subseteq missed'
      /\ dpc' \in InProcess \cup {"handle", "ack"} => dcur' # NoSig
      /\ dpc' \in InProcess => dcur' \in dclaimed' \ Answered
      /\ dpc' = "ack" => dcur' \in dclaimed'
  BY <1>1, DecisionFacts
     DEF GateCooldown, DGoto, DRaise, processKeeps, bridgeButSignals, bridgeVars,
         DecisionInv, DecisionShape, NoSig, InProcess, Ids
<1>4. faults' + crashes' = 0 =>
        \A p \in dclaimed' : \/ p \in Answered \cup missed'
                             \/ dpc' \in InProcess /\ dcur' = p
                             \/ /\ p \in dclaimed
                                /\ dpc \in InProcess /\ dcur = p
                                   => dpc' \in InProcess /\ dcur' = dcur
  BY <1>1, FailureCounted
     DEF GateCooldown, DGoto, DRaise, processKeeps, bridgeButSignals, bridgeVars,
         InProcess
<1>5. \A p \in 1 .. dunread' - 1 \ dpel' :
        \/ p \in 1 .. dunread - 1 \ dpel
        \/ dpc = "ack" /\ p = dcur
  BY <1>1 DEF GateCooldown, DGoto, DRaise, processKeeps, bridgeButSignals, bridgeVars
<1>6. QED
  BY <1>1, <1>2, <1>3, <1>4, <1>5, UnansweringDecision

\* The number of open tickers.
LEMMA GateCountDecision ==
    ASSUME BridgeInv, BridgeInv', DecisionInv, GateCount
    PROVE  DecisionInv'
<1> USE BridgeAssumption
<1>1. /\ UNCHANGED <<preds, executed, rejected>> /\ UNCHANGED signals
      /\ faults <= faults' /\ crashes <= crashes'
  BY DecisionFaults, DecisionIsOutside
     DEF Decision, OutsideStep, GateCount, processKeeps, bridgeButSignals, bridgeVars,
         streamVars
<1>2. DecisionTypes'
  <2>1. /\ dunread' = dunread /\ dpel' \subseteq dpel /\ dpc' \in DecisionSteps
        /\ dcur' \in {dcur, NoSig} \cup dtodo /\ dtodo' \subseteq dtodo \cup dpel
    BY DEF GateCount, DGoto, DRaise, processKeeps, bridgeButSignals, bridgeVars,
         DecisionInv, DecisionTypes, DecisionSteps
  <2>2. dcur # NoSig \/ UNCHANGED <<dclaimed, missed>>
    BY DEF GateCount, DGoto, DRaise, processKeeps, bridgeButSignals, bridgeVars,
         DecisionInv, DecisionShape, InProcess
  <2>3. /\ \A p \in dclaimed' : p \in dclaimed \/ (p = dcur /\ dcur # NoSig)
        /\ \A p \in missed' : p \in missed \/ (p = dcur /\ dcur # NoSig)
    BY <2>2 DEF GateCount, DGoto, DRaise, processKeeps, bridgeButSignals, bridgeVars
  <2>4. lag' \in 0 .. MaxSignals
    <3>1. Cardinality(Backlog) \in 0 .. MaxSignals
      <4>1. Backlog \in SUBSET (1 .. Len(signals))
        BY DEF Backlog
      <4>2. /\ IsFiniteSet(1 .. Len(signals))
            /\ Cardinality(1 .. Len(signals)) = Len(signals)
        BY DecisionFacts, UpTo
      <4>3. Cardinality(Backlog) \in Nat /\ Cardinality(Backlog) <= Len(signals)
        BY <4>1, <4>2, FS_Subset, FS_CardinalityType
      <4>4. QED
        BY <4>3, DecisionFacts
    <3>2. QED
      BY <3>1 DEF GateCount, DecisionInv, DecisionTypes
  <2>5. QED
    BY <1>1, <2>1, <2>3, <2>4, TypesKeep
<1>3. /\ dclaimed \subseteq dclaimed' /\ missed \subseteq missed'
      /\ dpc' \in InProcess \cup {"handle", "ack"} => dcur' # NoSig
      /\ dpc' \in InProcess => dcur' \in dclaimed' \ Answered
      /\ dpc' = "ack" => dcur' \in dclaimed'
  BY <1>1, DecisionFacts
     DEF GateCount, DGoto, DRaise, processKeeps, bridgeButSignals, bridgeVars,
         DecisionInv, DecisionShape, NoSig, InProcess, Ids
<1>4. faults' + crashes' = 0 =>
        \A p \in dclaimed' : \/ p \in Answered \cup missed'
                             \/ dpc' \in InProcess /\ dcur' = p
                             \/ /\ p \in dclaimed
                                /\ dpc \in InProcess /\ dcur = p
                                   => dpc' \in InProcess /\ dcur' = dcur
  BY <1>1, FailureCounted
     DEF GateCount, DGoto, DRaise, processKeeps, bridgeButSignals, bridgeVars,
         InProcess
<1>5. \A p \in 1 .. dunread' - 1 \ dpel' :
        \/ p \in 1 .. dunread - 1 \ dpel
        \/ dpc = "ack" /\ p = dcur
  BY <1>1 DEF GateCount, DGoto, DRaise, processKeeps, bridgeButSignals, bridgeVars
<1>6. QED
  BY <1>1, <1>2, <1>3, <1>4, <1>5, UnansweringDecision

\* A pending prediction is replayed.
LEMMA DReplayDecision ==
    ASSUME BridgeInv, BridgeInv', DecisionInv, NEW k \in Ids, DReplay(k)
    PROVE  DecisionInv'
<1> USE BridgeAssumption
<1>1. /\ UNCHANGED <<preds, executed, rejected>> /\ UNCHANGED signals
      /\ faults <= faults' /\ crashes <= crashes'
  BY DecisionFaults, DecisionIsOutside
     DEF Decision, OutsideStep, DReplay, processKeeps, bridgeButSignals, bridgeVars,
         streamVars
<1>2. DecisionTypes'
  <2>1. /\ dunread' = dunread /\ dpel' \subseteq dpel /\ dpc' \in DecisionSteps
        /\ dcur' \in {dcur, NoSig} \cup dtodo /\ dtodo' \subseteq dtodo \cup dpel
    BY DEF DReplay, DecisionInv, DecisionTypes, DecisionSteps
  <2>2. dcur # NoSig \/ UNCHANGED <<dclaimed, missed>>
    BY DEF DReplay, DecisionInv, DecisionShape, InProcess
  <2>3. /\ \A p \in dclaimed' : p \in dclaimed \/ (p = dcur /\ dcur # NoSig)
        /\ \A p \in missed' : p \in missed \/ (p = dcur /\ dcur # NoSig)
    BY <2>2 DEF DReplay
  <2>4. lag' \in 0 .. MaxSignals
    BY DEF DReplay, DecisionInv, DecisionTypes
  <2>5. QED
    BY <1>1, <2>1, <2>3, <2>4, TypesKeep
<1>3. /\ dclaimed \subseteq dclaimed' /\ missed \subseteq missed'
      /\ dpc' \in InProcess \cup {"handle", "ack"} => dcur' # NoSig
      /\ dpc' \in InProcess => dcur' \in dclaimed' \ Answered
      /\ dpc' = "ack" => dcur' \in dclaimed'
  BY <1>1, DecisionFacts DEF DReplay, DecisionInv, DecisionShape, NoSig, InProcess, Ids
<1>4. faults' + crashes' = 0 =>
        \A p \in dclaimed' : \/ p \in Answered \cup missed'
                             \/ dpc' \in InProcess /\ dcur' = p
                             \/ /\ p \in dclaimed
                                /\ dpc \in InProcess /\ dcur = p
                                   => dpc' \in InProcess /\ dcur' = dcur
  BY <1>1, FailureCounted DEF DReplay, InProcess
<1>5. \A p \in 1 .. dunread' - 1 \ dpel' :
        \/ p \in 1 .. dunread - 1 \ dpel
        \/ dpc = "ack" /\ p = dcur
  BY <1>1 DEF DReplay
<1>6. QED
  BY <1>1, <1>2, <1>3, <1>4, <1>5, UnansweringDecision

\* The process ends; what is pending comes back at the next start.
LEMMA DCrashDecision ==
    ASSUME BridgeInv, BridgeInv', DecisionInv, DCrash
    PROVE  DecisionInv'
<1> USE BridgeAssumption
<1>1. /\ UNCHANGED <<preds, executed, rejected>> /\ UNCHANGED signals
      /\ faults <= faults' /\ crashes <= crashes'
  BY DecisionIsOutside
     DEF OutsideStep, BridgeInv, BridgeTypeOK, DCrash, processKeeps, bridgeButSignals, bridgeVars,
         streamVars
<1>2. DecisionTypes'
  <2>1. /\ dunread' = dunread /\ dpel' \subseteq dpel /\ dpc' \in DecisionSteps
        /\ dcur' \in {dcur, NoSig} \cup dtodo /\ dtodo' \subseteq dtodo \cup dpel
    BY DEF DCrash, DecisionInv, DecisionTypes, DecisionSteps
  <2>2. dcur # NoSig \/ UNCHANGED <<dclaimed, missed>>
    BY DEF DCrash, DecisionInv, DecisionShape, InProcess
  <2>3. /\ \A p \in dclaimed' : p \in dclaimed \/ (p = dcur /\ dcur # NoSig)
        /\ \A p \in missed' : p \in missed \/ (p = dcur /\ dcur # NoSig)
    BY <2>2 DEF DCrash
  <2>4. lag' \in 0 .. MaxSignals
    BY DEF DCrash, DecisionInv, DecisionTypes
  <2>5. QED
    BY <1>1, <2>1, <2>3, <2>4, TypesKeep
<1>3. /\ dclaimed \subseteq dclaimed' /\ missed \subseteq missed'
      /\ dpc' \in InProcess \cup {"handle", "ack"} => dcur' # NoSig
      /\ dpc' \in InProcess => dcur' \in dclaimed' \ Answered
      /\ dpc' = "ack" => dcur' \in dclaimed'
  BY <1>1, DecisionFacts DEF DCrash, DecisionInv, DecisionShape, NoSig, InProcess, Ids
<1>4. faults' + crashes' = 0 =>
        \A p \in dclaimed' : \/ p \in Answered \cup missed'
                             \/ dpc' \in InProcess /\ dcur' = p
                             \/ /\ p \in dclaimed
                                /\ dpc \in InProcess /\ dcur = p
                                   => dpc' \in InProcess /\ dcur' = dcur
  BY <1>1, FailureCounted DEF DCrash, InProcess
<1>5. \A p \in 1 .. dunread' - 1 \ dpel' :
        \/ p \in 1 .. dunread - 1 \ dpel
        \/ dpc = "ack" /\ p = dcur
  BY <1>1 DEF DCrash
<1>6. QED
  BY <1>1, <1>2, <1>3, <1>4, <1>5, UnansweringDecision

\* It starts again.
LEMMA DRestartDecision ==
    ASSUME BridgeInv, BridgeInv', DecisionInv, DRestart
    PROVE  DecisionInv'
<1> USE BridgeAssumption
<1>1. /\ UNCHANGED <<preds, executed, rejected>> /\ UNCHANGED signals
      /\ faults <= faults' /\ crashes <= crashes'
  BY DecisionIsOutside
     DEF OutsideStep, BridgeInv, BridgeTypeOK, DRestart, processKeeps, bridgeButSignals, bridgeVars,
         streamVars
<1>2. DecisionTypes'
  <2>1. /\ dunread' = dunread /\ dpel' \subseteq dpel /\ dpc' \in DecisionSteps
        /\ dcur' \in {dcur, NoSig} \cup dtodo /\ dtodo' \subseteq dtodo \cup dpel
    BY DEF DRestart, DecisionInv, DecisionTypes, DecisionSteps
  <2>2. dcur # NoSig \/ UNCHANGED <<dclaimed, missed>>
    BY DEF DRestart, DecisionInv, DecisionShape, InProcess
  <2>3. /\ \A p \in dclaimed' : p \in dclaimed \/ (p = dcur /\ dcur # NoSig)
        /\ \A p \in missed' : p \in missed \/ (p = dcur /\ dcur # NoSig)
    BY <2>2 DEF DRestart
  <2>4. lag' \in 0 .. MaxSignals
    BY DEF DRestart, DecisionInv, DecisionTypes
  <2>5. QED
    BY <1>1, <2>1, <2>3, <2>4, TypesKeep
<1>3. /\ dclaimed \subseteq dclaimed' /\ missed \subseteq missed'
      /\ dpc' \in InProcess \cup {"handle", "ack"} => dcur' # NoSig
      /\ dpc' \in InProcess => dcur' \in dclaimed' \ Answered
      /\ dpc' = "ack" => dcur' \in dclaimed'
  BY <1>1, DecisionFacts DEF DRestart, DecisionInv, DecisionShape, NoSig, InProcess, Ids
<1>4. faults' + crashes' = 0 =>
        \A p \in dclaimed' : \/ p \in Answered \cup missed'
                             \/ dpc' \in InProcess /\ dcur' = p
                             \/ /\ p \in dclaimed
                                /\ dpc \in InProcess /\ dcur = p
                                   => dpc' \in InProcess /\ dcur' = dcur
  BY <1>1, FailureCounted DEF DRestart, InProcess
<1>5. \A p \in 1 .. dunread' - 1 \ dpel' :
        \/ p \in 1 .. dunread - 1 \ dpel
        \/ dpc = "ack" /\ p = dcur
  BY <1>1 DEF DRestart
<1>6. QED
  BY <1>1, <1>2, <1>3, <1>4, <1>5, UnansweringDecision

\* The two ways to answer.
LEMMA PublishDecision ==
    ASSUME BridgeInv, BridgeInv', DecisionInv, PublishExecute \/ PublishReject
    PROVE  DecisionInv'
<1> USE BridgeAssumption
<1>1. /\ dcur \in Ids \ Answered /\ dcur \in dclaimed /\ dcur # NoSig
      /\ UNCHANGED <<preds, dunread, dpel, dtodo, dclaimed, missed, lag>>
      /\ faults <= faults' /\ crashes <= crashes'
  <2>1. faults <= faults' /\ crashes <= crashes'
    BY DecisionIsOutside DEF Decision, OutsideStep
  <2>2. QED
    BY <2>1, PublishFacts DEF processKeeps, NoSig, Ids
<1>2. /\ dpc' \in {"ack", "idle"} /\ dcur' \in {dcur, NoSig}
      /\ dpc' = "ack" => dcur' = dcur
  BY PublishFacts DEF DGoto, DRaise
<1>3. CASE UNCHANGED <<signals, executed, rejected>> /\ DRaise
  <2>1. DecisionTypes'
    BY <1>1, <1>2, <1>3, TypesKeep DEF DecisionSteps, DecisionInv, DecisionTypes
  <2>2. faults' + crashes' # 0
    BY <1>1, <1>3, FailureCounted DEF DRaise
  <2>3. dpc' \notin InProcess \cup {"handle", "ack"}
    BY <1>3 DEF DRaise, InProcess
  <2>4. QED
    BY <1>1, <1>3, <2>1, <2>2, <2>3, UnansweringDecision
<1>4. CASE /\ \/ executed' = Up(executed, dcur) /\ rejected' = rejected
              \/ rejected' = Up(rejected, dcur) /\ executed' = executed
           /\ \E x \in Tickers \cup {Reject} : signals' = Append(signals, x)
           /\ DGoto("ack") \/ DRaise
  <2>1. /\ executed' \in [Ids -> Nat] /\ rejected' \in [Ids -> Nat]
        /\ Answered' = Answered \cup {dcur}
        /\ Cardinality(Answered') = Len(signals) + 1 /\ Len(signals) + 1 <= MaxSignals
        /\ AnsweredOnce'
    BY <1>1, <1>4, OneMoreAnswered
  <2>2. Len(signals') = Len(signals) + 1
    BY <1>4, <2>1, OneMoreSignal
  <2>3. DecisionTypes'
    <3>1. dcur' \in 0 .. dunread' - 1
      BY <1>1, <1>2, DecisionFacts DEF DecisionInv, DecisionTypes, NoSig
    <3>2. QED
      BY <1>1, <1>2, <2>1, <3>1 DEF DecisionSteps, DecisionInv, DecisionTypes
  <2>4. faults' + crashes' = 0 => \A q \in dclaimed : q \in Answered' \cup missed
    BY <1>1, <2>1, FailureCounted DEF DecisionInv, DecisionShape
  <2>5. DecisionShape'
    <3>1. Answered' \subseteq dclaimed'
      BY <1>1, <2>1 DEF DecisionInv, DecisionShape
    <3>2. dpc' \in InProcess \cup {"handle", "ack"} => dpc' = "ack"
      BY <1>2 DEF InProcess
    <3>3. dpc' \notin InProcess
      BY <1>2 DEF InProcess
    <3>4. QED
      BY <1>1, <1>2, <2>1, <2>2, <2>4, <3>1, <3>2, <3>3 DEF DecisionShape
  <2>6. UnansweredNeedsFailure'
    <3> SUFFICES ASSUME NEW q \in 1 .. dunread - 1 \ dpel,
                        executed'[q] + rejected'[q] = 0
                 PROVE  q \in missed \/ faults' + crashes' > 0
      BY <1>1 DEF UnansweredNeedsFailure
    <3>1. q \in Ids
      BY DecisionFacts
    <3>2. q \notin Answered
      BY <2>1, <3>1 DEF Answered
    <3>3. executed[q] + rejected[q] = 0
      BY <3>1, <3>2 DEF Answered, DecisionInv, DecisionTypes
    <3>4. QED
      BY <1>1, <3>3, FailureCounted
         DEF DecisionInv, AnswersAreExplained, UnansweredNeedsFailure
  <2>7. QED
    BY <2>1, <2>3, <2>5, <2>6 DEF DecisionInv, AnswersAreExplained
<1>5. QED
  BY <1>3, <1>4, PublishFacts

\* What is proved about decision and the bridge together.
SystemInv == BridgeInv /\ SlotsInv /\ DecisionInv

LEMMA BridgeStepKeepsSignals ==
    ASSUME BridgeInv, BridgeStep
    PROVE  UNCHANGED signals /\ faults <= faults' /\ crashes <= crashes'
<1>1. faults \in Nat /\ crashes \in Nat
  BY BridgeAssumption DEF BridgeInv, BridgeTypeOK
<1>2. UNCHANGED signals
  BY DEF BridgeStep, Consumer, Scan, Respawn, Recovered, RecoverPel, Replay,
         ReadSignal, ReadNothing, IgnoreReject, Claim, OpenRefused, PublishOpen, Persist,
         TakeSlot, AckSignal, Tracker, PublishClose, Book, Forget, FreeSlot, Cool,
         CooldownEnds, NewDay, ClaimExpires, Crash, Restart, bridgeVars, streamVars
<1>3. faults' = faults \/ faults' = faults + 1
  BY DEF BridgeStep, Consumer, Scan, Respawn, Recovered, RecoverPel, Replay,
         ReadSignal, ReadNothing, IgnoreReject, Claim, OpenRefused, PublishOpen, Persist,
         TakeSlot, AckSignal, Tracker, PublishClose, Book, Forget, FreeSlot, Cool, Step,
         Dies, Goto, Raise, NoFault, Fault, CooldownEnds, NewDay, ClaimExpires, Crash,
         Restart, bridgeVars
<1>4. crashes' = crashes \/ crashes' = crashes + 1
  BY DEF BridgeStep, Consumer, Scan, Respawn, Recovered, RecoverPel, Replay,
         ReadSignal, ReadNothing, IgnoreReject, Claim, OpenRefused, PublishOpen, Persist,
         TakeSlot, AckSignal, Tracker, PublishClose, Book, Forget, FreeSlot, Cool,
         CooldownEnds, NewDay, ClaimExpires, Crash, Restart, bridgeVars
<1>5. QED
  BY <1>1, <1>2, <1>3, <1>4

\* Every step of the two services keeps what is known of both.
LEMMA SystemStep == SystemInv /\ [Next]_vars => SystemInv'
<1> SUFFICES ASSUME SystemInv, [Next]_vars PROVE SystemInv'
  OBVIOUS
<1> USE DEF SystemInv
<1>1. CASE BridgeStep /\ UNCHANGED decisionVars
  <2>1. [BridgeNext]_bridgeVars
    BY <1>1 DEF BridgeNext
  <2>2. BridgeInv'
    BY <2>1, BridgeNextInv
  <2>3. SlotsInv'
    BY <2>1, <2>2, HandledOnceStep, SlotsStep DEF SlotsInv
  <2>4. DecisionInv'
    BY <1>1, <2>2, BridgeStepKeepsSignals, BridgeStepDecision
  <2>5. QED
    BY <2>2, <2>3, <2>4
<1>2. CASE Decision \/ DCrash
  <2>1. OutsideStep
    BY <1>2, DecisionIsOutside
  <2>2. BridgeInv' /\ SlotsInv'
    BY <2>1, OutsideInv, OutsideSlots
  <2>3. DecisionInv'
    BY <1>2, <2>2, DRecoverPelDecision, DReadDecision, DAckDecision, DClaimDecision,
       LookupDecision, GateKillDecision, GateCooldownDecision, GateCountDecision,
       PublishDecision, DReplayDecision, DCrashDecision
       DEF Decision
  <2>4. QED
    BY <2>2, <2>3
<1>3. ASSUME UNCHANGED bridgeVars PROVE BridgeInv' /\ SlotsInv'
  <2>1. BridgeInv'
    BY <1>3, StutterInv
  <2>2. SlotsInv'
    BY <1>3, <2>1, HandledOnceStep, SlotsStep DEF SlotsInv
  <2>3. QED
    BY <2>1, <2>2
<1>4. ASSUME NEW x \in Tickers, Predict(x) PROVE SystemInv'
  BY <1>3, <1>4, PredictDecision DEF Predict
<1>5. CASE DRestart
  BY <1>3, <1>5, DRestartDecision DEF DRestart
<1>6. CASE UNCHANGED vars
  <2>1. UNCHANGED bridgeVars /\ UNCHANGED decisionVars
    BY <1>6 DEF vars
  <2>2. UNCHANGED signals /\ faults <= faults' /\ crashes <= crashes'
    BY <2>1, BridgeAssumption DEF bridgeVars, streamVars, BridgeInv, BridgeTypeOK
  <2>3. QED
    BY <1>3, <2>1, <2>2, BridgeStepDecision
<1>7. QED
  BY <1>1, <1>2, <1>4, <1>5, <1>6 DEF Next

LEMMA SystemInit == Init => SystemInv
<1> SUFFICES ASSUME Init PROVE SystemInv
  OBVIOUS
<1> USE BridgeAssumption DEF Init
<1>1. BridgeInv
  BY BridgeInitInv
<1>2. SlotsInv
  BY DEF BridgeInit, SlotsInv, HandledOnce, SlotsFollowPositions, NoSlotLeaks, OwnSlotHeld,
         Ids, NoSig
<1>3. Answered = {}
  BY DEF Answered
<1>4. DecisionTypes
  BY DEF DecisionTypes, DecisionSteps, Ids, NoSig
<1>5. DecisionShape
  <2>1. Len(signals) = 0 /\ Cardinality(Answered) = 0
    BY <1>3, FS_EmptySet DEF BridgeInit
  <2>2. QED
    BY <1>3, <2>1 DEF DecisionShape, InProcess
<1>6. AnswersAreExplained
  BY DEF AnswersAreExplained, AnsweredOnce, UnansweredNeedsFailure
<1>7. QED
  BY <1>1, <1>2, <1>4, <1>5, <1>6 DEF SystemInv, DecisionInv

\* The two services keep the invariants of the bridge and of decision, for any number
\* of predictions, tickers, failing commands, expired claims and crashes of either.
THEOREM SystemInvariant == Spec => []SystemInv
<1>1. QED
  BY SystemInit, SystemStep, PTL DEF Spec

\* The types hold in both services: a signal for each prediction at most, so that the
\* stream of signals is no longer than that of predictions.
THEOREM RiskTypeOKHolds == Spec => []TypeOK
<1>1. SystemInv => TypeOK
  BY DEF SystemInv, BridgeInv, DecisionInv, DecisionTypes, TypeOK
<1>2. QED
  BY <1>1, SystemInvariant, PTL

\* A prediction leads to one signal at most, through every crash and replay; one that
\* was acknowledged without a signal missed its enrichment, or something failed.
THEOREM AnswersAreExplainedHolds == Spec => []AnswersAreExplained
<1>1. SystemInv => AnswersAreExplained
  BY DEF SystemInv, DecisionInv
<1>2. QED
  BY <1>1, SystemInvariant, PTL

-------------------------------------------------------------------------------
(* The limits. *)

\* The bridge only takes signals off the backlog.
LEMMA BacklogShrinks ==
    ASSUME BridgeInv, BridgeStep
    PROVE  Backlog' \subseteq Backlog
<1>1. UNCHANGED signals
  BY BridgeStepKeepsSignals
<1>2. unread \in Nat
  BY BridgeAssumption DEF BridgeInv, BridgeTypeOK
<1>3. CASE ReadSignal
  <2>1. unread' = unread + 1 /\ pel' = pel \cup {unread}
    BY <1>3 DEF ReadSignal
  <2>2. \A s \in Nat : s >= unread + 1 => s >= unread
    BY <1>2
  <2>3. QED
    BY <1>1, <1>2, <2>1, <2>2 DEF Backlog
<1>4. CASE ~ReadSignal
  <2>1. unread' = unread /\ pel' \subseteq pel
    BY <1>4
       DEF BridgeStep, Consumer, Scan, Respawn, Recovered, RecoverPel, Replay, ReadNothing,
           IgnoreReject, Claim, OpenRefused, PublishOpen, Persist, TakeSlot, AckSignal,
           Tracker, PublishClose, Book, Forget, FreeSlot, Cool, CooldownEnds, NewDay,
           ClaimExpires, Crash, Restart, bridgeVars, streamVars
  <2>2. QED
    BY <1>1, <2>1 DEF Backlog
<1>5. QED
  BY <1>3, <1>4

\* Decision adds to it by an EXECUTE only.
LEMMA BacklogFrame ==
    ASSUME BridgeInv, UNCHANGED <<unread, pel>>,
           UNCHANGED signals \/ signals' = Append(signals, Reject)
    PROVE  Backlog' = Backlog
<1>1. CASE UNCHANGED signals
  BY <1>1 DEF Backlog
<1>2. CASE signals' = Append(signals, Reject)
  <2>1. Len(signals) \in Nat
    BY DEF BridgeInv, BridgeTypeOK
  <2>2. /\ Len(signals') = Len(signals) + 1 /\ signals'[Len(signals) + 1] = Reject
        /\ \A u \in 1 .. Len(signals) : signals'[u] = signals[u]
    BY <1>2 DEF BridgeInv, BridgeTypeOK
  <2>3. 1 .. Len(signals') = 1 .. Len(signals) \cup {Len(signals) + 1}
    BY <2>1, <2>2
  <2>4. QED
    BY <2>2, <2>3 DEF Backlog
<1>3. QED
  BY <1>1, <1>2

\* A step that is not PublishExecute, and how a trade gets past a gate.
LEMMA GatesHold ==
    ASSUME SystemInv, [Next]_vars, ~PublishExecute
    PROVE  /\ Backlog' \subseteq Backlog
           /\ dpc' = "execute" => dpc = "execute" \/ ~LimitReached
           /\ dpc' \in {"cooldown", "count", "execute"} =>
                 \/ dpc \in {"cooldown", "count", "execute"}
                 \/ ~Killed
<1> USE DEF SystemInv
<1>1. Backlog' \subseteq Backlog
  <2>1. CASE BridgeStep
    BY <2>1, BacklogShrinks
  <2>2. CASE Decision
    <3>1. UNCHANGED <<unread, pel>>
      BY <2>2, DecisionFaults
    <3>2. UNCHANGED signals \/ signals' = Append(signals, Reject)
      BY <2>2 DEF Decision, DRecoverPel, DRead, DAck, DClaim, Lookup, GateKill,
         GateCooldown, GateCount, PublishReject, DReplay, bridgeVars, streamVars
    <3>3. QED
      BY <3>1, <3>2, BacklogFrame
  <2>3. CASE UNCHANGED bridgeVars \/ DCrash
    <3>1. UNCHANGED <<unread, pel>> /\ UNCHANGED signals
      BY <2>3 DEF DCrash, bridgeVars, streamVars
    <3>2. QED
      BY <3>1, BacklogFrame
  <2>4. QED
    BY <2>1, <2>2, <2>3 DEF Next, Predict, DRestart, vars
<1>2. dpc' \in {"cooldown", "count", "execute"} /\ dpc' # dpc =>
        \/ GateKill /\ dpc' = "cooldown"
        \/ GateCooldown /\ dpc' = "count"
        \/ GateCount /\ dpc' = "execute"
  BY DEF Next, Decision, DRecoverPel, DRead, DAck, DClaim, Lookup, GateKill,
         GateCooldown, GateCount, PublishReject, DReplay, DGoto, DRaise,
         Predict, DCrash, DRestart, decisionVars, vars
<1>3. GateCount /\ dpc' = "execute" => ~LimitReached
  BY DEF GateCount, DGoto, DRaise
<1>4. GateKill /\ dpc' = "cooldown" => ~Killed
  BY DEF GateKill, DGoto, DRaise
<1>5. /\ GateCount => dpc = "count" 
      /\ GateCooldown => dpc = "cooldown"
  BY DEF GateCount, GateCooldown
<1>6. QED
  BY <1>1, <1>2, <1>3, <1>4, <1>5

\* A reached limit, of the daily PnL or of the open tickers, admits no trade: nothing
\* gets past its gate while it is reached, whatever the bridge does in between.
THEOREM ReachedLimitStopsHolds == Spec => ReachedLimitStops
<1> DEFINE afterKill == {"cooldown", "count", "execute"}
<1>1. SystemInv /\ [Next]_vars =>
        [/\ Killed /\ NothingPast(afterKill) => NothingPast(afterKill)'
         /\ LimitReached /\ NothingPast({"execute"}) => NothingPast({"execute"})']_vars
  <2> SUFFICES ASSUME SystemInv, [Next]_vars
               PROVE  /\ Killed /\ NothingPast(afterKill) => NothingPast(afterKill)'
                      /\ LimitReached /\ NothingPast({"execute"})
                            => NothingPast({"execute"})'
    OBVIOUS
  <2>1. NothingPast(afterKill) \/ NothingPast({"execute"}) => ~PublishExecute
    BY DEF NothingPast, PublishExecute
  <2>2. QED
    BY <2>1, GatesHold DEF NothingPast
<1>2. QED
  BY <1>1, SystemInvariant, PTL DEF Spec, ReachedLimitStops

\* How far the open tickers can get beyond the limit.
InHands == {"handle", "open", "persist", "slot", "ack"}

Hands == pc \in InHands => cur \in pel

Tracked == \A s \in persisted : \/ track[s] \in {"watch", "book", "forget"}
                                \/ pc = "slot" /\ cur = s

Room == Cardinality(Wanted) + (IF dpc = "execute" THEN 1 ELSE 0) <= MaxOpen + lag

RoomInv == faults + crashes = 0 => Hands /\ Tracked /\ Room /\ IsFiniteSet(Wanted)

\* Without a failure, a signal in the bridge's hands is pending.
LEMMA BridgeHandsStep ==
    ASSUME BridgeInv, SlotsInv, faults + crashes = 0, Hands, [BridgeNext]_bridgeVars,
           ~Fault, ~Crash
    PROVE  Hands'
<1> USE DEF Hands, InHands
<1>1. todo = {}
  BY DEF SlotsInv, HandledOnce
<1>2. CASE UNCHANGED <<pc, cur, pel>>
  BY <1>2
<1>3. CASE Consumer
  BY <1>1, <1>3 DEF Consumer, Scan, Respawn, Recovered, RecoverPel, Replay,
         ReadSignal, ReadNothing, IgnoreReject, Claim, OpenRefused, PublishOpen, Persist,
         TakeSlot, AckSignal, Goto, Raise, bridgeVars, streamVars, loopVars
<1>4. CASE Restart
  BY <1>4 DEF Restart
<1>5. CASE ~Consumer /\ ~Restart
  BY <1>2, <1>5 DEF BridgeNext, BridgeStep, Tracker, PublishClose, Book, Forget, FreeSlot,
         Cool, CooldownEnds, NewDay, ClaimExpires, Signal, bridgeVars, streamVars, loopVars
<1>6. QED
  BY <1>3, <1>4, <1>5

\* Without a failure, the consumer starts the only tracker a position has.
LEMMA SlotIsFirst ==
    ASSUME BridgeInv, SlotsInv, faults + crashes = 0, pc = "slot"
    PROVE  track[cur] = "none" /\ cur \in Ids
<1>1. cur \in Ids /\ opens[cur] > 0
  BY DEF BridgeInv, ConsumerKnows, Delivered
<1>2. claims[cur] <= 1
  <2>1. claims[cur] <= 1 \/ claims[cur] <= 0
    BY <1>1 DEF SlotsInv, HandledOnce
  <2>2. claims[cur] \in Nat
    BY <1>1 DEF BridgeInv, BridgeTypeOK
  <2>3. \A a \in Nat : a <= 0 => a <= 1
    OBVIOUS
  <2>4. QED
    BY <2>1, <2>2, <2>3
<1>3. claims[cur] = 1
  <2>1. opens[cur] \in Nat /\ claims[cur] \in Nat /\ opens[cur] <= claims[cur]
    BY <1>1 DEF BridgeInv, BridgeTypeOK, OpenedOncePerClaim
  <2>2. \A a, b \in Nat : a > 0 /\ a <= b /\ b <= 1 => b = 1
    OBVIOUS
  <2>3. QED
    BY <1>1, <1>2, <2>1, <2>2
<1>4. QED
  BY <1>1, <1>3 DEF BridgeInv, ConsumerKnows

LEMMA TrackedStep ==
    ASSUME BridgeInv, SlotsInv, faults + crashes = 0, Tracked, [BridgeNext]_bridgeVars,
           ~Fault, ~Crash
    PROVE  Tracked'
<1> USE DEF Tracked
<1>0. track \in [Ids -> TrackerSteps] /\ persisted \subseteq Ids
  BY DEF BridgeInv, BridgeTypeOK
<1>1. CASE UNCHANGED <<track, persisted>> /\ (UNCHANGED <<pc, cur>> \/ pc # "slot")
  BY <1>1
<1>2. CASE Persist
  BY <1>2 DEF Persist, Goto, Raise
<1>3. CASE TakeSlot
  <2>1. track[cur] = "none" /\ cur \in Ids
    BY <1>3, SlotIsFirst DEF TakeSlot
  <2>2. persisted' = persisted /\ track'[cur] = "watch"
        /\ \A s \in Ids \ {cur} : track'[s] = track[s]
    BY <1>0, <1>3, <2>1 DEF TakeSlot, Goto, Raise
  <2>3. QED
    BY <1>0, <2>2
<1>4. CASE Scan \/ Recovered \/ RecoverPel \/ ReadSignal \/ ReadNothing \/ IgnoreReject
           \/ Claim \/ OpenRefused \/ PublishOpen \/ AckSignal \/ Restart
           \/ (\E s \in Ids : Replay(s))
  BY <1>1, <1>4 DEF Scan, Recovered, RecoverPel, ReadSignal, ReadNothing, IgnoreReject,
         Claim, OpenRefused, PublishOpen, AckSignal, Restart, Replay, Goto, Raise,
         bridgeVars, loopVars, riskVars
<1>5. ASSUME NEW s \in Ids PROVE ~Respawn(s)
  BY DEF Respawn, SlotsInv, HandledOnce
<1>6. ASSUME NEW k \in Ids, Tracker(k) PROVE Tracked'
  <2>1. UNCHANGED <<pc, cur>>
    BY <1>6 DEF Tracker, PublishClose, Book, Forget, FreeSlot, Cool, loopVars
  <2>2. \A s \in Ids \ {k} : track'[s] = track[s]
    BY <1>0, <1>6 DEF Tracker, PublishClose, Book, Forget, FreeSlot, Cool, Step, Dies
  <2>3. persisted' \subseteq persisted
    BY <1>6 DEF Tracker, PublishClose, Book, Forget, FreeSlot, Cool, riskVars
  <2>4. \/ k \notin persisted' \/ track'[k] \in {"watch", "book", "forget"}
        \/ track[k] \notin {"watch", "book", "forget"}
    BY <1>0, <1>6 DEF Tracker, PublishClose, Book, Forget, FreeSlot, Cool, Step, Dies
  <2>5. QED
    BY <1>0, <2>1, <2>2, <2>3, <2>4
<1>7. CASE UNCHANGED <<pc, cur, track, persisted>>
  BY <1>7
<1>8. CASE Consumer
  BY <1>2, <1>3, <1>4, <1>5, <1>8 DEF Consumer
<1>9. QED
  BY <1>4, <1>6, <1>7, <1>8 DEF BridgeNext, BridgeStep, CooldownEnds, NewDay, ClaimExpires,
         Signal, bridgeVars, streamVars, loopVars, riskVars

\* Nothing the bridge does makes more tickers wanted.
LEMMA WantedShrinks ==
    ASSUME BridgeInv, SlotsInv, faults + crashes = 0, BridgeStep, Hands
    PROVE  Wanted' \subseteq Wanted
<1>1. Backlog' \subseteq Backlog /\ UNCHANGED signals
  BY BacklogShrinks, BridgeStepKeepsSignals
<1>2. CASE TakeSlot
  <2>1. slots' \subseteq slots \cup {signals[cur]}
    BY <1>2 DEF TakeSlot
  <2>2. cur \in Backlog
    <3>1. cur \in pel /\ cur \in Delivered /\ signals[cur] # Reject
      BY <1>2 DEF TakeSlot, Hands, InHands, BridgeInv, ConsumerKnows
    <3>2. cur \in 1 .. Len(signals)
      <4>1. /\ unread \in Nat /\ unread <= Len(signals) + 1 /\ Len(signals) \in Nat
            /\ cur \in Nat /\ cur >= 1 /\ cur < unread
        BY <3>1, BridgeAssumption DEF Delivered, Ids, BridgeInv, BridgeTypeOK, StreamShape
      <4>2. QED
        BY <4>1
    <3>3. QED
      BY <3>1, <3>2 DEF Backlog
  <2>3. QED
    BY <1>1, <2>1, <2>2 DEF Wanted
<1>3. CASE \E s \in Ids : Respawn(s)
  BY <1>3 DEF Respawn, SlotsInv, HandledOnce
<1>4. CASE ~TakeSlot /\ ~(\E s \in Ids : Respawn(s))
  <2>1. slots' \subseteq slots
    BY <1>4
       DEF BridgeStep, Consumer, Scan, Recovered, RecoverPel, Replay, ReadNothing,
           ReadSignal, IgnoreReject, Claim, OpenRefused, PublishOpen, Persist, AckSignal,
           Tracker, PublishClose, Book, Forget, FreeSlot, Cool, CooldownEnds, NewDay,
           ClaimExpires, Crash, Restart, bridgeVars, riskVars
  <2>2. QED
    BY <1>1, <2>1 DEF Wanted
<1>5. QED
  BY <1>2, <1>3, <1>4

\* The tickers on their way to a slot are no more than the signals that bring them.
LEMMA WantedCounted ==
    ASSUME SystemInv, IsFiniteSet(Wanted)
    PROVE  /\ Cardinality(slots) \in Nat /\ Cardinality(Backlog) \in Nat
           /\ Cardinality(Wanted) <= Cardinality(slots) + Cardinality(Backlog)
<1> DEFINE brought == {signals[s] : s \in Backlog}
           bring == [s \in Backlog |-> signals[s]]
<1>1. IsFiniteSet(Backlog)
  <2>1. Backlog \in SUBSET (1 .. Len(signals))
    BY DEF Backlog
  <2>2. QED
    BY <2>1, UpTo, DecisionFacts, FS_Subset DEF SystemInv
<1>2. bring \in Surjection(Backlog, brought)
  BY DEF Surjection
<1>3. IsFiniteSet(brought) /\ Cardinality(brought) <= Cardinality(Backlog)
  <2> HIDE DEF brought, bring
  <2>1. QED
    BY <1>1, <1>2, FS_Surjection
<1>4. IsFiniteSet(slots)
  BY FS_Subset DEF Wanted
<1>5. Cardinality(slots \cup brought) <= Cardinality(slots) + Cardinality(brought)
  <2> HIDE DEF brought
  <2>1. /\ Cardinality(slots \cup brought)
             = Cardinality(slots) + Cardinality(brought) - Cardinality(slots \cap brought)
        /\ IsFiniteSet(slots \cap brought)
    BY <1>3, <1>4, FS_Union, FS_Intersection
  <2>2. /\ Cardinality(slots) \in Nat /\ Cardinality(brought) \in Nat
        /\ Cardinality(slots \cap brought) \in Nat
    BY <1>3, <1>4, <2>1, FS_CardinalityType
  <2>3. \A a, b, c \in Nat : a + b - c <= a + b
    OBVIOUS
  <2>4. QED
    BY <2>1, <2>2, <2>3
<1>6. /\ Cardinality(slots) \in Nat /\ Cardinality(Backlog) \in Nat
      /\ Cardinality(brought) \in Nat
  <2> HIDE DEF brought
  <2>1. QED
    BY <1>1, <1>3, <1>4, FS_CardinalityType
<1>7. Wanted = slots \cup brought
  BY DEF Wanted
<1>8. Cardinality(Wanted) \in Nat
  BY FS_CardinalityType
<1>9. \A a, b, c, w \in Nat : w <= a + b /\ b <= c => w <= a + c
  OBVIOUS
<1> HIDE DEF brought
<1>10. QED
  BY <1>3, <1>5, <1>6, <1>7, <1>8, <1>9

\* A step of decision that adds nothing but a REJECT wants nothing more; an EXECUTE
\* wants its ticker.
LEMMA WantedByDecision ==
    ASSUME SystemInv, UNCHANGED <<unread, pel, slots>>
    PROVE  /\ UNCHANGED signals \/ signals' = Append(signals, Reject) => Wanted' = Wanted
           /\ \A x \in Tickers :
                 signals' = Append(signals, x) => Wanted' \subseteq Wanted \cup {x}
<1>1. Len(signals) \in Nat
  BY DEF SystemInv, BridgeInv, BridgeTypeOK
<1>2. ASSUME UNCHANGED signals \/ signals' = Append(signals, Reject)
      PROVE  Wanted' = Wanted
  <2>1. Backlog' = Backlog
    BY <1>2, BacklogFrame DEF SystemInv
  <2>2. \A s \in Backlog : signals'[s] = signals[s]
    BY <1>2 DEF Backlog, SystemInv, BridgeInv, BridgeTypeOK
  <2>3. QED
    BY <2>1, <2>2 DEF Wanted
<1>3. ASSUME NEW x \in Tickers, signals' = Append(signals, x)
      PROVE  Wanted' \subseteq Wanted \cup {x}
  <2>1. /\ Len(signals') = Len(signals) + 1 /\ signals'[Len(signals) + 1] = x
        /\ \A u \in 1 .. Len(signals) : signals'[u] = signals[u]
    BY <1>3 DEF SystemInv, BridgeInv, BridgeTypeOK
  <2>2. 1 .. Len(signals') = 1 .. Len(signals) \cup {Len(signals) + 1}
    BY <1>1, <2>1
  <2>3. Backlog' \subseteq Backlog \cup {Len(signals) + 1}
    BY <2>1, <2>2 DEF Backlog
  <2>4. \A s \in Backlog : signals'[s] = signals[s]
    BY <2>1 DEF Backlog
  <2>5. QED
    BY <2>1, <2>3, <2>4 DEF Wanted
<1>4. QED
  BY <1>2, <1>3

\* When decision counts, the tickers already wanted leave room for one more within
\* the limit and the signals that are on the way.
LEMMA CountedRoom ==
    ASSUME SystemInv, IsFiniteSet(Wanted), GateCount, dpc' = "execute"
    PROVE  Cardinality(Wanted) + 1 <= MaxOpen + lag'
<1>1. ~LimitReached /\ (lag' = Cardinality(Backlog) \/ (lag' = lag /\ ~(Cardinality(Backlog) > lag)))
  BY DEF GateCount, DGoto, DRaise
<1>2. lag \in Nat /\ MaxOpen \in Nat
  BY RiskAssumption, BridgeAssumption DEF SystemInv, DecisionInv, DecisionTypes
<1>3. /\ Cardinality(slots) \in Nat /\ Cardinality(Backlog) \in Nat
      /\ Cardinality(Wanted) \in Nat
      /\ Cardinality(Wanted) <= Cardinality(slots) + Cardinality(Backlog)
  BY WantedCounted, FS_CardinalityType
<1>4. lag' \in Nat /\ Cardinality(Backlog) <= lag'
  BY <1>1, <1>2, <1>3
<1>5. Cardinality(slots) + 1 <= MaxOpen
  BY <1>1, <1>2, <1>3 DEF LimitReached
<1>6. \A w, k, b, m, l \in Nat : w <= k + b /\ k + 1 <= m /\ b <= l => w + 1 <= m + l
  OBVIOUS
<1>7. QED
  BY <1>2, <1>3, <1>4, <1>5, <1>6

\* The room that is left through every step.
LEMMA RoomStep == SystemInv /\ SystemInv' /\ RoomInv /\ [Next]_vars => RoomInv'
<1> SUFFICES ASSUME SystemInv, SystemInv', RoomInv, [Next]_vars, faults' + crashes' = 0
             PROVE  Hands' /\ Tracked' /\ Room' /\ IsFiniteSet(Wanted)'
  BY DEF RoomInv
<1>0. BridgeInv /\ BridgeInv' /\ SlotsInv /\ DecisionInv
  BY DEF SystemInv
<1>1. faults <= faults' /\ crashes <= crashes'
  <2>1. CASE BridgeStep
    BY <1>0, <2>1, BridgeStepKeepsSignals
  <2>2. CASE Decision \/ DCrash
    BY <1>0, <2>2, DecisionIsOutside DEF OutsideStep
  <2>3. CASE UNCHANGED bridgeVars
    BY <1>0, <2>3, BridgeAssumption DEF bridgeVars, BridgeInv, BridgeTypeOK
  <2>4. QED
    BY <2>1, <2>2, <2>3 DEF Next, Predict, DRestart, vars
<1>2. faults + crashes = 0 /\ ~Fault /\ crashes' # crashes + 1
  BY <1>0, <1>1, FailureCounted
<1>3. Hands /\ Tracked /\ Room /\ IsFiniteSet(Wanted)
  BY <1>2 DEF RoomInv
<1>4. Cardinality(Wanted) \in Nat /\ lag \in Nat /\ MaxOpen \in Nat
  BY <1>0, <1>3, FS_CardinalityType, RiskAssumption, BridgeAssumption
     DEF DecisionInv, DecisionTypes
<1>5. \A w, v, m, l \in Nat : v <= w /\ w <= m + l => v <= m + l
  OBVIOUS
<1>6. \A w, v, m, l \in Nat : v <= w + 1 /\ w + 1 <= m + l => v <= m + l
  OBVIOUS
<1>7. Cardinality(Wanted) <= MaxOpen + lag
  <2>1. \A w, m, l \in Nat : w + 1 <= m + l \/ w + 0 <= m + l => w <= m + l
    OBVIOUS
  <2>2. Cardinality(Wanted) + 1 <= MaxOpen + lag \/ Cardinality(Wanted) + 0 <= MaxOpen + lag
    BY <1>3 DEF Room
  <2>3. QED
    BY <1>4, <2>1, <2>2
<1>8. CASE BridgeStep /\ UNCHANGED decisionVars
  <2>1. [BridgeNext]_bridgeVars /\ ~Crash
    BY <1>2, <1>8 DEF BridgeNext, Crash
  <2>2. Hands' /\ Tracked'
    BY <1>0, <1>2, <1>3, <2>1, BridgeHandsStep, TrackedStep
  <2>3. Wanted' \subseteq Wanted
    BY <1>0, <1>2, <1>3, <1>8, WantedShrinks
  <2>4. IsFiniteSet(Wanted') /\ Cardinality(Wanted') <= Cardinality(Wanted)
    BY <1>3, <2>3, FS_Subset
  <2>5. Cardinality(Wanted') \in Nat
    BY <2>4, FS_CardinalityType
  <2>6. dpc' = dpc /\ lag' = lag
    BY <1>8 DEF decisionVars
  <2>7. Room'
    <3>1. CASE dpc = "execute"
      <4>1. Cardinality(Wanted) + 1 <= MaxOpen + lag
        BY <1>3, <3>1 DEF Room
      <4>2. \A w, v, m, l \in Nat : v <= w /\ w + 1 <= m + l => v + 1 <= m + l
        OBVIOUS
      <4>3. Cardinality(Wanted') + 1 <= MaxOpen + lag
        BY <1>4, <2>4, <2>5, <4>1, <4>2
      <4>4. QED
        BY <2>6, <3>1, <4>3 DEF Room
    <3>2. CASE dpc # "execute"
      <4>1. Cardinality(Wanted') <= MaxOpen + lag
        BY <1>4, <1>5, <1>7, <2>4, <2>5
      <4>2. Cardinality(Wanted') + 0 <= MaxOpen + lag
        BY <2>5, <4>1
      <4>3. QED
        BY <2>6, <3>2, <4>2 DEF Room
    <3>3. QED
      BY <3>1, <3>2
  <2>8. QED
    BY <2>2, <2>4, <2>7
<1>9. CASE ~(BridgeStep /\ UNCHANGED decisionVars)
  <2>1. UNCHANGED <<unread, pel, pc, cur, track, persisted, slots>>
    <3>1. CASE Decision
      BY <1>0, <3>1, DecisionFaults DEF loopVars, riskVars
    <3>2. CASE DCrash
      BY <1>2, <3>2 DEF DCrash
    <3>3. CASE UNCHANGED bridgeVars
      BY <3>3 DEF bridgeVars, streamVars, loopVars, riskVars
    <3>4. QED
      BY <1>9, <3>1, <3>2, <3>3 DEF Next, Predict, DRestart, vars
  <2>2. Hands' /\ Tracked'
    BY <1>3, <2>1 DEF Hands, Tracked
  <2>3. CASE PublishExecute
    <3>1. dpc = "execute" /\ lag' = lag /\ DGoto("ack")
      BY <1>2, <2>3 DEF PublishExecute, DRaise
    <3>2. dcur \in Ids /\ preds[dcur] \in Tickers
      BY <1>0, <2>3, DecisionFacts, PublishFacts DEF NoSig, Ids
    <3>3. Wanted' \subseteq Wanted \cup {preds[dcur]}
      BY <1>2, <2>1, <2>3, <3>2, WantedByDecision DEF PublishExecute, DRaise
    <3>4. /\ IsFiniteSet(Wanted \cup {preds[dcur]})
          /\ Cardinality(Wanted \cup {preds[dcur]}) \in Nat
          /\ Cardinality(Wanted \cup {preds[dcur]}) <= Cardinality(Wanted) + 1
      BY <1>3, <1>4, FS_AddElement, FS_CardinalityType
    <3>5. IsFiniteSet(Wanted') /\ Cardinality(Wanted') <= Cardinality(Wanted \cup {preds[dcur]})
      BY <3>3, <3>4, FS_Subset
    <3>6. Cardinality(Wanted') \in Nat
      BY <3>5, FS_CardinalityType
    <3>7. Cardinality(Wanted') <= MaxOpen + lag
      <4>1. Cardinality(Wanted) + 1 <= MaxOpen + lag
        BY <1>3, <3>1 DEF Room
      <4>2. \A a, b, c \in Nat : a <= b /\ b <= c + 1 => a <= c + 1
        OBVIOUS
      <4>3. Cardinality(Wanted') <= Cardinality(Wanted) + 1
        BY <1>4, <3>4, <3>5, <3>6, <4>2
      <4>4. QED
        BY <1>4, <1>6, <3>6, <4>1, <4>3
    <3>8. Room'
      <4>1. Cardinality(Wanted') + 0 <= MaxOpen + lag
        BY <3>6, <3>7
      <4>2. dpc' # "execute"
        BY <3>1 DEF DGoto
      <4>3. QED
        BY <3>1, <4>1, <4>2 DEF Room
    <3>9. QED
      BY <2>2, <3>5, <3>8
  <2>4. CASE ~PublishExecute
    <3>1. UNCHANGED signals \/ signals' = Append(signals, Reject)
      BY <1>9, <2>4 DEF Next, Decision, DRecoverPel, DRead, DAck, DClaim, Lookup, GateKill,
         GateCooldown, GateCount, PublishReject, DReplay, DCrash, DRestart, Predict,
         bridgeVars, streamVars, vars
    <3>2. Wanted' = Wanted
      BY <2>1, <3>1, WantedByDecision
    <3>3. \/ GateCount /\ dpc' = "execute"
          \/ lag' = lag /\ (dpc' = "execute" => dpc = "execute")
      BY <1>9, <2>4 DEF Next, Decision, DRecoverPel, DRead, DAck, DClaim, Lookup, GateKill,
         GateCooldown, GateCount, PublishReject, DReplay, DCrash, DRestart, Predict,
         DGoto, DRaise, decisionVars, vars
    <3>4. Room'
      <4>1. CASE GateCount /\ dpc' = "execute"
        BY <1>3, <3>2, <4>1, CountedRoom DEF Room
      <4>2. CASE lag' = lag /\ dpc' = "execute" /\ dpc = "execute"
        BY <1>3, <3>2, <4>2 DEF Room
      <4>3. CASE lag' = lag /\ dpc' # "execute"
        <5>1. Cardinality(Wanted) + 0 <= MaxOpen + lag
          BY <1>4, <1>7
        <5>2. QED
          BY <3>2, <4>3, <5>1 DEF Room
      <4>4. QED
        BY <3>3, <4>1, <4>2, <4>3
    <3>5. QED
      BY <1>3, <2>2, <3>2, <3>4
  <2>5. QED
    BY <2>3, <2>4
<1>10. QED
  BY <1>8, <1>9 DEF Next, vars

LEMMA RoomInit == Init => RoomInv
<1> SUFFICES ASSUME Init PROVE RoomInv
  OBVIOUS
<1>1. Wanted = {}
  BY DEF Init, BridgeInit, Wanted, Backlog
<1>2. IsFiniteSet(Wanted) /\ Cardinality(Wanted) = 0
  BY <1>1, FS_EmptySet
<1>3. Room
  <2>1. MaxOpen \in Nat /\ lag = 0 /\ dpc # "execute"
    BY RiskAssumption DEF Init
  <2>2. 0 + 0 <= MaxOpen + 0
    BY <2>1
  <2>3. QED
    BY <1>2, <2>1, <2>2 DEF Room
<1>4. QED
  BY <1>2, <1>3 DEF RoomInv, Init, BridgeInit, Hands, InHands, Tracked

\* The overrun of max_open_positions, while nothing fails and no ticker is signalled
\* twice: the open positions exceed the limit by no more than the signals that were
\* on the way to the bridge when decision counted.
THEOREM OverrunBoundedByLagHolds == Spec => []OverrunBoundedByLag
<1>1. SystemInv /\ RoomInv => OverrunBoundedByLag
  <2> SUFFICES ASSUME SystemInv, RoomInv, faults + crashes = 0,
                      \A s, u \in 1 .. Len(signals) :
                         signals[s] = signals[u] => s = u \/ signals[s] = Reject
               PROVE  Cardinality(persisted) <= MaxOpen + lag
    BY DEF OverrunBoundedByLag
  <2>1. Hands /\ Tracked /\ Room /\ IsFiniteSet(Wanted)
    BY DEF RoomInv
  <2>2. \A s \in persisted : s \in 1 .. unread - 1 /\ s \in 1 .. Len(signals)
    <3>1. unread \in Nat /\ unread <= Len(signals) + 1 /\ Len(signals) \in Nat
      BY BridgeAssumption DEF SystemInv, BridgeInv, BridgeTypeOK, StreamShape
    <3>2. \A s \in persisted : s \in Nat /\ s >= 1 /\ s < unread
      BY BridgeAssumption DEF SystemInv, BridgeInv, StreamShape, Delivered, Ids
    <3>3. QED
      BY <3>1, <3>2
  <2>3. \A s \in persisted : signals[s] # Reject
    BY DEF SystemInv, BridgeInv, BridgeTypeOK, PositionKnows
  <2>4. ASSUME NEW s \in persisted PROVE signals[s] \in Wanted
    <3>1. CASE track[s] \in {"watch", "book", "forget"}
      <4>1. \A u \in 1 .. Len(signals) \ {s} : signals[u] # signals[s]
        BY <2>2, <2>3, <2>4
      <4>2. signals[s] \in slots
        BY <2>2, <2>4, <3>1, <4>1 DEF SystemInv, SlotsInv, SlotsFollowPositions, OwnSlotHeld
      <4>3. QED
        BY <4>2 DEF Wanted
    <3>2. CASE pc = "slot" /\ cur = s
      BY <2>1, <2>2, <2>3, <2>4, <3>2 DEF Hands, InHands, Wanted, Backlog
    <3>3. QED
      BY <2>1, <2>4, <3>1, <3>2 DEF Tracked
  <2>5. [s \in persisted |-> signals[s]] \in Injection(persisted, Wanted)
    BY <2>2, <2>3, <2>4 DEF Injection, IsInjective
  <2>6. Cardinality(persisted) <= Cardinality(Wanted) /\ IsFiniteSet(persisted)
    BY <2>1, <2>5, FS_Injection
  <2>7. /\ Cardinality(persisted) \in Nat /\ Cardinality(Wanted) \in Nat
        /\ MaxOpen \in Nat /\ lag \in Nat
    BY <2>1, <2>6, FS_CardinalityType, RiskAssumption, BridgeAssumption
       DEF SystemInv, DecisionInv, DecisionTypes
  <2>8. Cardinality(Wanted) + 1 <= MaxOpen + lag \/ Cardinality(Wanted) + 0 <= MaxOpen + lag
    BY <2>1 DEF Room
  <2>9. \A w, v, m, l \in Nat : v <= w /\ (w + 1 <= m + l \/ w + 0 <= m + l) => v <= m + l
    OBVIOUS
  <2>10. QED
    BY <2>6, <2>7, <2>8, <2>9
<1>2. Spec => []RoomInv
  BY RoomInit, RoomStep, SystemInvariant, PTL DEF Spec
<1>3. QED
  BY <1>1, <1>2, SystemInvariant, PTL

===============================================================================
