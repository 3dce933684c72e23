----------------------------- MODULE Edges_proofs ------------------------------
(***************************************************************************)
(* Theorems about the parts at the edges of the system, which share no     *)
(* state: the life of a process (Services), the candle cache (CandleCache) *)
(* and the tunnel to Redis (Tunnel); and what comes in: texts at the       *)
(* receiver, signals at the order client, events at the predictor.  Each   *)
(* part has its inductive invariant; the parts are put together at the end.*)
(***************************************************************************)
EXTENDS MCEdges, Numbers_proofs, FiniteSetTheorems, TLAPS

-------------------------------------------------------------------------------
(* The life of a process. *)

ServiceNames == {"enricher", "predictor", "bridge", "decision", "quik_feed", "monitor", "receiver"}

Plans == <<EnricherPlan, PredictorPlan, BridgePlan, DecisionPlan, QuikFeedPlan, MonitorPlan, ReceiverPlan>>

LEMMA ServiceByName ==
    /\ DOMAIN PlanOf = ServiceNames
    /\ PlanOf["enricher"] = EnricherPlan /\ PlanOf["predictor"] = PredictorPlan
    /\ PlanOf["bridge"] = BridgePlan /\ PlanOf["decision"] = DecisionPlan
    /\ PlanOf["quik_feed"] = QuikFeedPlan /\ PlanOf["monitor"] = MonitorPlan
    /\ PlanOf["receiver"] = ReceiverPlan
  BY DEF PlanOf, ServiceNames

LEMMA TasksByName ==
    AllTasks = {"worker 1", "worker 2", "reclaimer", "heartbeat", "consumer", "candles", "tracker",
                "feeder", "ticks", "listen"}
  <1>1. /\ TasksOf(EnricherPlan) = {"worker 1", "worker 2", "reclaimer", "heartbeat"}
        /\ TasksOf(PredictorPlan) = {"consumer", "heartbeat", "candles"}
        /\ TasksOf(BridgePlan) = {"tracker", "consumer", "heartbeat", "candles"}
        /\ TasksOf(DecisionPlan) = {"consumer", "heartbeat"}
        /\ TasksOf(QuikFeedPlan) = {"feeder", "heartbeat"}
        /\ TasksOf(MonitorPlan) = {"ticks", "heartbeat"}
        /\ TasksOf(ReceiverPlan) = {"heartbeat", "listen"}
    BY DEF TasksOf, EnricherPlan, PredictorPlan, BridgePlan, DecisionPlan, QuikFeedPlan, MonitorPlan,
           ReceiverPlan
  <1>2. AllTasks = UNION {TasksOf(PlanOf[s]) : s \in ServiceNames}
    BY ServiceByName DEF AllTasks
  <1>3. AllTasks = TasksOf(EnricherPlan) \cup TasksOf(PredictorPlan) \cup TasksOf(BridgePlan)
                   \cup TasksOf(DecisionPlan) \cup TasksOf(QuikFeedPlan) \cup TasksOf(MonitorPlan)
                   \cup TasksOf(ReceiverPlan)
    <2>1. ASSUME NEW t PROVE t \in AllTasks <=> \E s \in ServiceNames : t \in TasksOf(PlanOf[s])
      BY <1>2
    <2>2. ASSUME NEW t
          PROVE  (\E s \in ServiceNames : t \in TasksOf(PlanOf[s])) <=>
                 \/ t \in TasksOf(EnricherPlan) \/ t \in TasksOf(PredictorPlan) \/ t \in TasksOf(BridgePlan)
                 \/ t \in TasksOf(DecisionPlan) \/ t \in TasksOf(QuikFeedPlan) \/ t \in TasksOf(MonitorPlan)
                 \/ t \in TasksOf(ReceiverPlan)
      BY ServiceByName DEF ServiceNames
    <2>3. QED
      BY <2>1, <2>2
  <1>4. QED
    BY <1>1, <1>3

LEMMA ShortSequences ==
    ASSUME NEW S
    PROVE  /\ \A x, y \in S : <<x, y>> \in Seq(S) /\ Len(<<x, y>>) = 2
           /\ \A x, y, c \in S : <<x, y, c>> \in Seq(S) /\ Len(<<x, y, c>>) = 3
           /\ \A x, y, c, d \in S : <<x, y, c, d>> \in Seq(S) /\ Len(<<x, y, c, d>>) = 4
  OBVIOUS

\* What the seven plans have in common.
LEMMA PlanFacts ==
    ASSUME service \in DOMAIN PlanOf
    PROVE  /\ Plan.before \subseteq AllTasks /\ Plan.main \subseteq AllTasks /\ Plan.beside \subseteq AllTasks
           /\ Plan.main # {} /\ "tracker" \notin Plan.main /\ "redis" \notin AllTasks
           /\ TasksOf(Plan) = Plan.before \cup Plan.main \cup Plan.beside
           /\ Plan.main \cap (Plan.before \cup Plan.beside) = {} /\ Plan.before \cap Plan.beside = {}
           /\ service = "receiver" <=> "listen" \in Plan.main
           /\ service = "receiver" <=> Plan.covered
           /\ Plan.loads \in BOOLEAN /\ Plan.covered \in BOOLEAN
           /\ Plan.early => Plan.covered
           /\ service # "enricher" => \A t, u \in Plan.main : t = u
           /\ Plan.finally \in Seq(FinalSteps) /\ Plan.finally # <<>>
           /\ \A i \in 1 .. Len(Plan.finally) : Plan.finally[i] = "redis" <=> i = Len(Plan.finally)
           /\ \A t \in Plan.before \cup Plan.beside \cup {"listen"} :
                t \in TasksOf(Plan) => \E i \in 1 .. Len(Plan.finally) : Plan.finally[i] = t
  <1> DEFINE Sets(name, p) ==
           /\ p.before \subseteq AllTasks /\ p.main \subseteq AllTasks /\ p.beside \subseteq AllTasks
           /\ p.main # {} /\ "tracker" \notin p.main
           /\ p.main \cap (p.before \cup p.beside) = {} /\ p.before \cap p.beside = {}
           /\ name = "receiver" <=> "listen" \in p.main
           /\ name = "receiver" <=> p.covered
           /\ p.loads \in BOOLEAN /\ p.covered \in BOOLEAN
           /\ p.early => p.covered
           /\ name # "enricher" => \A t, u \in p.main : t = u
         Ends(p) ==
           /\ p.finally \in Seq(FinalSteps) /\ p.finally # <<>>
           /\ \A i \in 1 .. Len(p.finally) : p.finally[i] = "redis" <=> i = Len(p.finally)
           /\ \A t \in p.before \cup p.beside \cup {"listen"} :
                t \in p.before \cup p.main \cup p.beside => \E i \in 1 .. Len(p.finally) : p.finally[i] = t
         Good(name, p) == Sets(name, p) /\ Ends(p)
  <1>1. Good("enricher", EnricherPlan)
    <2>1. /\ EnricherPlan.before = {} /\ EnricherPlan.main = {"worker 1", "worker 2", "reclaimer"}
          /\ EnricherPlan.beside = {"heartbeat"} /\ EnricherPlan.loads = TRUE
          /\ EnricherPlan.covered = FALSE /\ EnricherPlan.early = FALSE
          /\ EnricherPlan.finally = <<"heartbeat", "final heartbeat", "pool", "redis">>
      BY DEF EnricherPlan
    <2>2. Sets("enricher", EnricherPlan)
      BY <2>1, TasksByName
    <2>3. PICK pulse \in FinalSteps :
             pulse # "redis" /\ EnricherPlan.finally = <<"heartbeat", pulse, "pool", "redis">>
      <3>1. "final heartbeat" \in FinalSteps /\ "final heartbeat" # "redis"
        BY DEF FinalSteps
      <3>2. QED
        BY <2>1, <3>1, Zenon
    <2>4. Ends(EnricherPlan)
      <3>1. <<"heartbeat", pulse, "pool", "redis">> \in Seq(FinalSteps)
            /\ Len(<<"heartbeat", pulse, "pool", "redis">>) = 4
        <4>1. "heartbeat" \in FinalSteps /\ "pool" \in FinalSteps /\ "redis" \in FinalSteps
          BY TasksByName DEF FinalSteps
        <4>2. QED
          BY <4>1, ShortSequences
      <3>2. \A i \in 1 .. 4 : i = 1 \/ i = 2 \/ i = 3 \/ i = 4
        OBVIOUS
      <3>3. EnricherPlan.before \cup EnricherPlan.beside = {"heartbeat"}
            /\ "listen" \notin EnricherPlan.before \cup EnricherPlan.main \cup EnricherPlan.beside
        BY <2>1
      <3>4. QED
        BY <2>3, <3>1, <3>2, <3>3
    <2>5. QED
      BY <2>2, <2>4
  <1>2. Good("predictor", PredictorPlan)
    <2>1. /\ PredictorPlan.before = {} /\ PredictorPlan.main = {"consumer"}
          /\ PredictorPlan.beside = {"heartbeat", "candles"} /\ PredictorPlan.loads = TRUE
          /\ PredictorPlan.covered = FALSE /\ PredictorPlan.early = FALSE
          /\ PredictorPlan.finally = <<"heartbeat", "candles", "redis">>
      BY DEF PredictorPlan
    <2>2. Sets("predictor", PredictorPlan)
      BY <2>1, TasksByName
    <2>3. Ends(PredictorPlan)
      <3>1. <<"heartbeat", "candles", "redis">> \in Seq(FinalSteps) /\ Len(<<"heartbeat", "candles", "redis">>) = 3
        <4>1. "heartbeat" \in FinalSteps /\ "candles" \in FinalSteps /\ "redis" \in FinalSteps
          BY TasksByName DEF FinalSteps
        <4>2. QED
          BY <4>1, ShortSequences
      <3>2. \A i \in 1 .. 3 : i = 1 \/ i = 2 \/ i = 3
        OBVIOUS
      <3>3. QED
        BY <2>1, <3>1, <3>2
    <2>4. QED
      BY <2>2, <2>3
  <1>3. Good("bridge", BridgePlan)
    <2>1. /\ BridgePlan.before = {"tracker"} /\ BridgePlan.main = {"consumer"}
          /\ BridgePlan.beside = {"heartbeat", "candles"} /\ BridgePlan.loads = TRUE
          /\ BridgePlan.covered = FALSE /\ BridgePlan.early = FALSE
          /\ BridgePlan.finally = <<"tracker", "heartbeat", "candles", "redis">>
      BY DEF BridgePlan
    <2>2. Sets("bridge", BridgePlan)
      BY <2>1, TasksByName
    <2>3. Ends(BridgePlan)
      <3>1. <<"tracker", "heartbeat", "candles", "redis">> \in Seq(FinalSteps) /\ Len(<<"tracker", "heartbeat", "candles", "redis">>) = 4
        <4>1. "tracker" \in FinalSteps /\ "heartbeat" \in FinalSteps /\ "candles" \in FinalSteps /\ "redis" \in FinalSteps
          BY TasksByName DEF FinalSteps
        <4>2. QED
          BY <4>1, ShortSequences
      <3>2. \A i \in 1 .. 4 : i = 1 \/ i = 2 \/ i = 3 \/ i = 4
        OBVIOUS
      <3>3. QED
        BY <2>1, <3>1, <3>2
    <2>4. QED
      BY <2>2, <2>3
  <1>4. Good("decision", DecisionPlan)
    <2>1. /\ DecisionPlan.before = {} /\ DecisionPlan.main = {"consumer"}
          /\ DecisionPlan.beside = {"heartbeat"} /\ DecisionPlan.loads = FALSE
          /\ DecisionPlan.covered = FALSE /\ DecisionPlan.early = FALSE
          /\ DecisionPlan.finally = <<"heartbeat", "redis">>
      BY DEF DecisionPlan
    <2>2. Sets("decision", DecisionPlan)
      BY <2>1, TasksByName
    <2>3. Ends(DecisionPlan)
      <3>1. <<"heartbeat", "redis">> \in Seq(FinalSteps) /\ Len(<<"heartbeat", "redis">>) = 2
        <4>1. "heartbeat" \in FinalSteps /\ "redis" \in FinalSteps
          BY TasksByName DEF FinalSteps
        <4>2. QED
          BY <4>1, ShortSequences
      <3>2. \A i \in 1 .. 2 : i = 1 \/ i = 2
        OBVIOUS
      <3>3. QED
        BY <2>1, <3>1, <3>2
    <2>4. QED
      BY <2>2, <2>3
  <1>5. Good("quik_feed", QuikFeedPlan)
    <2>1. /\ QuikFeedPlan.before = {} /\ QuikFeedPlan.main = {"feeder"}
          /\ QuikFeedPlan.beside = {"heartbeat"} /\ QuikFeedPlan.loads = TRUE
          /\ QuikFeedPlan.covered = FALSE /\ QuikFeedPlan.early = FALSE
          /\ QuikFeedPlan.finally = <<"heartbeat", "redis">>
      BY DEF QuikFeedPlan, DecisionPlan
    <2>2. Sets("quik_feed", QuikFeedPlan)
      BY <2>1, TasksByName
    <2>3. Ends(QuikFeedPlan)
      <3>1. <<"heartbeat", "redis">> \in Seq(FinalSteps) /\ Len(<<"heartbeat", "redis">>) = 2
        <4>1. "heartbeat" \in FinalSteps /\ "redis" \in FinalSteps
          BY TasksByName DEF FinalSteps
        <4>2. QED
          BY <4>1, ShortSequences
      <3>2. \A i \in 1 .. 2 : i = 1 \/ i = 2
        OBVIOUS
      <3>3. QED
        BY <2>1, <3>1, <3>2
    <2>4. QED
      BY <2>2, <2>3
  <1>6. Good("monitor", MonitorPlan)
    <2>1. /\ MonitorPlan.before = {} /\ MonitorPlan.main = {"ticks"}
          /\ MonitorPlan.beside = {"heartbeat"} /\ MonitorPlan.loads = FALSE
          /\ MonitorPlan.covered = FALSE /\ MonitorPlan.early = FALSE
          /\ MonitorPlan.finally = <<"heartbeat", "redis">>
      BY DEF MonitorPlan, DecisionPlan
    <2>2. Sets("monitor", MonitorPlan)
      BY <2>1, TasksByName
    <2>3. Ends(MonitorPlan)
      <3>1. <<"heartbeat", "redis">> \in Seq(FinalSteps) /\ Len(<<"heartbeat", "redis">>) = 2
        <4>1. "heartbeat" \in FinalSteps /\ "redis" \in FinalSteps
          BY TasksByName DEF FinalSteps
        <4>2. QED
          BY <4>1, ShortSequences
      <3>2. \A i \in 1 .. 2 : i = 1 \/ i = 2
        OBVIOUS
      <3>3. QED
        BY <2>1, <3>1, <3>2
    <2>4. QED
      BY <2>2, <2>3
  <1>7. Good("receiver", ReceiverPlan)
    <2>1. /\ ReceiverPlan.before = {"heartbeat"} /\ ReceiverPlan.main = {"listen"}
          /\ ReceiverPlan.beside = {} /\ ReceiverPlan.loads = TRUE
          /\ ReceiverPlan.covered = TRUE /\ ReceiverPlan.early = TRUE
          /\ ReceiverPlan.finally = <<"listen", "heartbeat", "redis">>
      BY DEF ReceiverPlan
    <2>2. Sets("receiver", ReceiverPlan)
      BY <2>1, TasksByName
    <2>3. Ends(ReceiverPlan)
      <3>1. <<"listen", "heartbeat", "redis">> \in Seq(FinalSteps) /\ Len(<<"listen", "heartbeat", "redis">>) = 3
        <4>1. "listen" \in FinalSteps /\ "heartbeat" \in FinalSteps /\ "redis" \in FinalSteps
          BY TasksByName DEF FinalSteps
        <4>2. QED
          BY <4>1, ShortSequences
      <3>2. \A i \in 1 .. 3 : i = 1 \/ i = 2 \/ i = 3
        OBVIOUS
      <3>3. QED
        BY <2>1, <3>1, <3>2
    <2>4. QED
      BY <2>2, <2>3
  <1>8. "redis" \notin AllTasks
    BY TasksByName
  <1>9. Good(service, Plan)
    <2> HIDE DEF Good
    <2>1. QED
      BY <1>1, <1>2, <1>3, <1>4, <1>5, <1>6, <1>7, ServiceByName DEF ServiceNames, Plan
  <1>10. QED
    BY <1>8, <1>9 DEF TasksOf

-------------------------------------------------------------------------------
(* Every step of a process. *)

LEMMA LifeInitially == ASSUME ServicesInit PROVE LifeInv
  <1>1. ServicesTypeOK
    BY DEF ServicesInit, ServicesTypeOK
  <1>2. ClientFollows
    <2>1. left \in Seq(FinalSteps) /\ Len(left) = 0
      BY DEF ServicesInit
    <2>2. QED
      BY <2>1 DEF ServicesInit, ClientFollows
  <1>3. TasksFollow /\ LivesEndInOrder
    BY DEF ServicesInit, TasksFollow, LivesEndInOrder, NobodyIsAstray, ClientIsClosed, ZeroWasAskedFor
  <1>4. QED
    BY <1>1, <1>2, <1>3 DEF LifeInv

\* What is known before every step.
LEMMA LifeFacts ==
    ASSUME LifeInv, UNCHANGED service
    PROVE  /\ Plan' = Plan /\ service \in DOMAIN PlanOf
           /\ ServicesTypeOK /\ ClientFollows /\ TasksFollow
           /\ NobodyIsAstray /\ ClientIsClosed /\ ZeroWasAskedFor
  BY DEF LifeInv, LivesEndInOrder, ServicesTypeOK, Plan

LEMMA LoadSettingsKeeps == ASSUME LifeInv, LoadSettings PROVE LifeInv'
  <1>1. /\ mainAt = "settings" /\ UNCHANGED <<service, redis, doing, shutdown, left, brokenOff, astray>>
        /\ \/ mainAt' = "connect" /\ exit' = exit
           \/ mainAt' = "ended" /\ exit' \in {"1", "2"}
    BY DEF LoadSettings, Quit
  <1>2. /\ Plan' = Plan /\ ServicesTypeOK /\ ClientFollows /\ TasksFollow
        /\ NobodyIsAstray /\ ClientIsClosed /\ ZeroWasAskedFor
    BY <1>1, LifeFacts
  <1>3. ServicesTypeOK'
    BY <1>1, <1>2 DEF ServicesTypeOK
  <1>4. ClientFollows' /\ TasksFollow'
    BY <1>1, <1>2 DEF ClientFollows, TasksFollow
  <1>5. LivesEndInOrder'
    BY <1>1, <1>2 DEF ClientFollows, LivesEndInOrder, NobodyIsAstray, ClientIsClosed, ZeroWasAskedFor
  <1>6. QED
    BY <1>3, <1>4, <1>5 DEF LifeInv

LEMMA ConnectKeeps == ASSUME LifeInv, Connect PROVE LifeInv'
  <1>1. /\ mainAt = "connect" /\ UNCHANGED <<service, shutdown, astray>>
    BY DEF Connect
  <1>2. /\ Plan' = Plan /\ service \in DOMAIN PlanOf
        /\ ServicesTypeOK /\ ClientFollows /\ TasksFollow
        /\ NobodyIsAstray /\ ClientIsClosed /\ ZeroWasAskedFor
    BY <1>1, LifeFacts
  <1>3. left = <<>>
    BY <1>1, <1>2 DEF ServicesTypeOK
  <1>4. CASE /\ mainAt' = (IF Plan.loads THEN "load" ELSE "run") /\ redis' = "open"
             /\ doing' = Put(IF Plan.loads THEN Plan.before ELSE Plan.main \cup Plan.beside, "waits")
             /\ UNCHANGED <<left, brokenOff, exit>>
    <2>1. /\ doing' \in [AllTasks -> {"none", "waits", "works", "over"}]
          /\ \A t \in AllTasks : doing'[t] = IF t \in (IF Plan.loads THEN Plan.before ELSE Plan.main \cup Plan.beside)
                                             THEN "waits" ELSE "none"
      BY <1>1, <1>2, <1>4 DEF Put, TasksFollow
    <2>2. ServicesTypeOK'
      BY <1>1, <1>2, <1>3, <1>4, <2>1, PlanFacts DEF ServicesTypeOK
    <2>3. ClientFollows'
      BY <1>1, <1>2, <1>3, <1>4, PlanFacts DEF ClientFollows
    <2>4. TasksFollow'
      BY <1>1, <1>2, <1>4, <2>1, PlanFacts DEF TasksFollow
    <2>5. LivesEndInOrder'
      BY <1>1, <1>2, <1>4 DEF ServicesTypeOK, LivesEndInOrder, NobodyIsAstray, ClientIsClosed, ZeroWasAskedFor
    <2>6. QED
      BY <2>2, <2>3, <2>4, <2>5 DEF LifeInv
  <1>5. CASE Plan.covered /\ ToFinally(TRUE) /\ redis' \in {"none", "open"} /\ UNCHANGED <<doing, exit>>
    <2>1. mainAt' = "stop" /\ left' = Plan.finally /\ brokenOff' = TRUE
      BY <1>5 DEF ToFinally
    <2>2. ServicesTypeOK'
      BY <1>1, <1>2, <1>5, <2>1 DEF ServicesTypeOK
    <2>3. ClientFollows'
      <3>1. /\ left' # <<>> /\ left' \in Seq(FinalSteps)
            /\ \A i \in 1 .. Len(left') : left'[i] = "redis" <=> i = Len(left')
        BY <1>2, <2>1, PlanFacts
      <3>2. QED
        BY <1>1, <1>5, <2>1, <3>1 DEF ClientFollows
    <2>4. TasksFollow'
      BY <1>1, <1>2, <1>5, <2>1 DEF TasksFollow
    <2>5. LivesEndInOrder'
      BY <1>1, <1>2, <1>5, <2>1 DEF ServicesTypeOK, LivesEndInOrder, NobodyIsAstray, ClientIsClosed, ZeroWasAskedFor
    <2>6. QED
      BY <2>2, <2>3, <2>4, <2>5 DEF LifeInv
  <1>6. CASE /\ ~Plan.covered
             /\ (Quit("3") /\ redis' = "closed") \/ (Quit("1") /\ redis' = "none")
             /\ UNCHANGED <<doing, left, brokenOff>>
    <2>1. mainAt' = "ended" /\ exit' \in {"1", "3"} /\ redis' \in {"none", "closed"}
      BY <1>6 DEF Quit
    <2>2. ServicesTypeOK'
      BY <1>1, <1>2, <1>3, <1>6, <2>1 DEF ServicesTypeOK
    <2>3. ClientFollows' /\ TasksFollow'
      BY <1>1, <1>2, <1>6, <2>1 DEF ClientFollows, TasksFollow
    <2>4. LivesEndInOrder'
      BY <1>1, <1>2, <1>6, <2>1 DEF LivesEndInOrder, NobodyIsAstray, ClientIsClosed, ZeroWasAskedFor
    <2>5. QED
      BY <2>2, <2>3, <2>4 DEF LifeInv
  <1>7. QED
    BY <1>4, <1>5, <1>6 DEF Connect

LEMMA LoadKeeps == ASSUME LifeInv, Load PROVE LifeInv'
  <1>1. /\ mainAt = "load" /\ UNCHANGED <<service, redis, shutdown, astray>>
    BY DEF Load
  <1>2. /\ Plan' = Plan /\ service \in DOMAIN PlanOf
        /\ ServicesTypeOK /\ ClientFollows /\ TasksFollow
        /\ NobodyIsAstray /\ ClientIsClosed /\ ZeroWasAskedFor
    BY <1>1, LifeFacts
  <1>3. left = <<>> /\ redis = "open" /\ Plan.loads
    BY <1>1, <1>2 DEF ServicesTypeOK, ClientFollows
  <1>4. CASE /\ mainAt' = "run" /\ doing' = Put(Plan.main \cup Plan.beside, "waits")
             /\ UNCHANGED <<left, brokenOff, exit>>
    <2>1. /\ doing' \in [AllTasks -> {"none", "waits", "works", "over"}]
          /\ \A t \in AllTasks : doing'[t] = IF t \in Plan.main \cup Plan.beside THEN "waits" ELSE doing[t]
      BY <1>2, <1>4 DEF Put, ServicesTypeOK
    <2>2. ServicesTypeOK'
      BY <1>1, <1>2, <1>3, <1>4, <2>1, PlanFacts DEF ServicesTypeOK
    <2>3. ClientFollows'
      BY <1>1, <1>2, <1>3, <1>4 DEF ClientFollows
    <2>4. TasksFollow'
      BY <1>1, <1>2, <1>4, <2>1, PlanFacts DEF TasksFollow
    <2>5. LivesEndInOrder'
      BY <1>1, <1>2, <1>4 DEF ServicesTypeOK, LivesEndInOrder, NobodyIsAstray, ClientIsClosed, ZeroWasAskedFor
    <2>6. QED
      BY <2>2, <2>3, <2>4, <2>5 DEF LifeInv
  <1>5. CASE Plan.covered /\ ToFinally(TRUE) /\ UNCHANGED <<doing, exit>>
    <2>1. mainAt' = "stop" /\ left' = Plan.finally /\ brokenOff' = TRUE
      BY <1>5 DEF ToFinally
    <2>2. ServicesTypeOK'
      BY <1>1, <1>2, <1>5, <2>1 DEF ServicesTypeOK
    <2>3. ClientFollows'
      BY <1>1, <1>2, <1>3, <1>5, <2>1, PlanFacts DEF ClientFollows
    <2>4. TasksFollow'
      <3>1. \A t \in AllTasks : doing[t] \in {"waits", "works"} => t \in Plan.before
        BY <1>1, <1>2 DEF TasksFollow
      <3>2. QED
        BY <1>1, <1>2, <1>5, <2>1, <3>1, PlanFacts DEF TasksFollow
    <2>5. LivesEndInOrder'
      BY <1>1, <1>2, <1>5, <2>1 DEF ServicesTypeOK, LivesEndInOrder, NobodyIsAstray, ClientIsClosed, ZeroWasAskedFor
    <2>6. QED
      BY <2>2, <2>3, <2>4, <2>5 DEF LifeInv
  <1>6. CASE ~Plan.covered /\ Quit("1") /\ doing' = Put(Plan.before, "over") /\ UNCHANGED <<left, brokenOff>>
    <2>1. mainAt' = "ended" /\ exit' = "1"
      BY <1>6 DEF Quit
    <2>2. /\ doing' \in [AllTasks -> {"none", "waits", "works", "over"}]
          /\ \A t \in AllTasks : doing'[t] = IF t \in Plan.before THEN "over" ELSE doing[t]
      BY <1>2, <1>6 DEF Put, ServicesTypeOK
    <2>3. ServicesTypeOK'
      BY <1>1, <1>2, <1>3, <1>6, <2>1, <2>2, PlanFacts DEF ServicesTypeOK
    <2>4. ClientFollows' /\ TasksFollow'
      BY <1>1, <1>2, <1>6, <2>1 DEF ClientFollows, TasksFollow
    <2>5. LivesEndInOrder'
      <3>1. ~brokenOff
        BY <1>1, <1>2 DEF ClientFollows
      <3>2. \A t \in Plan.main \cup Plan.beside : t \in AllTasks \ Plan.before
        BY <1>2, PlanFacts
      <3>3. \A t \in Plan.main \cup Plan.beside : doing'[t] = "none"
        BY <1>1, <1>2, <2>2, <3>2 DEF TasksFollow
      <3>4. ClientIsClosed'
        BY <1>2, <1>3, <1>6, <2>1, <3>1, <3>3 DEF ClientIsClosed
      <3>5. QED
        BY <1>1, <1>2, <1>3, <1>6, <2>1, <3>4 DEF LivesEndInOrder, NobodyIsAstray, ZeroWasAskedFor
    <2>6. QED
      BY <2>3, <2>4, <2>5 DEF LifeInv
  <1>7. QED
    BY <1>4, <1>5, <1>6 DEF Load

\* A task that goes on, or ends, by itself.
LEMMA TaskKeeps ==
    ASSUME LifeInv, NEW t \in AllTasks, mainAt \in {"load", "run", "stop"}, doing[t] \in {"waits", "works"},
           NEW next \in {"waits", "works", "over"}, doing' = Put({t}, next),
           next = "over" => shutdown \/ t \notin Plan.main,
           astray' => astray \/ redis = "closed", astray' \in BOOLEAN,
           UNCHANGED <<service, mainAt, redis, shutdown, left, brokenOff, exit>>
    PROVE  LifeInv'
  <1>1. /\ Plan' = Plan /\ service \in DOMAIN PlanOf
        /\ ServicesTypeOK /\ ClientFollows /\ TasksFollow
        /\ NobodyIsAstray /\ ClientIsClosed /\ ZeroWasAskedFor
    BY LifeFacts
  <1>2. /\ doing' \in [AllTasks -> {"none", "waits", "works", "over"}]
        /\ doing'[t] = next /\ \A u \in AllTasks : u # t => doing'[u] = doing[u]
    BY <1>1 DEF Put, ServicesTypeOK
  <1>3. ServicesTypeOK'
    BY <1>1, <1>2 DEF ServicesTypeOK
  <1>4. ClientFollows'
    BY <1>1 DEF ClientFollows
  <1>5. mainAt = "stop" /\ ~brokenOff => shutdown \/ (service = "receiver" /\ doing'["listen"] = "over")
    <2>1. service = "receiver" => "listen" \in AllTasks
      BY <1>1, PlanFacts
    <2>2. QED
      BY <1>1, <1>2, <2>1 DEF TasksFollow
  <1>6. TasksFollow'
    <2>1. mainAt = "run" => \A u \in Plan.main : doing'[u] = "over" => shutdown
      <3>1. Plan.main \subseteq AllTasks
        BY <1>1, PlanFacts
      <3>2. mainAt = "run" => \A u \in Plan.main : doing[u] = "over" => shutdown
        BY <1>1 DEF TasksFollow
      <3>3. QED
        BY <1>2, <3>1, <3>2
    <2>2. mainAt = "load" => \A u \in AllTasks \ Plan.before : doing'[u] = "none"
      BY <1>1, <1>2 DEF TasksFollow
    <2>3. mainAt = "stop" => \A u \in AllTasks : doing'[u] \in {"waits", "works"} =>
             (service = "enricher" /\ brokenOff) \/ \E i \in 1 .. Len(left) : left[i] = u
      BY <1>1, <1>2 DEF TasksFollow
    <2>4. QED
      BY <1>1, <1>5, <2>1, <2>2, <2>3 DEF TasksFollow
  <1>7. astray' => (service = "enricher" /\ brokenOff)
    <2>1. CASE redis = "closed"
      <3>1. mainAt = "stop" /\ left = <<>>
        BY <1>1, <2>1 DEF ClientFollows
      <3>2. \A i \in 1 .. Len(left) : FALSE
        BY <3>1
      <3>3. QED
        BY <1>1, <3>1, <3>2 DEF TasksFollow
    <2>2. QED
      BY <1>1, <2>1 DEF NobodyIsAstray
  <1>8. LivesEndInOrder'
    BY <1>1, <1>7 DEF ServicesTypeOK, LivesEndInOrder, NobodyIsAstray, ClientIsClosed, ZeroWasAskedFor
  <1>9. QED
    BY <1>3, <1>4, <1>6, <1>8 DEF LifeInv

LEMMA WorkKeeps == ASSUME LifeInv, NEW t \in AllTasks, Work(t) PROVE LifeInv'
  <1> DEFINE next == IF doing[t] = "waits" THEN "works"
                     ELSE IF shutdown /\ t \in Looping THEN "over" ELSE "waits"
  <1>1. astray \in BOOLEAN
    BY DEF LifeInv, ServicesTypeOK
  <1>2. /\ next \in {"waits", "works", "over"} /\ doing' = Put({t}, next)
        /\ next = "over" => shutdown
    BY DEF Work
  <1>3. /\ mainAt \in {"load", "run", "stop"} /\ doing[t] \in {"waits", "works"}
        /\ UNCHANGED <<service, mainAt, redis, shutdown, left, brokenOff, exit>>
        /\ astray' = (astray \/ (doing[t] = "works" /\ redis = "closed"))
    BY DEF Work
  <1>4. astray' \in BOOLEAN /\ (astray' => astray \/ redis = "closed")
    BY <1>1, <1>3
  <1>5. HIDE DEF next
  <1>6. QED
    BY <1>2, <1>3, <1>4, TaskKeeps

LEMMA LeaveKeeps == ASSUME LifeInv, NEW t \in AllTasks, Leave(t) PROVE LifeInv'
  <1>1. astray \in BOOLEAN /\ service \in DOMAIN PlanOf
    BY DEF LifeInv, ServicesTypeOK
  <1>2. /\ mainAt \in {"load", "run", "stop"} /\ doing[t] \in {"waits", "works"}
        /\ doing' = Put({t}, "over") /\ (t = "tracker" \/ shutdown)
        /\ UNCHANGED <<service, mainAt, redis, shutdown, left, brokenOff, exit, astray>>
    BY DEF Leave
  <1>3. shutdown \/ t \notin Plan.main
    BY <1>1, <1>2, PlanFacts
  <1>4. QED
    BY <1>1, <1>2, <1>3, TaskKeeps

\* The way into the finally block once the loops run: what is at work then is not one of
\* the tasks run() waits for, or these are the workers next to one that failed.
LEMMA ToFinallyKeeps ==
    ASSUME LifeInv, mainAt = "run", NEW raised \in BOOLEAN, ToFinally(raised),
           UNCHANGED <<service, redis, shutdown, exit, astray>>,
           doing' \in [AllTasks -> {"none", "waits", "works", "over"}],
           \A t \in AllTasks : doing'[t] \in {doing[t], "over"} /\ (doing'[t] = "over" => doing[t] # "none"),
           \A t \in Plan.main : doing'[t] \in {"waits", "works"} =>
              (service = "enricher" /\ raised) \/ service = "receiver",
           raised \/ shutdown \/ (service = "receiver" /\ doing'["listen"] = "over")
    PROVE  LifeInv'
  <1>1. /\ Plan' = Plan /\ service \in DOMAIN PlanOf
        /\ ServicesTypeOK /\ ClientFollows /\ TasksFollow
        /\ NobodyIsAstray /\ ClientIsClosed /\ ZeroWasAskedFor
    BY LifeFacts
  <1>2. mainAt' = "stop" /\ left' = Plan.finally /\ brokenOff' = raised /\ redis = "open"
    BY <1>1 DEF ToFinally, ClientFollows
  <1>3. ServicesTypeOK'
    <2>1. \A t \in AllTasks \ TasksOf(Plan) : doing'[t] = "none"
      BY <1>1 DEF ServicesTypeOK
    <2>2. QED
      BY <1>1, <1>2, <2>1 DEF ServicesTypeOK
  <1>4. ClientFollows'
    BY <1>1, <1>2, PlanFacts DEF ClientFollows
  <1>5. TasksFollow'
    <2>1. ASSUME NEW t \in AllTasks, doing'[t] \in {"waits", "works"}, ~(service = "enricher" /\ raised)
          PROVE  \E i \in 1 .. Len(Plan.finally) : Plan.finally[i] = t
      <3>1. t \in TasksOf(Plan)
        BY <1>1, <2>1 DEF ServicesTypeOK
      <3>2. t \in Plan.main => service = "receiver" /\ t = "listen"
        BY <1>1, <2>1, PlanFacts
      <3>3. t \in Plan.before \cup Plan.beside \cup {"listen"}
        BY <1>1, <3>1, <3>2, PlanFacts
      <3>4. QED
        BY <1>1, <3>1, <3>3, PlanFacts
    <2>2. QED
      BY <1>1, <1>2, <2>1 DEF TasksFollow
  <1>6. LivesEndInOrder'
    <2>1. ~astray
      BY <1>1 DEF NobodyIsAstray, ClientFollows
    <2>2. QED
      BY <1>1, <1>2, <2>1 DEF ServicesTypeOK, LivesEndInOrder, NobodyIsAstray, ClientIsClosed, ZeroWasAskedFor
  <1>7. QED
    BY <1>3, <1>4, <1>5, <1>6 DEF LifeInv

LEMMA TaskFailsKeeps == ASSUME LifeInv, NEW t \in AllTasks, TaskFails(t) PROVE LifeInv'
  <1>1. /\ mainAt = "run" /\ t \in Plan.main /\ doing[t] = "works" /\ doing' = Put({t}, "over")
        /\ ToFinally(t # "listen") /\ UNCHANGED <<service, redis, shutdown, exit, astray>>
    BY DEF TaskFails
  <1>2. /\ service \in DOMAIN PlanOf /\ ServicesTypeOK
    BY <1>1, LifeFacts
  <1>3. /\ doing' \in [AllTasks -> {"none", "waits", "works", "over"}]
        /\ doing'[t] = "over" /\ \A u \in AllTasks : u # t => doing'[u] = doing[u]
    BY <1>1, <1>2 DEF Put, ServicesTypeOK
  <1>4. \A u \in AllTasks : doing'[u] \in {doing[u], "over"} /\ (doing'[u] = "over" => doing[u] # "none")
    BY <1>1, <1>3
  <1>5. ASSUME NEW u \in Plan.main, doing'[u] \in {"waits", "works"}
        PROVE  service = "enricher" /\ t # "listen"
    <2>1. u # t
      BY <1>3, <1>5
    <2>2. service = "enricher"
      BY <1>1, <1>2, <2>1, PlanFacts
    <2>3. "listen" \notin Plan.main
      BY <1>2, <2>2, PlanFacts
    <2>4. QED
      BY <1>1, <2>2, <2>3
  <1>6. t = "listen" => service = "receiver" /\ doing'["listen"] = "over"
    BY <1>1, <1>2, <1>3, PlanFacts
  <1>7. (t # "listen") \in BOOLEAN
    OBVIOUS
  <1>8. QED
    BY <1>1, <1>3, <1>4, <1>5, <1>6, <1>7, ToFinallyKeeps

LEMMA TasksAreOverKeeps == ASSUME LifeInv, TasksAreOver PROVE LifeInv'
  <1>1. /\ mainAt = "run" /\ IF service = "receiver" THEN shutdown ELSE \A t \in Plan.main : doing[t] = "over"
        /\ ToFinally(FALSE) /\ UNCHANGED <<service, redis, doing, shutdown, exit, astray>>
    BY DEF TasksAreOver
  <1>2. service \in DOMAIN PlanOf /\ ServicesTypeOK /\ TasksFollow
    BY <1>1, LifeFacts
  <1>3. \A t \in AllTasks : doing'[t] \in {doing[t], "over"} /\ (doing'[t] = "over" => doing[t] # "none")
    BY <1>1
  <1>4. doing' \in [AllTasks -> {"none", "waits", "works", "over"}]
    BY <1>1, <1>2 DEF ServicesTypeOK
  <1>5. \A t \in Plan.main : doing'[t] \in {"waits", "works"} => service = "receiver"
    BY <1>1
  <1>6. shutdown
    <2>1. CASE service # "receiver"
      <3>1. PICK t \in Plan.main : TRUE
        BY <1>2, PlanFacts
      <3>2. QED
        BY <1>1, <1>2, <2>1, <3>1 DEF TasksFollow
    <2>2. QED
      BY <1>1, <2>1
  <1>7. QED
    BY <1>1, <1>3, <1>4, <1>5, <1>6, ToFinallyKeeps

LEMMA SignalKeeps == ASSUME LifeInv, Signal PROVE LifeInv'
  <1>1. mainAt # "ended" /\ UNCHANGED <<service, redis, left, brokenOff, astray>>
    BY DEF Signal
  <1>2. /\ Plan' = Plan /\ service \in DOMAIN PlanOf
        /\ ServicesTypeOK /\ ClientFollows /\ TasksFollow
        /\ NobodyIsAstray /\ ClientIsClosed /\ ZeroWasAskedFor
    BY <1>1, LifeFacts
  <1>3. CASE shutdown' = TRUE /\ UNCHANGED <<mainAt, exit, doing>>
    <2>1. ServicesTypeOK' /\ ClientFollows' /\ TasksFollow'
      BY <1>1, <1>2, <1>3 DEF ServicesTypeOK, ClientFollows, TasksFollow
    <2>2. LivesEndInOrder'
      BY <1>1, <1>2, <1>3 DEF LivesEndInOrder, NobodyIsAstray, ClientIsClosed, ZeroWasAskedFor
    <2>3. QED
      BY <2>1, <2>2 DEF LifeInv
  <1>4. CASE /\ ~(mainAt \in {"run", "stop"} \/ (Plan.early /\ mainAt # "settings")) /\ Quit("killed")
             /\ doing' = Put({t \in AllTasks : doing[t] # "none"}, "over") /\ UNCHANGED shutdown
    <2>1. mainAt' = "ended" /\ exit' = "killed" /\ left = <<>>
      BY <1>2, <1>4 DEF Quit, ServicesTypeOK
    <2>2. /\ doing' \in [AllTasks -> {"none", "waits", "works", "over"}]
          /\ \A t \in AllTasks : doing[t] = "none" => doing'[t] = "none"
      BY <1>2, <1>4 DEF Put, ServicesTypeOK
    <2>3. ServicesTypeOK'
      BY <1>1, <1>2, <1>4, <2>1, <2>2 DEF ServicesTypeOK
    <2>4. ClientFollows' /\ TasksFollow'
      BY <1>1, <1>2, <2>1 DEF ClientFollows, TasksFollow
    <2>5. LivesEndInOrder'
      BY <1>1, <1>2, <2>1 DEF LivesEndInOrder, NobodyIsAstray, ClientIsClosed, ZeroWasAskedFor
    <2>6. QED
      BY <2>3, <2>4, <2>5 DEF LifeInv
  <1>5. QED
    BY <1>3, <1>4 DEF Signal

LEMMA FinallyKeeps == ASSUME LifeInv, Finally PROVE LifeInv'
  <1> DEFINE next == Head(left)
  <1>1. /\ mainAt = "stop" /\ left # <<>> /\ left' = Tail(left)
        /\ redis' = IF next = "redis" /\ redis = "open" THEN "closed" ELSE redis
        /\ doing' = IF next \in AllTasks /\ doing[next] # "none" THEN Put({next}, "over") ELSE doing
        /\ shutdown' = (shutdown \/ next = "candles")
        /\ UNCHANGED <<service, mainAt, brokenOff, exit, astray>>
    BY DEF Finally
  <1>2. /\ Plan' = Plan /\ service \in DOMAIN PlanOf
        /\ ServicesTypeOK /\ ClientFollows /\ TasksFollow
        /\ NobodyIsAstray /\ ClientIsClosed /\ ZeroWasAskedFor
    BY <1>1, LifeFacts
  <1>3. /\ left \in Seq(FinalSteps) /\ Len(left) \in Nat /\ Len(left) >= 1 /\ next = left[1]
        /\ left' \in Seq(FinalSteps) /\ Len(left') = Len(left) - 1
        /\ \A i \in 1 .. Len(left') : left'[i] = left[i + 1] /\ i + 1 \in 1 .. Len(left)
    BY <1>1, <1>2 DEF ClientFollows
  <1>4. \A i \in 1 .. Len(left) : left[i] = "redis" <=> i = Len(left)
    BY <1>2 DEF ClientFollows
  <1>5. redis \in {"none", "open"} /\ (next = "redis" <=> Len(left) = 1) /\ (left' = <<>> <=> Len(left) = 1)
    <2>1. redis \in {"none", "open"}
      BY <1>1, <1>2 DEF ClientFollows
    <2>2. next = "redis" <=> Len(left) = 1
      BY <1>3, <1>4
    <2>3. left' = <<>> <=> Len(left') = 0
      BY <1>3
    <2>4. QED
      BY <1>3, <2>1, <2>2, <2>3
  <1>6. /\ doing' \in [AllTasks -> {"none", "waits", "works", "over"}]
        /\ \A t \in AllTasks : \/ doing'[t] = doing[t]
                               \/ t = next /\ doing'[t] = "over" /\ doing[t] # "none"
        /\ \A t \in AllTasks : t = next => doing'[t] \notin {"waits", "works"}
    BY <1>1, <1>2 DEF Put, ServicesTypeOK
  <1>7. redis' \in {"none", "open", "closed"} /\ shutdown' \in BOOLEAN
    BY <1>1, <1>2, <1>5 DEF ServicesTypeOK
  <1>8. ServicesTypeOK'
    BY <1>1, <1>2, <1>6, <1>7 DEF ServicesTypeOK
  <1>9. ClientFollows'
    <2>1. redis' \in {"none", IF left' = <<>> THEN "closed" ELSE "open"}
      BY <1>1, <1>5
    <2>2. \A i \in 1 .. Len(left') : left'[i] = "redis" <=> i = Len(left')
      BY <1>3, <1>4
    <2>3. QED
      BY <1>1, <1>3, <2>1, <2>2 DEF ClientFollows
  <1>10. TasksFollow'
    <2>1. ASSUME NEW t \in AllTasks, doing'[t] \in {"waits", "works"}, ~(service = "enricher" /\ brokenOff)
          PROVE  \E i \in 1 .. Len(left') : left'[i] = t
      <3>1. t # next /\ doing[t] \in {"waits", "works"}
        BY <1>6, <2>1
      <3>2. PICK i \in 1 .. Len(left) : left[i] = t
        BY <1>1, <1>2, <2>1, <3>1 DEF TasksFollow
      <3>3. i # 1
        BY <1>3, <3>1, <3>2
      <3>4. i - 1 \in 1 .. Len(left') /\ (i - 1) + 1 = i
        BY <1>3, <3>2, <3>3
      <3>5. left'[i - 1] = t
        BY <1>3, <3>2, <3>4
      <3>6. QED
        BY <3>4, <3>5
    <2>2. brokenOff \/ shutdown' \/ (service = "receiver" /\ doing'["listen"] = "over")
      <3>1. service = "receiver" => "listen" \in AllTasks
        BY <1>2, PlanFacts
      <3>2. QED
        BY <1>1, <1>2, <1>6, <3>1 DEF TasksFollow
    <2>3. QED
      BY <1>1, <1>2, <2>1, <2>2 DEF TasksFollow
  <1>11. LivesEndInOrder'
    BY <1>1, <1>2 DEF ServicesTypeOK, LivesEndInOrder, NobodyIsAstray, ClientIsClosed, ZeroWasAskedFor
  <1>12. QED
    BY <1>8, <1>9, <1>10, <1>11 DEF LifeInv

LEMMA ExitKeeps == ASSUME LifeInv, Exit PROVE LifeInv'
  <1>1. /\ mainAt = "stop" /\ left = <<>> /\ mainAt' = "ended" /\ exit' = (IF brokenOff THEN "1" ELSE "0")
        /\ doing' = Put({t \in AllTasks : doing[t] # "none"}, "over")
        /\ UNCHANGED <<service, redis, shutdown, left, brokenOff, astray>>
    BY DEF Exit, Quit
  <1>2. /\ Plan' = Plan /\ service \in DOMAIN PlanOf
        /\ ServicesTypeOK /\ ClientFollows /\ TasksFollow
        /\ NobodyIsAstray /\ ClientIsClosed /\ ZeroWasAskedFor
    BY <1>1, LifeFacts
  <1>3. /\ doing' \in [AllTasks -> {"none", "waits", "works", "over"}]
        /\ \A t \in AllTasks : (doing[t] = "none" => doing'[t] = "none") /\ (doing[t] = "over" => doing'[t] = "over")
    BY <1>1, <1>2 DEF Put, ServicesTypeOK
  <1>4. ServicesTypeOK'
    BY <1>1, <1>2, <1>3 DEF ServicesTypeOK
  <1>5. ClientFollows' /\ TasksFollow'
    BY <1>1, <1>2 DEF ClientFollows, TasksFollow
  <1>6. redis \in {"none", "closed"}
    BY <1>1, <1>2 DEF ClientFollows
  <1>7. exit' = "0" => shutdown \/ (service = "receiver" /\ doing'["listen"] = "over")
    <2>1. service = "receiver" => "listen" \in AllTasks
      BY <1>2, PlanFacts
    <2>2. QED
      BY <1>1, <1>2, <1>3, <2>1 DEF TasksFollow
  <1>8. LivesEndInOrder'
    BY <1>1, <1>2, <1>6, <1>7 DEF LivesEndInOrder, NobodyIsAstray, ClientIsClosed, ZeroWasAskedFor
  <1>9. QED
    BY <1>4, <1>5, <1>8 DEF LifeInv

LEMMA LifeSteps == LifeInv /\ [ServicesNext]_servicesVars => LifeInv'
  <1> SUFFICES ASSUME LifeInv, [ServicesNext]_servicesVars PROVE LifeInv'
    OBVIOUS
  <1>1. CASE LoadSettings \/ Connect \/ Load
    BY <1>1, LoadSettingsKeeps, ConnectKeeps, LoadKeeps
  <1>2. CASE TasksAreOver \/ Signal \/ Finally \/ Exit
    BY <1>2, TasksAreOverKeeps, SignalKeeps, FinallyKeeps, ExitKeeps
  <1>3. CASE \E t \in AllTasks : Work(t) \/ Leave(t) \/ TaskFails(t)
    BY <1>3, WorkKeeps, LeaveKeeps, TaskFailsKeeps
  <1>4. CASE UNCHANGED servicesVars
    BY <1>4 DEF servicesVars, LifeInv, ServicesTypeOK, ClientFollows, TasksFollow, LivesEndInOrder,
                NobodyIsAstray, ClientIsClosed, ZeroWasAskedFor, Plan
  <1>5. QED
    BY <1>1, <1>2, <1>3, <1>4 DEF ServicesNext

\* run() of the seven services: no task uses the Redis client after it was closed, but the
\* workers next to one that failed; the client is left open only where loading failed
\* outside of the finally block; exit code 0 was asked for, or the receiver lost Telegram.
THEOREM LivesEndInOrderHolds == ServicesSpec => []LivesEndInOrder
  <1>1. LifeInv => LivesEndInOrder
    BY DEF LifeInv
  <1>2. QED
    BY LifeInitially, LifeSteps, <1>1, PTL DEF ServicesSpec

-------------------------------------------------------------------------------
(* The candle cache. *)

LEMMA CacheBounds == Minutes \subseteq Nat /\ MaxBars \in Nat /\ MaxCuts \in Nat /\ CsvFiles \subseteq Seq(Bar)
  BY CacheAssumption DEF Bar

\* Bars of different times.
Apart(bars) == bars \subseteq Bar /\ IsFiniteSet(bars) /\ \A x, y \in bars : x.m = y.m => x = y

\* Frames as they should be.
Frames == {s \in Seq(Bar) : \A i, j \in DOMAIN s : i < j => s[i].m < s[j].m}

LEMMA EarlierGrows ==
    ASSUME NEW bars, Apart(bars), NEW x \in bars
    PROVE  /\ Earlier(bars, x) \in 0 .. Cardinality(bars) - 1
           /\ \A y \in bars : /\ x.m < y.m => Earlier(bars, x) < Earlier(bars, y)
                              /\ Earlier(bars, x) \in Nat /\ Earlier(bars, y) \in Nat
  <1>1. IsFiniteSet(bars) /\ \A y \in bars : y.m \in Nat
    BY CacheBounds DEF Apart, Bar
  <1>2. ASSUME NEW y \in bars
        PROVE  IsFiniteSet({br \in bars : br.m < y.m}) /\ Earlier(bars, y) \in Nat
    <2>1. {br \in bars : br.m < y.m} \subseteq bars
      OBVIOUS
    <2>2. QED
      BY <1>1, <2>1, FS_Subset, FS_CardinalityType DEF Earlier
  <1>3. Earlier(bars, x) \in 0 .. Cardinality(bars) - 1
    <2>1. {br \in bars : br.m < x.m} \subseteq bars \ {x}
      BY <1>1
    <2>2. IsFiniteSet(bars \ {x}) /\ Cardinality(bars \ {x}) = Cardinality(bars) - 1
      BY <1>1, FS_RemoveElement
    <2>3. Earlier(bars, x) <= Cardinality(bars \ {x})
      BY <2>1, <2>2, FS_Subset DEF Earlier
    <2>4. Cardinality(bars) \in Nat
      BY <1>1, FS_CardinalityType
    <2>5. \A e, c, d \in Nat : e <= d /\ d = c - 1 => e \in 0 .. c - 1
      OBVIOUS
    <2>6. Cardinality(bars \ {x}) \in Nat
      BY <2>2, FS_CardinalityType
    <2>7. Earlier(bars, x) \in Nat
      BY <1>2
    <2>8. QED
      BY <2>2, <2>3, <2>4, <2>5, <2>6, <2>7, Zenon
  <1>4. ASSUME NEW y \in bars, x.m < y.m PROVE Earlier(bars, x) < Earlier(bars, y)
    <2> DEFINE S == {br \in bars : br.m < x.m}
               T == {br \in bars : br.m < y.m}
    <2>1. S \subseteq T /\ x \in T /\ x \notin S
      BY <1>1, <1>4
    <2>2. IsFiniteSet(T) /\ Cardinality(S) \in Nat /\ Cardinality(T) \in Nat
      BY <1>2 DEF Earlier
    <2>3. Cardinality(S) = Earlier(bars, x) /\ Cardinality(T) = Earlier(bars, y)
      BY DEF Earlier
    <2> HIDE DEF S, T
    <2>4. Cardinality(S) < Cardinality(T)
      BY <2>1, <2>2, FS_Subset
    <2>5. QED
      BY <2>3, <2>4
  <1>5. QED
    BY <1>2, <1>3, <1>4

\* Sorting loses nothing and puts every bar after those before it.
LEMMA InOrderSorts ==
    ASSUME NEW bars, Apart(bars) PROVE InOrder(bars) \in Frames /\ Range(InOrder(bars)) = bars
  <1> DEFINE n == Cardinality(bars)
             s == InOrder(bars)
             place == [br \in bars |-> Earlier(bars, br) + 1]
  <1>1. IsFiniteSet(bars) /\ n \in Nat /\ \A br \in bars : br.m \in Nat
    BY CacheBounds, FS_CardinalityType DEF Apart, Bar
  <1>2. IsFiniteSet(1 .. n) /\ Cardinality(1 .. n) = n
    <2>1. 1 .. n = 1 .. n /\ 1 \in Int
      OBVIOUS
    <2>2. IsFiniteSet(1 .. n) /\ Cardinality(1 .. n) = IF 1 > n THEN 0 ELSE n - 1 + 1
      BY <1>1, <2>1, FS_Interval
    <2> HIDE DEF n
    <2>3. QED
      BY <1>1, <2>2
  <1>3. \A br \in bars : Earlier(bars, br) \in 0 .. n - 1
    BY EarlierGrows
  <1>4. \A x, y \in bars : Earlier(bars, x) = Earlier(bars, y) => x = y
    <2> SUFFICES ASSUME NEW x \in bars, NEW y \in bars, Earlier(bars, x) = Earlier(bars, y) PROVE x = y
      OBVIOUS
    <2>1. ~(x.m < y.m) /\ ~(y.m < x.m)
      <3>1. /\ x.m < y.m => Earlier(bars, x) < Earlier(bars, y)
            /\ y.m < x.m => Earlier(bars, y) < Earlier(bars, x)
            /\ Earlier(bars, x) \in Nat /\ Earlier(bars, y) \in Nat
        BY EarlierGrows
      <3>2. QED
        BY <3>1
    <2>2. x.m = y.m
      BY <1>1, <2>1
    <2>3. QED
      BY <2>2 DEF Apart
  <1>5. place \in Surjection(bars, 1 .. n)
    <2> HIDE DEF n
    <2>1. place \in [bars -> 1 .. n]
      <3>1. \A e \in 0 .. n - 1 : e + 1 \in 1 .. n
        BY <1>1
      <3>2. QED
        BY <1>3, <3>1
    <2>2. \A x, y \in bars : place[x] = place[y] => x = y
      <3>1. \A e, f \in 0 .. n - 1 : e + 1 = f + 1 => e = f
        BY <1>1
      <3>2. QED
        BY <1>3, <1>4, <3>1
    <2> HIDE DEF place
    <2>3. place \in Injection(bars, 1 .. n)
      BY <2>1, <2>2 DEF Injection, IsInjective
    <2>4. QED
      BY <1>1, <1>2, <2>3, FS_Injection DEF n
  <1>6. \A i \in 1 .. n : \E br \in bars : Earlier(bars, br) = i - 1
    <2> SUFFICES ASSUME NEW i \in 1 .. n PROVE \E br \in bars : Earlier(bars, br) = i - 1
      OBVIOUS
    <2>1. PICK br \in bars : place[br] = i
      BY <1>5 DEF Surjection
    <2>2. Earlier(bars, br) + 1 = i /\ Earlier(bars, br) \in 0 .. n - 1
      BY <1>3, <2>1
    <2>3. QED
      BY <1>1, <2>2
  <1>7. s = [i \in 1 .. n |-> CHOOSE br \in bars : Earlier(bars, br) = i - 1]
    BY DEF InOrder
  <1>8. \A i \in 1 .. n : s[i] \in bars /\ Earlier(bars, s[i]) = i - 1
    BY <1>6, <1>7
  <1>9. DOMAIN s = 1 .. n
    BY <1>7
  <1>10. s \in Seq(Bar)
    <2>1. \A i \in 1 .. n : s[i] \in Bar
      BY <1>8 DEF Apart
    <2>2. s = [i \in 1 .. n |-> s[i]]
      BY <1>7
    <2> HIDE DEF s, n
    <2>3. s \in [1 .. n -> Bar]
      BY <2>1, <2>2
    <2>4. QED
      BY <1>1, <2>3
  <1>11. ASSUME NEW i \in DOMAIN s, NEW j \in DOMAIN s, i < j PROVE s[i].m < s[j].m
    <2>1. i \in 1 .. n /\ j \in 1 .. n
      BY <1>9
    <2>2. s[i] \in bars /\ s[j] \in bars /\ Earlier(bars, s[i]) = i - 1 /\ Earlier(bars, s[j]) = j - 1
      BY <1>8, <2>1
    <2>3. \A x, y \in bars : Earlier(bars, x) < Earlier(bars, y) => x.m < y.m
      <3> SUFFICES ASSUME NEW x \in bars, NEW y \in bars, Earlier(bars, x) < Earlier(bars, y) PROVE x.m < y.m
        OBVIOUS
      <3>1. /\ y.m < x.m => Earlier(bars, y) < Earlier(bars, x)
            /\ Earlier(bars, x) \in Nat /\ Earlier(bars, y) \in Nat
        BY EarlierGrows
      <3>2. x.m # y.m
        <4> SUFFICES ASSUME x.m = y.m PROVE FALSE
          OBVIOUS
        <4>1. x = y
          BY DEF Apart
        <4>2. QED
          BY <3>1, <4>1
      <3>3. QED
        BY <1>1, <3>1, <3>2
    <2>4. i - 1 < j - 1
      BY <1>11, <2>1, <1>1
    <2> HIDE DEF s
    <2>5. QED
      BY <2>2, <2>3, <2>4
  <1>12. Range(s) = bars
    <2>1. ASSUME NEW br \in bars PROVE \E i \in 1 .. n : s[i] = br
      <3>1. Earlier(bars, br) + 1 \in 1 .. n /\ (Earlier(bars, br) + 1) - 1 = Earlier(bars, br)
        <4>1. Earlier(bars, br) \in 0 .. n - 1
          BY <1>3
        <4> HIDE DEF n
        <4>2. \A e \in 0 .. n - 1 : e + 1 \in 1 .. n /\ (e + 1) - 1 = e
          BY <1>1
        <4>3. QED
          BY <4>1, <4>2
      <3>2. s[Earlier(bars, br) + 1] \in bars /\ Earlier(bars, s[Earlier(bars, br) + 1]) = Earlier(bars, br)
        BY <1>8, <3>1
      <3> HIDE DEF s
      <3>3. s[Earlier(bars, br) + 1] = br
        BY <1>4, <3>2
      <3>4. QED
        BY <3>1, <3>3
    <2> HIDE DEF s
    <2>2. QED
      BY <1>8, <1>9, <2>1 DEF Range
  <1>13. QED
    BY <1>10, <1>11, <1>12 DEF Frames

LEMMA HasIs == ASSUME NEW s, NEW m PROVE Has(s, m) <=> \E bar \in Range(s) : bar.m = m
  BY DEF Has, Range

\* A frame starts with the first bar of each time of the file.
LEMMA LoadAllIs ==
    ASSUME NEW file \in Seq(Bar)
    PROVE  LoadAll(file) \in Frames /\ \A m : Has(LoadAll(file), m) <=> Has(file, m)
  <1> DEFINE first == {i \in DOMAIN file : \A j \in 1 .. i - 1 : file[j].m # file[i].m}
             kept == {file[i] : i \in first}
  <1>1. /\ DOMAIN file = 1 .. Len(file) /\ Len(file) \in Nat
        /\ \A i \in DOMAIN file : i \in Nat /\ 1 <= i /\ file[i] \in Bar
    OBVIOUS
  <1>2. first \subseteq 1 .. Len(file) /\ IsFiniteSet(first)
    <2>1. IsFiniteSet(1 .. Len(file))
      BY <1>1, FS_Interval
    <2>2. first \subseteq 1 .. Len(file)
      BY <1>1
    <2> HIDE DEF first
    <2>3. QED
      BY <2>1, <2>2, FS_Subset
  <1>3. IsFiniteSet(kept)
    <2> DEFINE f == [i \in first |-> file[i]]
    <2>1. f \in Surjection(first, kept)
      BY DEF Surjection
    <2> HIDE DEF f, kept, first
    <2>2. QED
      BY <1>2, <2>1, FS_Surjection
  <1>4. Apart(kept)
    <2>1. ASSUME NEW i \in first, NEW j \in first, file[i].m = file[j].m PROVE i = j
      <3>1. i \in Nat /\ j \in Nat /\ 1 <= i /\ 1 <= j
        BY <1>1
      <3>2. ~(i < j) /\ ~(j < i)
        BY <2>1, <3>1
      <3>3. QED
        BY <3>1, <3>2
    <2>2. kept \subseteq Bar
      BY <1>1
    <2>3. \A x, y \in kept : x.m = y.m => x = y
      BY <2>1
    <2>4. QED
      BY <1>3, <2>2, <2>3 DEF Apart
  <1>5. LoadAll(file) = InOrder(kept)
    BY DEF LoadAll
  <1>6. LoadAll(file) \in Frames /\ Range(LoadAll(file)) = kept
    <2> HIDE DEF kept
    <2>1. QED
      BY <1>4, <1>5, InOrderSorts
  <1>7. ASSUME NEW m, Has(file, m) PROVE \E bar \in kept : bar.m = m
    <2> DEFINE S == {i \in DOMAIN file : file[i].m = m}
    <2>1. S \in SUBSET Nat /\ S # {}
      BY <1>1, <1>7 DEF Has
    <2>2. PICK i \in S : \A j \in S : i <= j
      <3> HIDE DEF S
      <3>1. QED
        BY <2>1, LeastNumber
    <2>3. i \in first
      <3>1. i \in DOMAIN file /\ i \in Nat /\ file[i].m = m
        BY <2>1, <2>2
      <3>2. ASSUME NEW j \in 1 .. i - 1, file[j].m = m PROVE FALSE
        <4>1. j \in DOMAIN file /\ j < i /\ j \in Nat
          BY <1>1, <3>1
        <4>2. i <= j
          BY <2>2, <3>2, <4>1
        <4>3. QED
          BY <3>1, <4>1, <4>2
      <3>3. QED
        BY <3>1, <3>2
    <2>4. QED
      BY <2>2, <2>3
  <1>8. \A m : Has(LoadAll(file), m) <=> Has(file, m)
    <2>1. ASSUME NEW bar \in kept PROVE Has(file, bar.m)
      BY DEF Has
    <2>2. ASSUME NEW m PROVE Has(LoadAll(file), m) <=> \E bar \in kept : bar.m = m
      BY <1>6, HasIs
    <2> HIDE DEF kept
    <2>3. QED
      BY <1>7, <2>1, <2>2
  <1>9. QED
    BY <1>6, <1>8

\* A bar that is added is there, once, and the bars of other times are as they were.
LEMMA AddBarIs ==
    ASSUME NEW s \in Frames, NEW bar \in Bar
    PROVE  bar # Unreadable =>
             /\ AddBar(s, bar) \in Frames /\ bar \in Range(AddBar(s, bar))
             /\ \A x : x.m # bar.m => (x \in Range(AddBar(s, bar)) <=> x \in Range(s))
  <1> SUFFICES ASSUME bar # Unreadable
               PROVE  /\ AddBar(s, bar) \in Frames /\ bar \in Range(AddBar(s, bar))
                      /\ \A x : x.m # bar.m => (x \in Range(AddBar(s, bar)) <=> x \in Range(s))
    OBVIOUS
  <1> DEFINE r == AddBar(s, bar)
  <1>1. /\ s \in Seq(Bar) /\ DOMAIN s = 1 .. Len(s) /\ Len(s) \in Nat /\ bar.m \in Nat
        /\ \A i \in 1 .. Len(s) : s[i] \in Bar /\ s[i].m \in Nat
        /\ \A i, j \in 1 .. Len(s) : i < j => s[i].m < s[j].m
    <2>1. s \in Seq(Bar)
      BY DEF Frames
    <2>2. DOMAIN s = 1 .. Len(s) /\ Len(s) \in Nat /\ \A i \in 1 .. Len(s) : s[i] \in Bar
      BY <2>1
    <2>3. \A x \in Bar : x.m \in Nat
      BY CacheBounds DEF Bar
    <2>4. QED
      BY <2>1, <2>2, <2>3 DEF Frames
  <1>2. CASE s = <<>> \/ bar.m > Last(s).m
    <2>1. r = Append(s, bar)
      BY <1>2 DEF AddBar
    <2> HIDE DEF r
    <2>2. /\ r \in Seq(Bar) /\ Len(r) = Len(s) + 1 /\ DOMAIN r = 1 .. Len(s) + 1
          /\ r[Len(s) + 1] = bar /\ \A i \in 1 .. Len(s) : r[i] = s[i]
      BY <1>1, <2>1
    <2>3. \A i \in 1 .. Len(s) + 1 : i = Len(s) + 1 \/ i \in 1 .. Len(s)
      BY <1>1
    <2>4. \A i \in 1 .. Len(s) : s[i].m < bar.m
      <3> SUFFICES ASSUME NEW i \in 1 .. Len(s) PROVE s[i].m < bar.m
        OBVIOUS
      <3>1. Len(s) \in 1 .. Len(s) /\ s # <<>>
        BY <1>1
      <3>2. bar.m > s[Len(s)].m
        BY <1>2, <3>1 DEF Last
      <3>3. i = Len(s) \/ s[i].m < s[Len(s)].m
        <4>1. i = Len(s) \/ i < Len(s)
          <5>1. \A l \in Nat : \A x \in 1 .. l : x = l \/ x < l
            OBVIOUS
          <5>2. QED
            BY <1>1, <5>1, Zenon
        <4>2. QED
          BY <1>1, <3>1, <4>1
      <3>4. s[i].m \in Nat /\ s[Len(s)].m \in Nat
        BY <1>1, <3>1
      <3>5. \A x, y, z \in Nat : z > y /\ (x = y \/ x < y) => x < z
        OBVIOUS
      <3>6. QED
        BY <1>1, <3>2, <3>3, <3>4, <3>5
    <2>5. ASSUME NEW i \in DOMAIN r, NEW j \in DOMAIN r, i < j PROVE r[i].m < r[j].m
      <3>1. i \in 1 .. Len(s) /\ (j = Len(s) + 1 \/ j \in 1 .. Len(s))
        BY <1>1, <2>2, <2>3, <2>5
      <3>2. QED
        BY <1>1, <2>2, <2>4, <2>5, <3>1
    <2>6. r \in Frames
      BY <2>2, <2>5 DEF Frames
    <2>7. Len(s) + 1 \in DOMAIN r /\ 1 .. Len(s) \subseteq DOMAIN r
      BY <1>1, <2>2
    <2>8. bar \in Range(r) /\ \A x : x # bar => (x \in Range(r) <=> x \in Range(s))
      BY <1>1, <2>2, <2>3, <2>7 DEF Range
    <2>9. QED
      BY <2>6, <2>8 DEF r
  <1>3. CASE ~(s = <<>> \/ bar.m > Last(s).m) /\ Has(s, bar.m)
    <2>1. r = [i \in 1 .. Len(s) |-> IF s[i].m = bar.m THEN bar ELSE s[i]]
      BY <1>1, <1>3 DEF AddBar
    <2> HIDE DEF r
    <2>2. /\ DOMAIN r = 1 .. Len(s)
          /\ \A i \in 1 .. Len(s) : r[i] \in Bar /\ r[i].m = s[i].m /\ r[i] = IF s[i].m = bar.m THEN bar ELSE s[i]
      BY <1>1, <2>1
    <2>3. r \in [1 .. Len(s) -> Bar]
      BY <2>1, <2>2
    <2>4. r \in Seq(Bar)
      BY <1>1, <2>3
    <2>5. r \in Frames
      BY <1>1, <2>2, <2>4 DEF Frames
    <2>6. PICK i \in 1 .. Len(s) : s[i].m = bar.m
      BY <1>1, <1>3 DEF Has
    <2>7. bar \in Range(r)
      BY <2>2, <2>6 DEF Range
    <2>8. ASSUME NEW x, x.m # bar.m PROVE x \in Range(r) <=> x \in Range(s)
      BY <1>1, <2>2, <2>8 DEF Range
    <2>9. QED
      BY <2>5, <2>7, <2>8 DEF r
  <1>4. CASE ~(s = <<>> \/ bar.m > Last(s).m) /\ ~Has(s, bar.m)
    <2> DEFINE bars == Range(s) \cup {bar}
    <2>1. r = InOrder(bars)
      BY <1>4 DEF AddBar
    <2> HIDE DEF r
    <2>2. IsFiniteSet(Range(s))
      <3>1. s \in Surjection(1 .. Len(s), Range(s))
        <4>1. s \in [1 .. Len(s) -> Range(s)]
          <5>1. s = [i \in 1 .. Len(s) |-> s[i]]
            BY <1>1
          <5>2. \A i \in 1 .. Len(s) : s[i] \in Range(s)
            BY <1>1 DEF Range
          <5>3. QED
            BY <5>1, <5>2
        <4>2. \A x \in Range(s) : \E i \in 1 .. Len(s) : s[i] = x
          BY <1>1 DEF Range
        <4>3. QED
          BY <4>1, <4>2 DEF Surjection
      <3>2. IsFiniteSet(1 .. Len(s))
        BY <1>1, FS_Interval
      <3>3. QED
        BY <3>1, <3>2, FS_Surjection
    <2>3. IsFiniteSet(bars)
      BY <2>2, FS_AddElement
    <2>4. bars \subseteq Bar
      BY <1>1 DEF Range
    <2>5. \A x, y \in bars : x.m = y.m => x = y
      <3>1. \A x, y \in Range(s) : x.m = y.m => x = y
        <4>1. ASSUME NEW i \in 1 .. Len(s), NEW j \in 1 .. Len(s), s[i].m = s[j].m PROVE i = j
          <5>1. s[i].m \in Nat /\ ~(s[i].m < s[j].m) /\ ~(s[j].m < s[i].m)
            BY <1>1, <4>1
          <5>2. QED
            BY <1>1, <5>1
        <4>2. QED
          BY <1>1, <4>1 DEF Range
      <3>2. \A x \in Range(s) : x.m # bar.m
        BY <1>4, HasIs
      <3>3. QED
        BY <3>1, <3>2
    <2>6. r \in Frames /\ Range(r) = bars
      <3>1. Apart(bars)
        BY <2>3, <2>4, <2>5 DEF Apart
      <3> HIDE DEF bars
      <3>2. QED
        BY <2>1, <3>1, InOrderSorts
    <2>7. bar \in Range(r) /\ \A x : x # bar => (x \in Range(r) <=> x \in Range(s))
      BY <2>6
    <2>8. QED
      BY <2>6, <2>7 DEF r
  <1>5. QED
    BY <1>2, <1>3, <1>4

\* The readable copies of a minute among the entries after one, up to another.
Copies(after, upto, m) == {i \in after + 1 .. upto : tape[i] # Unreadable /\ tape[i].m = m}

\* FrameIsLatest, of any frame and stretch of the stream.
Latest(s, after, upto) ==
    \A m \in Minutes : IF Copies(after, upto, m) = {} THEN Has(s, m) <=> Has(csv, m)
                       ELSE tape[Max(Copies(after, upto, m))] \in Range(s)

LEMMA FrameIsLatestAs == FrameIsLatest <=> Latest(frame, since, cursor)
  <1>1. \A m : {i \in Taken : tape[i].m = m} = Copies(since, cursor, m)
    BY DEF Taken, Copies
  <1>2. \A x : (\E i \in DOMAIN frame : frame[i] = x) <=> x \in Range(frame)
    BY DEF Range
  <1>3. QED
    BY <1>1, <1>2 DEF FrameIsLatest, Latest

\* One entry more.
LEMMA LatestGoesOn ==
    ASSUME tape \in Seq(Bar \cup {Unreadable}), NEW s \in Frames, NEW after \in Nat, NEW i \in Nat,
           after <= i, i + 1 <= Len(tape), Latest(s, after, i)
    PROVE  AddBar(s, tape[i + 1]) \in Frames /\ Latest(AddBar(s, tape[i + 1]), after, i + 1)
  <1> DEFINE new == tape[i + 1]
             r == AddBar(s, new)
             All(m) == Copies(after, i + 1, m)
             Old(m) == Copies(after, i, m)
  <1>1. new \in Bar \cup {Unreadable} /\ Len(tape) \in Nat
    BY DEF Bar
  <1>2. /\ \A j \in after + 1 .. i + 1 : j \in after + 1 .. i \/ j = i + 1
        /\ after + 1 .. i \subseteq after + 1 .. i + 1 /\ i + 1 \in after + 1 .. i + 1
        /\ after + 1 .. i + 1 \subseteq 1 .. i + 1 /\ \A j \in after + 1 .. i : j # i + 1
    OBVIOUS
  <1>3. CASE new = Unreadable
    <2>1. r = s
      BY <1>3 DEF AddBar
    <2>2. \A m : All(m) = Old(m)
      BY <1>2, <1>3 DEF Copies
    <2> HIDE DEF r, All, Old
    <2>3. Latest(r, after, i + 1)
      BY <2>1, <2>2 DEF Latest, All, Old
    <2>4. QED
      BY <2>1, <2>3 DEF r
  <1>4. CASE new # Unreadable
    <2>1. /\ new \in Bar /\ r \in Frames /\ new \in Range(r)
          /\ \A x : x.m # new.m => (x \in Range(r) <=> x \in Range(s))
      BY <1>1, <1>4, AddBarIs
    <2>2. ASSUME NEW m \in Minutes, m = new.m PROVE All(m) # {} /\ tape[Max(All(m))] = new
      <3>1. i + 1 \in All(m) /\ All(m) \in SUBSET (1 .. i + 1)
        BY <1>2, <1>4, <2>2 DEF Copies
      <3> HIDE DEF All
      <3>2. Max(All(m)) \in 1 .. i + 1 /\ i + 1 <= Max(All(m))
        <4>1. i + 1 \in Nat /\ All(m) # {}
          BY <3>1
        <4>2. Max(All(m)) \in All(m) /\ \A y \in All(m) : y <= Max(All(m))
          BY <3>1, <4>1, MaxOf
        <4>3. QED
          BY <3>1, <4>2
      <3>3. Max(All(m)) = i + 1
        <4>1. \A x \in 1 .. i + 1 : i + 1 <= x => x = i + 1
          OBVIOUS
        <4>2. QED
          BY <3>2, <4>1
      <3>4. QED
        BY <3>1, <3>3
    <2>3. ASSUME NEW m \in Minutes, m # new.m PROVE All(m) = Old(m)
      BY <1>2, <2>3 DEF Copies
    <2>4. ASSUME NEW m \in Minutes, m # new.m, Old(m) # {} PROVE tape[Max(Old(m))].m = m
      <3>1. Old(m) \in SUBSET (1 .. i + 1)
        BY <1>2 DEF Copies
      <3>2. Max(Old(m)) \in Old(m)
        <4> HIDE DEF Old
        <4>1. i + 1 \in Nat
          OBVIOUS
        <4>2. QED
          BY <2>4, <3>1, <4>1, MaxOf
      <3>3. QED
        BY <3>2 DEF Copies
    <2>5. ASSUME NEW m \in Minutes
          PROVE  IF All(m) = {} THEN Has(r, m) <=> Has(csv, m) ELSE tape[Max(All(m))] \in Range(r)
      <3> HIDE DEF All, Old, r, new
      <3>1. CASE m = new.m
        BY <2>1, <2>2, <3>1
      <3>2. CASE m # new.m
        <4>1. IF Old(m) = {} THEN Has(s, m) <=> Has(csv, m) ELSE tape[Max(Old(m))] \in Range(s)
          BY DEF Latest, Old
        <4>2. Has(r, m) <=> Has(s, m)
          BY <2>1, <3>2, HasIs
        <4>3. CASE Old(m) = {}
          BY <2>3, <3>2, <4>1, <4>2, <4>3
        <4>4. CASE Old(m) # {}
          <5>1. All(m) = Old(m) /\ tape[Max(Old(m))].m # new.m
            BY <2>3, <2>4, <3>2, <4>4
          <5>2. tape[Max(Old(m))] \in Range(r)
            BY <2>1, <4>1, <4>4, <5>1
          <5>3. QED
            BY <4>4, <5>1, <5>2
        <4>5. QED
          BY <4>3, <4>4
      <3>3. QED
        BY <3>1, <3>2
    <2> HIDE DEF r
    <2>6. Latest(r, after, i + 1)
      BY <2>5 DEF Latest
    <2>7. QED
      BY <2>1, <2>6 DEF r
  <1>5. QED
    BY <1>3, <1>4

\* A reply: the entries are added one after the other.
LEMMA AfterBarsIs ==
    ASSUME tape \in Seq(Bar \cup {Unreadable}), NEW s \in Frames, NEW after \in Nat, NEW from \in Nat,
           NEW last \in Nat, after <= from, from <= last, last <= Len(tape), Latest(s, after, from)
    PROVE  AfterBars(s, from + 1, last) \in Frames /\ Latest(AfterBars(s, from + 1, last), after, last)
  <1> DEFINE P(h) == h = [i \in 0 .. last |-> IF i < from + 1 THEN s ELSE AddBar(h[i - 1], tape[i])]
             next == [p \in Nat \X Frames |->
                        IF p[1] \in from + 1 .. last THEN AddBar(p[2], tape[p[1]]) ELSE s]
  <1>1. AfterBars(s, from + 1, last) = (CHOOSE h : P(h))[last]
    BY DEF AfterBars
  <1>2. \A i \in from + 1 .. last : i \in 1 .. Len(tape) /\ tape[i] \in Bar \cup {Unreadable} /\ i - 1 \in Nat
    <2>1. \A i \in 1 .. Len(tape) : tape[i] \in Bar \cup {Unreadable}
      OBVIOUS
    <2>2. \A i \in from + 1 .. last : i \in 1 .. Len(tape) /\ i - 1 \in Nat
      OBVIOUS
    <2>3. QED
      BY <2>1, <2>2
  <1>3. next \in [Nat \X Frames -> Frames]
    <2>1. \A f \in Frames, bar \in Bar \cup {Unreadable} : AddBar(f, bar) \in Frames
      <3> SUFFICES ASSUME NEW f \in Frames, NEW bar \in Bar \cup {Unreadable} PROVE AddBar(f, bar) \in Frames
        OBVIOUS
      <3>1. CASE bar = Unreadable
        BY <3>1 DEF AddBar
      <3>2. CASE bar # Unreadable
        BY <3>2, AddBarIs
      <3>3. QED
        BY <3>1, <3>2
    <2>2. ASSUME NEW p \in Nat \X Frames
          PROVE  (IF p[1] \in from + 1 .. last THEN AddBar(p[2], tape[p[1]]) ELSE s) \in Frames
      <3>1. p[2] \in Frames
        OBVIOUS
      <3>2. CASE p[1] \in from + 1 .. last
        BY <1>2, <2>1, <3>1, <3>2
      <3>3. QED
        BY <3>2
    <2>3. QED
      BY <2>2
  <1>4. \A i \in 1 .. last, f \in Frames :
          next[<<i, f>>] = IF i < from + 1 THEN s ELSE AddBar(f, tape[i])
    <2>1. \A i \in 1 .. last : i \in Nat /\ (i \in from + 1 .. last <=> ~(i < from + 1))
      OBVIOUS
    <2>2. \A i \in Nat, f \in Frames : next[<<i, f>>] = IF i \in from + 1 .. last THEN AddBar(f, tape[i]) ELSE s
      OBVIOUS
    <2> HIDE DEF next
    <2>3. QED
      BY <2>1, <2>2
  <1> HIDE DEF next
  <1>5. PICK g \in [0 .. last -> Frames] : g[0] = s /\ \A i \in 1 .. last : g[i] = next[<<i, g[i - 1]>>]
    <2>1. Runs(Frames, s, next, last) # {}
      BY <1>3, StepByStep
    <2>2. QED
      BY <2>1 DEF Runs
  <1>6. P(g)
    <2>1. \A i \in 0 .. last : i = 0 \/ (i \in 1 .. last /\ i - 1 \in 0 .. last)
      OBVIOUS
    <2>2. \A i \in 1 .. last : g[i] = IF i < from + 1 THEN s ELSE AddBar(g[i - 1], tape[i])
      <3> SUFFICES ASSUME NEW i \in 1 .. last
                   PROVE  g[i] = IF i < from + 1 THEN s ELSE AddBar(g[i - 1], tape[i])
        OBVIOUS
      <3>1. i - 1 \in 0 .. last
        OBVIOUS
      <3>2. g[i - 1] \in Frames /\ g[i] = next[<<i, g[i - 1]>>]
        BY <1>5, <3>1
      <3>3. QED
        BY <1>4, <3>2
    <2>3. 0 < from + 1
      OBVIOUS
    <2>4. \A i \in 0 .. last : g[i] = IF i < from + 1 THEN s ELSE AddBar(g[i - 1], tape[i])
      BY <1>5, <2>1, <2>2, <2>3
    <2>5. g = [i \in 0 .. last |-> g[i]]
      BY <1>5
    <2>6. QED
      BY <2>4, <2>5
  <1>7. PICK f : P(f) /\ AfterBars(s, from + 1, last) = f[last]
    <2>1. P(CHOOSE h : P(h))
      <3> HIDE DEF P
      <3>1. QED
        BY <1>6
    <2>2. QED
      BY <1>1, <2>1
  <1>8. \A i \in 0 .. last : f[i] = IF i < from + 1 THEN s ELSE AddBar(f[i - 1], tape[i])
    <2>1. f = [i \in 0 .. last |-> IF i < from + 1 THEN s ELSE AddBar(f[i - 1], tape[i])]
      BY <1>7
    <2>2. QED
      BY <2>1
  <1> HIDE DEF P
  <1> DEFINE FineAt(i) == f[i] \in Frames /\ Latest(f[i], after, i)
             Good == {d \in Nat : from + d <= last => FineAt(from + d)}
  <1>9. 0 \in Good
    <2>1. from + 0 = from /\ from \in 0 .. last /\ from < from + 1
      OBVIOUS
    <2>2. f[from] = s
      BY <1>8, <2>1
    <2>3. FineAt(from)
      BY <2>2
    <2> HIDE DEF FineAt
    <2>4. QED
      BY <2>1, <2>3
  <1>10. ASSUME NEW d \in Good PROVE d + 1 \in Good
    <2> HIDE DEF FineAt
    <2> SUFFICES ASSUME from + (d + 1) <= last PROVE FineAt(from + (d + 1))
      OBVIOUS
    <2> DEFINE i == from + d
    <2>1. i \in Nat /\ i + 1 = from + (d + 1) /\ i + 1 \in 0 .. last /\ ~(i + 1 < from + 1) /\ (i + 1) - 1 = i
          /\ after <= i /\ i + 1 <= Len(tape) /\ i <= last
      BY <1>10
    <2>2. FineAt(i)
      BY <1>10, <2>1
    <2> HIDE DEF i, Good
    <2>3. f[i + 1] = AddBar(f[i], tape[i + 1])
      BY <1>8, <2>1
    <2>4. FineAt(i + 1)
      BY <2>1, <2>2, <2>3, LatestGoesOn DEF FineAt
    <2>5. QED
      BY <2>1, <2>4
  <1>11. Good \in SUBSET Nat
    OBVIOUS
  <1>12. last - from \in Good /\ from + (last - from) = last
    <2> HIDE DEF Good
    <2>1. last - from \in Nat /\ from + (last - from) = last
      OBVIOUS
    <2>2. QED
      BY <1>9, <1>10, <1>11, <2>1, AllNumbers
  <1>13. FineAt(last)
    <2> HIDE DEF FineAt
    <2>1. QED
      BY <1>12
  <1>14. QED
    BY <1>7, <1>13

\* Where nothing was read the frame is that of the file.
LEMMA NothingTaken ==
    ASSUME NEW s, NEW after \in Int, NEW upto \in Int, upto <= after
    PROVE  Latest(s, after, upto) <=> \A m \in Minutes : Has(s, m) <=> Has(csv, m)
  <1>1. \A i : i \notin after + 1 .. upto
    OBVIOUS
  <1>2. \A m : Copies(after, upto, m) = {}
    BY <1>1 DEF Copies
  <1>3. QED
    BY <1>2 DEF Latest

LEMMA FreshFrame ==
    ASSUME csv \in CsvFiles PROVE LoadAll(csv) \in Frames /\ Latest(LoadAll(csv), 0, FromNow)
  <1>1. csv \in Seq(Bar)
    BY CacheBounds
  <1>2. LoadAll(csv) \in Frames /\ \A m : Has(LoadAll(csv), m) <=> Has(csv, m)
    BY <1>1, LoadAllIs
  <1>3. QED
    BY <1>2, NothingTaken DEF FromNow

\* The invariant, by what a step can disturb.
StreamOK ==
    /\ tape \in Seq(Bar \cup {Unreadable}) /\ Len(tape) <= MaxBars
    /\ csv \in CsvFiles /\ cuts \in 0 .. MaxCuts

FrameOK == frame \in Frames /\ Latest(frame, since, cursor)

CursorOK ==
    /\ cursor \in -1 .. Len(tape) /\ asked \in -1 .. Len(tape) /\ since \in 0 .. Len(tape)
    /\ asked # NotAsked /\ cursor # FromNow => asked = cursor
    /\ IF cursor = FromNow THEN since = 0 ELSE since <= cursor

LEMMA CacheParts == CacheInv <=> StreamOK /\ FrameOK /\ CursorOK
  <1>1. frame \in Frames <=> frame \in Seq(Bar) /\ FrameSorted
    BY DEF Frames, FrameSorted
  <1>2. QED
    BY <1>1, FrameIsLatestAs, Zenon DEF CacheInv, CacheTypeOK, FrameIsCurrent, StreamOK, FrameOK, CursorOK

LEMMA CachePartsAfter == StreamOK' /\ FrameOK' /\ CursorOK' => CacheInv'
  <1>1. (CacheInv <=> StreamOK /\ FrameOK /\ CursorOK)'
    BY CacheParts, PTL
  <1>2. QED
    BY <1>1

\* While the stream and the file stay, so does what the frame is compared with.
LEMMA SameStream ==
    ASSUME UNCHANGED <<tape, csv>>, frame' \in Frames, Latest(frame', since', cursor') PROVE FrameOK'
  <1>1. Latest(frame, since, cursor)'
    BY DEF Latest, Copies, Has
  <1>2. QED
    BY <1>1 DEF FrameOK

LEMMA CacheStarts == CacheInit => CacheInv
  <1> SUFFICES ASSUME CacheInit PROVE StreamOK /\ FrameOK /\ CursorOK
    BY CacheParts
  <1>1. tape = <<>> /\ Len(tape) = 0 /\ tape \in Seq(Bar \cup {Unreadable})
    BY DEF CacheInit
  <1>2. StreamOK
    BY <1>1, CacheBounds DEF CacheInit, StreamOK
  <1>3. FrameOK
    BY FreshFrame DEF CacheInit, FrameOK
  <1>4. CursorOK
    BY <1>1 DEF CacheInit, CursorOK, FromNow, NotAsked
  <1>5. QED
    BY <1>2, <1>3, <1>4

LEMMA BarPublishedKeeps == ASSUME CacheInv, BarPublished PROVE CacheInv'
  <1>1. StreamOK /\ FrameOK /\ CursorOK /\ UNCHANGED <<csv, frame, cursor, asked, since, cuts>>
    BY CacheParts DEF BarPublished
  <1>2. PICK bar \in Bar \cup {Unreadable} : tape' = Append(tape, bar)
    BY DEF BarPublished
  <1>3. tape \in Seq(Bar \cup {Unreadable}) /\ Len(tape) \in Nat /\ Len(tape) < MaxBars
    BY <1>1 DEF StreamOK, BarPublished
  <1>4. /\ tape' \in Seq(Bar \cup {Unreadable}) /\ Len(tape') = Len(tape) + 1
        /\ \A i \in 1 .. Len(tape) : tape'[i] = tape[i]
    BY <1>2, <1>3
  <1>5. StreamOK'
    <2>1. Len(tape') <= MaxBars
      BY <1>3, <1>4, CacheBounds
    <2>2. QED
      BY <1>1, <1>4, <2>1 DEF StreamOK
  <1>6. CursorOK'
    <2>1. \A n \in Nat : -1 .. n \subseteq -1 .. n + 1 /\ 0 .. n \subseteq 0 .. n + 1
      OBVIOUS
    <2>2. -1 .. Len(tape) \subseteq -1 .. Len(tape') /\ 0 .. Len(tape) \subseteq 0 .. Len(tape')
      BY <1>3, <1>4, <2>1
    <2>3. QED
      BY <1>1, <2>2 DEF CursorOK
  <1>7. FrameOK'
    <2>1. since \in Nat /\ cursor \in -1 .. Len(tape)
      BY <1>1, <1>3 DEF CursorOK
    <2>2. \A i \in since + 1 .. cursor : i \in 1 .. Len(tape)
      BY <1>3, <2>1
    <2>3. ASSUME NEW m PROVE Copies(since, cursor, m)' = Copies(since, cursor, m)
      BY <1>1, <1>4, <2>2 DEF Copies
    <2>4. ASSUME NEW m, Copies(since, cursor, m) # {}
          PROVE  tape'[Max(Copies(since, cursor, m))] = tape[Max(Copies(since, cursor, m))]
      <3>1. Copies(since, cursor, m) \in SUBSET (1 .. Len(tape))
        BY <2>2 DEF Copies
      <3>2. Max(Copies(since, cursor, m)) \in Copies(since, cursor, m)
        BY <1>3, <2>4, <3>1, MaxOf
      <3>3. QED
        BY <1>4, <3>1, <3>2
    <2>5. \A m : /\ (Has(csv, m) <=> Has(csv, m)') /\ (Has(frame, m) <=> Has(frame, m)')
                 /\ Range(frame)' = Range(frame)
      BY <1>1 DEF Has
    <2>6. ASSUME NEW m \in Minutes'
          PROVE  IF Copies(since, cursor, m)' = {} THEN Has(frame, m)' <=> Has(csv, m)'
                 ELSE tape'[Max(Copies(since, cursor, m)')] \in Range(frame)'
      <3>1. IF Copies(since, cursor, m) = {} THEN Has(frame, m) <=> Has(csv, m)
            ELSE tape[Max(Copies(since, cursor, m))] \in Range(frame)
        BY <1>1 DEF FrameOK, Latest
      <3>2. QED
        BY <2>3, <2>4, <2>5, <3>1
    <2>7. Latest(frame, since, cursor)'
      BY <2>6, Zenon DEF Latest
    <2>8. QED
      BY <1>1, <2>7 DEF FrameOK
  <1>8. QED
    BY <1>5, <1>6, <1>7, CachePartsAfter

LEMMA ReplyKeeps == ASSUME CacheInv, Reply PROVE CacheInv'
  <1>1. StreamOK /\ FrameOK /\ CursorOK /\ UNCHANGED <<tape, csv, cuts>>
    BY CacheParts DEF Reply
  <1>2. PICK last \in asked + 1 .. Len(tape) :
          frame' = AfterBars(frame, asked + 1, last) /\ cursor' = last
    BY DEF Reply
  <1>3. since' = (IF cursor = FromNow THEN asked ELSE since) /\ asked' = NotAsked /\ asked # NotAsked
    BY DEF Reply
  <1>4. /\ tape \in Seq(Bar \cup {Unreadable}) /\ Len(tape) \in Nat
        /\ frame \in Frames /\ Latest(frame, since, cursor) /\ cursor \in -1 .. Len(tape)
    BY <1>1 DEF StreamOK, FrameOK, CursorOK
  <1>5. asked \in Nat /\ last \in Nat /\ asked <= last /\ last <= Len(tape) /\ last # FromNow
    BY <1>1, <1>2, <1>3, <1>4 DEF CursorOK, NotAsked, FromNow
  <1>6. since' \in Nat /\ since' <= asked /\ Latest(frame, since', asked)
    <2>1. CASE cursor = FromNow
      <3>1. since = 0
        BY <1>1, <2>1 DEF CursorOK
      <3>2. \A m \in Minutes : Has(frame, m) <=> Has(csv, m)
        BY <1>4, <2>1, <3>1, NothingTaken DEF FromNow
      <3>3. Latest(frame, asked, asked)
        BY <1>5, <3>2, NothingTaken
      <3>4. QED
        BY <1>3, <1>5, <2>1, <3>3
    <2>2. CASE cursor # FromNow
      <3>1. asked = cursor /\ since <= cursor /\ since \in Nat
        BY <1>1, <1>3, <1>4, <2>2 DEF CursorOK
      <3>2. QED
        BY <1>3, <1>4, <2>2, <3>1
    <2>3. QED
      BY <2>1, <2>2
  <1>7. frame' \in Frames /\ Latest(frame', since', cursor')
    BY <1>2, <1>4, <1>5, <1>6, AfterBarsIs
  <1>8. FrameOK'
    BY <1>1, <1>7, SameStream
  <1>9. CursorOK'
    BY <1>1, <1>2, <1>3, <1>4, <1>5, <1>6 DEF CursorOK, NotAsked
  <1>10. StreamOK'
    BY <1>1 DEF StreamOK
  <1>11. QED
    BY <1>8, <1>9, <1>10, CachePartsAfter

LEMMA CacheRestartsKeeps == ASSUME CacheInv, CacheRestarts PROVE CacheInv'
  <1>1. StreamOK /\ UNCHANGED <<tape, csv>> /\ cuts < MaxCuts /\ cuts' = cuts + 1
    BY CacheParts DEF CacheRestarts
  <1>2. frame' = LoadAll(csv) /\ cursor' = FromNow /\ asked' = NotAsked /\ since' = 0
    BY DEF CacheRestarts
  <1>3. StreamOK'
    <2>1. cuts' \in 0 .. MaxCuts
      BY <1>1, CacheBounds DEF StreamOK
    <2>2. QED
      BY <1>1, <2>1 DEF StreamOK
  <1>4. frame' \in Frames /\ Latest(frame', since', cursor')
    BY <1>1, <1>2, FreshFrame DEF StreamOK
  <1>5. CursorOK'
    <2>1. Len(tape') \in Nat
      BY <1>1 DEF StreamOK
    <2>2. QED
      BY <1>2, <2>1 DEF CursorOK, FromNow, NotAsked
  <1>6. QED
    BY <1>1, <1>3, <1>4, <1>5, SameStream, CachePartsAfter

\* The calls that bring nothing.
LEMMA AskingKeeps == ASSUME CacheInv, Xread \/ NoReply \/ ReadFails PROVE CacheInv'
  <1>1. StreamOK /\ FrameOK /\ CursorOK /\ UNCHANGED <<tape, csv, frame, cursor, since>>
    BY CacheParts DEF Xread, NoReply, ReadFails
  <1>2. Len(tape) \in Nat
    BY <1>1 DEF StreamOK
  <1>3. cuts' \in 0 .. MaxCuts
    BY <1>1, CacheBounds DEF Xread, NoReply, ReadFails, StreamOK
  <1>4. \/ asked' = NotAsked
        \/ asked' = IF cursor = FromNow THEN Len(tape) ELSE cursor
    BY DEF Xread, NoReply, ReadFails
  <1>5. CursorOK'
    BY <1>1, <1>2, <1>4 DEF CursorOK, NotAsked, FromNow
  <1>6. StreamOK'
    BY <1>1, <1>3 DEF StreamOK
  <1>7. FrameOK'
    BY <1>1, SameStream DEF FrameOK
  <1>8. QED
    BY <1>5, <1>6, <1>7, CachePartsAfter

LEMMA CacheStill == ASSUME CacheInv, UNCHANGED cacheVars PROVE CacheInv'
  <1>1. StreamOK /\ FrameOK /\ CursorOK /\ UNCHANGED <<tape, csv, frame, cursor, asked, since, cuts>>
    BY CacheParts DEF cacheVars
  <1>2. StreamOK' /\ CursorOK'
    BY <1>1 DEF StreamOK, CursorOK
  <1>3. FrameOK'
    BY <1>1, SameStream DEF FrameOK
  <1>4. QED
    BY <1>2, <1>3, CachePartsAfter

LEMMA CacheSteps == CacheInv /\ [CacheNext]_cacheVars => CacheInv'
  BY BarPublishedKeeps, ReplyKeeps, CacheRestartsKeeps, AskingKeeps, CacheStill, Zenon DEF CacheNext, Subscriber

\* Whatever the order of the bars, their repeats and the errors of the connection, the frame
\* of a ticker is sorted and holds the newest bar read of every minute (CandleCache.add_bar,
\* subscribe_redis_stream).
THEOREM FrameIsCurrentHolds == CacheSpec => []FrameIsCurrent
  <1>1. CacheInv => FrameIsCurrent
    BY DEF CacheInv
  <1>2. QED
    BY <1>1, CacheStarts, CacheSteps, PTL DEF CacheSpec

-------------------------------------------------------------------------------
(* The tunnel to Redis. *)

Process == [pid: Pids, state: {"starting", "up", "stuck", "deaf"}, from: {"loop", "hand", "spared"}]

LEMMA TunnelBounds == MaxManual \in Nat /\ MaxLosses \in Nat /\ MaxDelay \in Nat /\ 1 <= MaxDelay /\ 0 \notin Pids
                      /\ IsFiniteSet(Tasks)
  BY TunnelAssumption

\* Without leaves processes of before in their order: place i was place e[i].
LEMMA WithoutIs ==
    ASSUME NEW pids, tunnels \in Seq(Process)
    PROVE  /\ Without(pids) \in Seq(Process)
           /\ \E e \in [1 .. Len(Without(pids)) -> 1 .. Len(tunnels)] :
                /\ \A i \in 1 .. Len(Without(pids)) : /\ Without(pids)[i] = tunnels[e[i]]
                                                      /\ tunnels[e[i]].pid \notin pids
                /\ \A i, j \in 1 .. Len(Without(pids)) : i < j => e[i] < e[j]
  <1> DEFINE n == Len(tunnels)
             Skip(i) == tunnels[i].pid \in pids
             P(h) == h = [i \in 0 .. n |-> IF i = 0 THEN <<>>
                                           ELSE IF Skip(i) THEN h[i - 1] ELSE Append(h[i - 1], tunnels[i])]
             next == [p \in Nat \X Seq(Process) |->
                        IF p[1] \in 1 .. n THEN IF Skip(p[1]) THEN p[2] ELSE Append(p[2], tunnels[p[1]]) ELSE p[2]]
  <1>1. n \in Nat /\ \A i \in 1 .. n : tunnels[i] \in Process
    OBVIOUS
  <1>2. Without(pids) = (CHOOSE h : P(h))[n]
    BY DEF Without
  <1> HIDE DEF n
  <1>3. next \in [Nat \X Seq(Process) -> Seq(Process)] /\ <<>> \in Seq(Process)
    <2>1. \A s \in Seq(Process), x \in Process : Append(s, x) \in Seq(Process)
      OBVIOUS
    <2>2. QED
      BY <1>1, <2>1
  <1>4. \A i \in 1 .. n, s \in Seq(Process) : next[<<i, s>>] = IF Skip(i) THEN s ELSE Append(s, tunnels[i])
    <2>1. \A i \in 1 .. n : i \in Nat
      BY <1>1
    <2>2. QED
      BY <2>1
  <1> HIDE DEF next
  <1>5. PICK g \in [0 .. n -> Seq(Process)] : g[0] = <<>> /\ \A i \in 1 .. n : g[i] = next[<<i, g[i - 1]>>]
    <2>1. Runs(Seq(Process), <<>>, next, n) # {}
      BY <1>1, <1>3, StepByStep
    <2>2. QED
      BY <2>1 DEF Runs
  <1>6. \A i \in 1 .. n : i - 1 \in 0 .. n
    BY <1>1
  <1>7. \A i \in 1 .. n : g[i] = IF Skip(i) THEN g[i - 1] ELSE Append(g[i - 1], tunnels[i])
    BY <1>4, <1>5, <1>6
  <1>8. P(g)
    <2>1. \A i \in 0 .. n : i = 0 \/ i \in 1 .. n
      BY <1>1
    <2>2. \A i \in 0 .. n : g[i] = IF i = 0 THEN <<>>
                                   ELSE IF Skip(i) THEN g[i - 1] ELSE Append(g[i - 1], tunnels[i])
      BY <1>5, <1>7, <2>1
    <2>3. QED
      BY <1>5, <2>2
  <1>9. \E h : P(h) /\ Without(pids) = h[n]
    <2>1. P(CHOOSE h : P(h))
      <3> HIDE DEF P
      <3>1. QED
        BY <1>8
    <2>2. QED
      BY <1>2, <2>1
  <1>10. PICK f : P(f) /\ Without(pids) = f[n]
    BY <1>9
  <1>11. /\ f[0] = <<>>
         /\ \A i \in 1 .. n : f[i] = IF Skip(i) THEN f[i - 1] ELSE Append(f[i - 1], tunnels[i])
    <2>1. 0 \in 0 .. n /\ \A i \in 1 .. n : i \in 0 .. n /\ i # 0
      BY <1>1
    <2>2. f = [i \in 0 .. n |-> IF i = 0 THEN <<>>
                                ELSE IF Skip(i) THEN f[i - 1] ELSE Append(f[i - 1], tunnels[i])]
      BY <1>10
    <2>3. \A i \in 0 .. n : f[i] = IF i = 0 THEN <<>>
                                   ELSE IF Skip(i) THEN f[i - 1] ELSE Append(f[i - 1], tunnels[i])
      BY <2>2
    <2>4. QED
      BY <2>1, <2>3
  <1> HIDE DEF P
  <1> DEFINE Follows(m) ==
               /\ f[m] \in Seq(Process)
               /\ \E e \in [1 .. Len(f[m]) -> 1 .. m] :
                    /\ \A i \in 1 .. Len(f[m]) : f[m][i] = tunnels[e[i]] /\ ~Skip(e[i])
                    /\ \A i, j \in 1 .. Len(f[m]) : i < j => e[i] < e[j]
             Good == {m \in Nat : m <= n => Follows(m)}
  <1>12. 0 \in Good
    <2>1. f[0] \in Seq(Process) /\ Len(f[0]) = 0
      BY <1>11
    <2>2. [i \in 1 .. 0 |-> 1] \in [1 .. Len(f[0]) -> 1 .. 0] /\ \A i : i \notin 1 .. Len(f[0])
      BY <2>1
    <2>3. QED
      BY <2>1, <2>2
  <1>13. ASSUME NEW m \in Good PROVE m + 1 \in Good
    <2> HIDE DEF Follows
    <2> SUFFICES ASSUME m + 1 <= n PROVE Follows(m + 1)
      OBVIOUS
    <2>1. m \in Nat /\ m + 1 \in 1 .. n /\ Follows(m) /\ (m + 1) - 1 = m
      BY <1>1, <1>13
    <2> USE DEF Follows
    <2> HIDE DEF Good
    <2>2. PICK e \in [1 .. Len(f[m]) -> 1 .. m] :
                    /\ \A i \in 1 .. Len(f[m]) : f[m][i] = tunnels[e[i]] /\ ~Skip(e[i])
                    /\ \A i, j \in 1 .. Len(f[m]) : i < j => e[i] < e[j]
      BY <2>1
    <2>3. f[m + 1] = IF Skip(m + 1) THEN f[m] ELSE Append(f[m], tunnels[m + 1])
      BY <1>11, <2>1
    <2>4. f[m] \in Seq(Process) /\ Len(f[m]) \in Nat
      BY <2>1
    <2>5. CASE Skip(m + 1)
      <3>1. f[m + 1] = f[m] /\ 1 .. m \subseteq 1 .. m + 1
        BY <2>1, <2>3, <2>5
      <3>2. e \in [1 .. Len(f[m + 1]) -> 1 .. m + 1]
        BY <3>1
      <3>3. QED
        BY <2>2, <2>4, <3>1, <3>2
    <2>6. CASE ~Skip(m + 1)
      <3> DEFINE d == [i \in 1 .. Len(f[m]) + 1 |-> IF i = Len(f[m]) + 1 THEN m + 1 ELSE e[i]]
      <3>1. f[m + 1] = Append(f[m], tunnels[m + 1])
        BY <2>3, <2>6
      <3>2. /\ f[m + 1] \in Seq(Process) /\ Len(f[m + 1]) = Len(f[m]) + 1
            /\ f[m + 1][Len(f[m]) + 1] = tunnels[m + 1]
            /\ \A i \in 1 .. Len(f[m]) : f[m + 1][i] = f[m][i]
        BY <1>1, <2>1, <2>4, <3>1
      <3>3. \A i \in 1 .. Len(f[m]) + 1 : i = Len(f[m]) + 1 \/ i \in 1 .. Len(f[m])
        BY <2>4
      <3>4. /\ d[Len(f[m]) + 1] = m + 1 /\ \A i \in 1 .. Len(f[m]) : d[i] = e[i] /\ d[i] \in 1 .. m
        <4>1. /\ Len(f[m]) + 1 \in 1 .. Len(f[m]) + 1
              /\ \A i \in 1 .. Len(f[m]) : i \in 1 .. Len(f[m]) + 1 /\ i # Len(f[m]) + 1
          BY <2>4
        <4>2. \A i \in 1 .. Len(f[m]) + 1 : d[i] = IF i = Len(f[m]) + 1 THEN m + 1 ELSE e[i]
          OBVIOUS
        <4> HIDE DEF d
        <4>3. QED
          BY <2>2, <4>1, <4>2
      <3>5. d \in [1 .. Len(f[m]) + 1 -> 1 .. m + 1]
        BY <2>1, <3>3, <3>4
      <3> HIDE DEF d
      <3>6. ASSUME NEW i \in 1 .. Len(f[m]) + 1 PROVE f[m + 1][i] = tunnels[d[i]] /\ ~Skip(d[i])
        <4>1. CASE i = Len(f[m]) + 1
          BY <2>6, <3>2, <3>4, <4>1
        <4>2. CASE i \in 1 .. Len(f[m])
          BY <2>2, <3>2, <3>4, <4>2
        <4>3. QED
          BY <3>3, <4>1, <4>2
      <3>7. ASSUME NEW i \in 1 .. Len(f[m]) + 1, NEW j \in 1 .. Len(f[m]) + 1, i < j PROVE d[i] < d[j]
        <4>1. i \in 1 .. Len(f[m])
          BY <2>4, <3>7
        <4>2. CASE j = Len(f[m]) + 1
          BY <2>1, <3>4, <4>1, <4>2
        <4>3. CASE j \in 1 .. Len(f[m])
          BY <2>2, <3>4, <3>7, <4>1, <4>3
        <4>4. QED
          BY <3>3, <4>2, <4>3
      <3>8. d \in [1 .. Len(f[m + 1]) -> 1 .. m + 1]
        BY <3>2, <3>5
      <3>9. QED
        BY <3>2, <3>6, <3>7, <3>8
    <2>7. QED
      BY <2>5, <2>6
  <1>14. Good \in SUBSET Nat
    OBVIOUS
  <1>15. n \in Good
    <2> HIDE DEF Good
    <2>1. QED
      BY <1>1, <1>12, <1>13, <1>14, AllNumbers
  <1>16. Follows(n)
    <2> HIDE DEF Follows
    <2>1. QED
      BY <1>1, <1>15
  <1>17. QED
    BY <1>10, <1>16 DEF n

\* Places of the watchdog, tasks and their connections.
Watch == [at: {"gone", "sleep", "tcp", "ping", "act", "start"}, seen: SUBSET Pids, tcp: BOOLEAN, ping: BOOLEAN]

Clients == [at: {"ready", "call", "pause"}, via: Pids \cup {Closed}, delay: 1 .. MaxDelay]

\* The invariant, by what a step can disturb: the processes with the watchdog, and the
\* tasks with the pool.
ProcessesOK ==
    /\ tunnels \in Seq(Process) /\ watchdog \in Watch
    /\ \A i, j \in DOMAIN tunnels : tunnels[i].pid = tunnels[j].pid => i = j
    /\ \A i, j \in LoopTunnels : i = j
    /\ watchdog.at \in {"tcp", "ping", "act"} => \A i \in LoopTunnels : tunnels[i].pid \in watchdog.seen
    /\ watchdog.at = "start" => LoopTunnels = {}

PoolOK ==
    /\ task \in [Tasks -> Clients] /\ free \in Seq(Pids)
    /\ \A t \in Connected : task[t].at = "call"
    /\ Len(free) + Cardinality(Connected) <= Cardinality(Tasks)

CountsOK == network \in BOOLEAN /\ manual \in 0 .. MaxManual /\ losses \in 0 .. MaxLosses

LEMMA TunnelParts == TunnelInv <=> ProcessesOK /\ PoolOK /\ CountsOK
  <1>1. IsInjective([i \in DOMAIN tunnels |-> tunnels[i].pid]) <=>
          \A i, j \in DOMAIN tunnels : tunnels[i].pid = tunnels[j].pid => i = j
    BY DEF IsInjective
  <1>2. PoolOK => Len(free) <= Cardinality(Tasks)
    <2> SUFFICES ASSUME PoolOK PROVE Len(free) <= Cardinality(Tasks)
      OBVIOUS
    <2>1. Cardinality(Connected) \in Nat /\ Cardinality(Tasks) \in Nat
      BY TunnelBounds, FS_Subset, FS_CardinalityType DEF Connected
    <2>2. Len(free) \in Nat
      BY DEF PoolOK
    <2>3. \A n, m, p \in Nat : n + m <= p => n <= p
      OBVIOUS
    <2>4. QED
      BY <2>1, <2>2, <2>3 DEF PoolOK
  <1>3. QED
    BY <1>1, <1>2, Zenon
       DEF TunnelInv, TunnelTypeOK, ProcessesOK, PoolOK, CountsOK, Process, Watch, Clients

LEMMA TunnelPartsAfter == ProcessesOK' /\ PoolOK' /\ CountsOK' => TunnelInv'
  <1>1. (TunnelInv <=> ProcessesOK /\ PoolOK /\ CountsOK)'
    BY TunnelParts, PTL
  <1>2. QED
    BY <1>1

LEMMA TunnelStarts == TunnelInit => TunnelInv
  <1> SUFFICES ASSUME TunnelInit PROVE ProcessesOK /\ PoolOK /\ CountsOK
    BY TunnelParts
  <1>1. \A S : <<>> \in Seq(S) /\ Len(<<>>) = 0 /\ DOMAIN <<>> = {}
    OBVIOUS
  <1>2. Asleep \in Watch /\ Asleep.at = "sleep"
    BY DEF Asleep, Watch
  <1>3. ProcessesOK
    BY <1>1, <1>2 DEF TunnelInit, ProcessesOK, LoopTunnels
  <1>4. PoolOK
    <2>1. task \in [Tasks -> Clients]
      BY TunnelBounds DEF TunnelInit, Clients
    <2>2. Connected = {}
      BY DEF TunnelInit, Connected
    <2>3. Len(free) + Cardinality(Connected) <= Cardinality(Tasks)
      <3>1. Cardinality(Connected) = 0 /\ Len(free) = 0 /\ Cardinality(Tasks) \in Nat
        BY <1>1, <2>2, TunnelBounds, FS_EmptySet, FS_CardinalityType DEF TunnelInit
      <3>2. QED
        BY <3>1
    <2>4. QED
      BY <1>1, <2>1, <2>2, <2>3 DEF TunnelInit, PoolOK
  <1>5. CountsOK
    BY TunnelBounds DEF TunnelInit, CountsOK
  <1>6. QED
    BY <1>3, <1>4, <1>5

LEMMA PoolStays == ASSUME PoolOK, UNCHANGED <<task, free>> PROVE PoolOK'
  BY DEF PoolOK, Connected

LEMMA ProcessesStay == ASSUME ProcessesOK, UNCHANGED <<tunnels, watchdog>> PROVE ProcessesOK'
  BY DEF ProcessesOK, LoopTunnels

\* One failure more, or none.
LEMMA LosesOne == ASSUME CountsOK, Lose \/ UNCHANGED losses PROVE losses' \in 0 .. MaxLosses
  BY TunnelBounds DEF CountsOK, Lose

\* Processes that are left of those before, in their order: some may have another state,
\* and some may be spared now.
Descends(ts) ==
    /\ ts \in Seq(Process)
    /\ \E e \in [1 .. Len(ts) -> 1 .. Len(tunnels)] :
         /\ \A i \in 1 .. Len(ts) : /\ ts[i].pid = tunnels[e[i]].pid
                                    /\ ts[i].from \in {tunnels[e[i]].from, "spared"}
         /\ \A i, j \in 1 .. Len(ts) : i < j => e[i] < e[j]

LEMMA Descendants ==
    ASSUME ProcessesOK, Descends(tunnels')
    PROVE  /\ \A i, j \in DOMAIN tunnels' : tunnels'[i].pid = tunnels'[j].pid => i = j
           /\ \A i, j \in LoopTunnels' : i = j
           /\ \A i \in LoopTunnels' : \E h \in LoopTunnels : tunnels'[i].pid = tunnels[h].pid
  <1>1. PICK e \in [1 .. Len(tunnels') -> 1 .. Len(tunnels)] :
         /\ \A i \in 1 .. Len(tunnels') : /\ tunnels'[i].pid = tunnels[e[i]].pid
                                          /\ tunnels'[i].from \in {tunnels[e[i]].from, "spared"}
         /\ \A i, j \in 1 .. Len(tunnels') : i < j => e[i] < e[j]
    BY DEF Descends
  <1>2. DOMAIN tunnels' = 1 .. Len(tunnels') /\ DOMAIN tunnels = 1 .. Len(tunnels) /\ Len(tunnels) \in Nat
    BY DEF Descends, ProcessesOK
  <1>3. \A i, j \in 1 .. Len(tunnels') : e[i] = e[j] => i = j
    <2> SUFFICES ASSUME NEW i \in 1 .. Len(tunnels'), NEW j \in 1 .. Len(tunnels'), e[i] = e[j], i # j PROVE FALSE
      OBVIOUS
    <2>1. i < j \/ j < i
      OBVIOUS
    <2>2. e[i] \in Nat /\ e[j] \in Nat
      BY <1>2
    <2>3. QED
      BY <1>1, <2>1, <2>2
  <1>4. \A i, j \in DOMAIN tunnels' : tunnels'[i].pid = tunnels'[j].pid => i = j
    BY <1>1, <1>2, <1>3 DEF ProcessesOK
  <1>5. \A i \in LoopTunnels' : e[i] \in LoopTunnels /\ i \in 1 .. Len(tunnels')
    BY <1>1, <1>2 DEF LoopTunnels
  <1>6. QED
    BY <1>1, <1>3, <1>4, <1>5 DEF ProcessesOK

LEMMA DescendantsKeep == ASSUME ProcessesOK, Descends(tunnels'), UNCHANGED watchdog PROVE ProcessesOK'
  <1>1. /\ \A i, j \in DOMAIN tunnels' : tunnels'[i].pid = tunnels'[j].pid => i = j
        /\ \A i, j \in LoopTunnels' : i = j
        /\ \A i \in LoopTunnels' : \E h \in LoopTunnels : tunnels'[i].pid = tunnels[h].pid
    BY Descendants
  <1>2. tunnels' \in Seq(Process)
    BY DEF Descends
  <1>3. QED
    BY <1>1, <1>2 DEF ProcessesOK

\* Processes that stay, with another state.
LEMMA SameDescend ==
    ASSUME tunnels \in Seq(Process), NEW ts, ts \in [1 .. Len(tunnels) -> Process],
           \A i \in 1 .. Len(tunnels) : ts[i].pid = tunnels[i].pid /\ ts[i].from = tunnels[i].from
    PROVE  Descends(ts)
  <1>1. ts \in Seq(Process) /\ Len(ts) = Len(tunnels)
    <2>1. Len(tunnels) \in Nat
      OBVIOUS
    <2>2. QED
      BY <2>1
  <1> DEFINE e == [i \in 1 .. Len(tunnels) |-> i]
  <1>2. e \in [1 .. Len(ts) -> 1 .. Len(tunnels)] /\ \A i \in 1 .. Len(ts) : e[i] = i
    BY <1>1
  <1> HIDE DEF e
  <1>3. \A i \in 1 .. Len(ts) : /\ ts[i].pid = tunnels[e[i]].pid
                                /\ ts[i].from \in {tunnels[e[i]].from, "spared"}
    BY <1>1, <1>2
  <1>4. \A i, j \in 1 .. Len(ts) : i < j => e[i] < e[j]
    BY <1>1, <1>2
  <1>5. e \in [1 .. Len(ts) -> 1 .. Len(tunnels)]
    BY <1>2
  <1>6. QED
    BY <1>1, <1>3, <1>4, <1>5 DEF Descends

LEMMA WithoutDescends == ASSUME tunnels \in Seq(Process), NEW pids PROVE Descends(Without(pids))
  <1>1. Without(pids) \in Seq(Process)
    BY WithoutIs
  <1>2. PICK e \in [1 .. Len(Without(pids)) -> 1 .. Len(tunnels)] :
                /\ \A i \in 1 .. Len(Without(pids)) : /\ Without(pids)[i] = tunnels[e[i]]
                                                      /\ tunnels[e[i]].pid \notin pids
                /\ \A i, j \in 1 .. Len(Without(pids)) : i < j => e[i] < e[j]
    BY WithoutIs
  <1>3. QED
    BY <1>1, <1>2 DEF Descends

LEMMA NewState ==
    ASSUME tunnels \in Seq(Process), NEW i \in DOMAIN tunnels, NEW st \in {"starting", "up", "stuck", "deaf"}
    PROVE  Descends([tunnels EXCEPT ![i].state = st])
  <1> DEFINE ts == [tunnels EXCEPT ![i].state = st]
  <1>1. \A j \in 1 .. Len(tunnels) : tunnels[j] \in Process
    OBVIOUS
  <1>2. DOMAIN tunnels = 1 .. Len(tunnels) /\ tunnels = [j \in 1 .. Len(tunnels) |-> tunnels[j]]
    OBVIOUS
  <1>3. ASSUME NEW j \in 1 .. Len(tunnels)
        PROVE  ts[j] \in Process /\ ts[j].pid = tunnels[j].pid /\ ts[j].from = tunnels[j].from
    <2>1. ts[j] = IF j = i THEN [tunnels[j] EXCEPT !.state = st] ELSE tunnels[j]
      BY <1>2
    <2>2. tunnels[j] \in Process
      BY <1>1
    <2> HIDE DEF ts
    <2>3. QED
      BY <2>1, <2>2 DEF Process
  <1>4. ts \in [1 .. Len(tunnels) -> Process]
    <2>1. ts = [j \in 1 .. Len(tunnels) |-> ts[j]]
      BY <1>2
    <2> HIDE DEF ts
    <2>2. QED
      BY <1>3, <2>1
  <1> HIDE DEF ts
  <1>5. Descends(ts)
    BY <1>3, <1>4, SameDescend
  <1>6. QED
    BY <1>5 DEF ts

LEMMA EstablishKeeps == ASSUME TunnelInv, NEW i \in DOMAIN tunnels, Establish(i) PROVE TunnelInv'
  <1>1. ProcessesOK /\ PoolOK /\ CountsOK /\ tunnels \in Seq(Process)
    BY TunnelParts DEF ProcessesOK
  <1>2. Descends(tunnels')
    BY <1>1, NewState, WithoutDescends DEF Establish
  <1>3. UNCHANGED <<network, watchdog, task, free, manual, losses>>
    BY DEF Establish
  <1>4. CountsOK'
    BY <1>1, <1>3 DEF CountsOK
  <1>5. QED
    BY <1>1, <1>2, <1>3, <1>4, DescendantsKeep, PoolStays, TunnelPartsAfter

LEMMA ConnectionBreaksKeeps == ASSUME TunnelInv, NEW i \in DOMAIN tunnels, ConnectionBreaks(i) PROVE TunnelInv'
  <1>1. ProcessesOK /\ PoolOK /\ CountsOK /\ tunnels \in Seq(Process)
    BY TunnelParts DEF ProcessesOK
  <1>2. Descends(tunnels')
    BY <1>1, NewState, WithoutDescends DEF ConnectionBreaks
  <1>3. UNCHANGED <<network, watchdog, task, free, manual>> /\ Lose
    BY DEF ConnectionBreaks
  <1>4. CountsOK'
    BY <1>1, <1>3, LosesOne DEF CountsOK
  <1>5. QED
    BY <1>1, <1>2, <1>3, <1>4, DescendantsKeep, PoolStays, TunnelPartsAfter

LEMMA NetworkKeeps == ASSUME TunnelInv, NetworkDown \/ NetworkUp PROVE TunnelInv'
  <1>1. ProcessesOK /\ PoolOK /\ CountsOK /\ tunnels \in Seq(Process)
    BY TunnelParts DEF ProcessesOK
  <1>2. CASE NetworkDown
    <2>1. UNCHANGED <<watchdog, task, free, manual>> /\ Lose /\ network' = FALSE
      BY <1>2 DEF NetworkDown
    <2>2. DOMAIN tunnels = 1 .. Len(tunnels) /\ \A i \in 1 .. Len(tunnels) : tunnels[i] \in Process
      BY <1>1
    <2>3. tunnels' = [i \in 1 .. Len(tunnels) |-> [tunnels[i] EXCEPT !.state = IF @ = "up" THEN "stuck" ELSE @]]
      BY <1>2, <2>2 DEF NetworkDown
    <2>4. ASSUME NEW i \in 1 .. Len(tunnels)
          PROVE  tunnels'[i] \in Process /\ tunnels'[i].pid = tunnels[i].pid /\ tunnels'[i].from = tunnels[i].from
      <3>1. tunnels[i] \in Process /\ tunnels'[i] = [tunnels[i] EXCEPT !.state = IF @ = "up" THEN "stuck" ELSE @]
        BY <2>2, <2>3
      <3>2. QED
        BY <3>1 DEF Process
    <2>5. tunnels' \in [1 .. Len(tunnels) -> Process]
      BY <2>3, <2>4
    <2>6. Descends(tunnels')
      BY <1>1, <2>4, <2>5, SameDescend
    <2>7. CountsOK'
      BY <1>1, <2>1, LosesOne DEF CountsOK
    <2>8. QED
      BY <1>1, <2>1, <2>6, <2>7, DescendantsKeep, PoolStays, TunnelPartsAfter
  <1>3. CASE NetworkUp
    <2>1. network' = TRUE /\ UNCHANGED <<tunnels, watchdog, task, free, manual, losses>>
      BY <1>3 DEF NetworkUp
    <2>2. CountsOK'
      BY <1>1, <2>1 DEF CountsOK
    <2>3. QED
      BY <1>1, <2>1, <2>2, ProcessesStay, PoolStays, TunnelPartsAfter
  <1>4. QED
    BY <1>2, <1>3

\* A process more: its number is new.
LEMMA SpawnIs ==
    ASSUME ProcessesOK, NEW origin \in {"loop", "hand"}, Spawn(origin)
    PROVE  /\ tunnels' \in Seq(Process) /\ Len(tunnels') = Len(tunnels) + 1 /\ Len(tunnels) \in Nat
           /\ \A i, j \in DOMAIN tunnels' : tunnels'[i].pid = tunnels'[j].pid => i = j
           /\ \A i \in 1 .. Len(tunnels) : tunnels'[i] = tunnels[i]
           /\ LoopTunnels' = LoopTunnels \cup (IF origin = "loop" THEN {Len(tunnels) + 1} ELSE {})
  <1> DEFINE p == CHOOSE p \in NewPids : TRUE
             new == [pid |-> p, state |-> "starting", from |-> origin]
  <1>1. tunnels' = Append(tunnels, new) /\ p \in NewPids
    BY DEF Spawn
  <1>2. p \in Pids /\ p \notin Alive
    BY <1>1 DEF NewPids
  <1> HIDE DEF p
  <1>3. new \in Process /\ new.pid = p /\ new.from = origin
    BY <1>2 DEF Process
  <1> HIDE DEF new
  <1>4. tunnels \in Seq(Process) /\ Len(tunnels) \in Nat /\ DOMAIN tunnels = 1 .. Len(tunnels)
    BY DEF ProcessesOK
  <1>5. /\ tunnels' \in Seq(Process) /\ Len(tunnels') = Len(tunnels) + 1
        /\ DOMAIN tunnels' = 1 .. Len(tunnels) + 1 /\ tunnels'[Len(tunnels) + 1] = new
        /\ \A i \in 1 .. Len(tunnels) : tunnels'[i] = tunnels[i]
    BY <1>1, <1>3, <1>4
  <1>6. \A i \in 1 .. Len(tunnels) + 1 : i = Len(tunnels) + 1 \/ i \in 1 .. Len(tunnels)
    BY <1>4
  <1>7. \A i \in 1 .. Len(tunnels) : tunnels[i].pid # p
    BY <1>2, <1>4 DEF Alive
  <1>8. ASSUME NEW i \in DOMAIN tunnels', NEW j \in DOMAIN tunnels', tunnels'[i].pid = tunnels'[j].pid
        PROVE  i = j
    <2>1. (i = Len(tunnels) + 1 \/ i \in 1 .. Len(tunnels)) /\ (j = Len(tunnels) + 1 \/ j \in 1 .. Len(tunnels))
      BY <1>5, <1>6
    <2>2. QED
      BY <1>3, <1>4, <1>5, <1>7, <1>8, <2>1 DEF ProcessesOK
  <1>9. LoopTunnels' = LoopTunnels \cup (IF origin = "loop" THEN {Len(tunnels) + 1} ELSE {})
    <2>1. LoopTunnels' = {i \in 1 .. Len(tunnels) + 1 : tunnels'[i].from = "loop"}
          /\ LoopTunnels = {i \in 1 .. Len(tunnels) : tunnels[i].from = "loop"}
      BY <1>4, <1>5 DEF LoopTunnels
    <2>2. \A i \in 1 .. Len(tunnels) : i \in 1 .. Len(tunnels) + 1 /\ i # Len(tunnels) + 1
      BY <1>4
    <2>3. Len(tunnels) + 1 \in 1 .. Len(tunnels) + 1
      BY <1>4
    <2>4. QED
      BY <1>3, <1>5, <1>6, <2>1, <2>2, <2>3
  <1>10. QED
    BY <1>4, <1>5, <1>8, <1>9

LEMMA ManualStartKeeps == ASSUME TunnelInv, ManualStart PROVE TunnelInv'
  <1>1. ProcessesOK /\ PoolOK /\ CountsOK
    BY TunnelParts
  <1>2. Spawn("hand") /\ UNCHANGED <<network, watchdog, task, free, losses>> /\ manual' = manual + 1 /\ manual < MaxManual
    BY DEF ManualStart
  <1>3. /\ tunnels' \in Seq(Process)
        /\ \A i, j \in DOMAIN tunnels' : tunnels'[i].pid = tunnels'[j].pid => i = j
        /\ \A i \in LoopTunnels : tunnels'[i] = tunnels[i]
        /\ LoopTunnels' = LoopTunnels
    <2>1. DOMAIN tunnels = 1 .. Len(tunnels)
      BY <1>1 DEF ProcessesOK
    <2>2. QED
      BY <1>1, <1>2, <2>1, SpawnIs DEF LoopTunnels
  <1>4. ProcessesOK'
    BY <1>1, <1>2, <1>3 DEF ProcessesOK
  <1>5. CountsOK'
    BY <1>1, <1>2, TunnelBounds DEF CountsOK
  <1>6. QED
    BY <1>1, <1>2, <1>4, <1>5, PoolStays, TunnelPartsAfter

\* The watchdog gone, back, looking or probing.
LEMMA WatchdogKeeps ==
    ASSUME TunnelInv, WatchdogDies \/ WatchdogStarts \/ Look \/ ProbeTcp \/ ProbePing PROVE TunnelInv'
  <1>1. ProcessesOK /\ PoolOK /\ CountsOK
    BY TunnelParts
  <1>2. UNCHANGED <<network, tunnels, task, free, manual>> /\ (Lose \/ UNCHANGED losses)
    BY DEF WatchdogDies, WatchdogStarts, Look, ProbeTcp, ProbePing
  <1>3. LoopTunnels' = LoopTunnels
    BY <1>2 DEF LoopTunnels
  <1>4. /\ Asleep \in Watch /\ Asleep.at = "sleep"
        /\ [Asleep EXCEPT !.at = "gone"] \in Watch /\ [Asleep EXCEPT !.at = "gone"].at = "gone"
    BY DEF Asleep, Watch
  <1>5. CASE WatchdogDies \/ WatchdogStarts
    <2>1. watchdog' \in Watch /\ watchdog'.at \in {"gone", "sleep"}
      BY <1>4, <1>5 DEF WatchdogDies, WatchdogStarts
    <2>2. QED
      BY <1>1, <1>2, <1>3, <2>1, LosesOne, PoolStays, TunnelPartsAfter DEF ProcessesOK, CountsOK
  <1>6. CASE Look
    <2>1. watchdog' = [Asleep EXCEPT !.at = "tcp", !.seen = Alive]
      BY <1>6 DEF Look
    <2>2. Alive \subseteq Pids
      <3>1. \A i \in DOMAIN tunnels : tunnels[i] \in Process
        BY <1>1 DEF ProcessesOK
      <3>2. QED
        BY <3>1 DEF Alive, Process
    <2>3. watchdog' \in Watch /\ watchdog'.at = "tcp" /\ watchdog'.seen = Alive
      BY <2>1, <2>2 DEF Asleep, Watch
    <2>4. \A i \in LoopTunnels : tunnels[i].pid \in Alive
      BY DEF LoopTunnels, Alive
    <2>5. QED
      BY <1>1, <1>2, <1>3, <2>3, <2>4, LosesOne, PoolStays, TunnelPartsAfter DEF ProcessesOK, CountsOK
  <1>7. CASE ProbeTcp \/ ProbePing
    <2>1. watchdog \in Watch /\ PortTaken \in BOOLEAN /\ (Forwards # {}) \in BOOLEAN
      BY <1>1 DEF ProcessesOK, PortTaken
    <2>2. /\ watchdog.at \in {"tcp", "ping"}
          /\ \/ watchdog' = [watchdog EXCEPT !.tcp = PortTaken, !.at = IF PortTaken THEN "ping" ELSE "act"]
             \/ watchdog' = [watchdog EXCEPT !.ping = Forwards # {}, !.at = "act"]
      BY <1>7 DEF ProbeTcp, ProbePing
    <2>3. /\ watchdog' \in Watch /\ watchdog'.seen = watchdog.seen /\ watchdog'.at \in {"ping", "act"}
      <3>1. CASE watchdog' = [watchdog EXCEPT !.tcp = PortTaken, !.at = IF PortTaken THEN "ping" ELSE "act"]
        BY <2>1, <3>1 DEF Watch
      <3>2. CASE watchdog' = [watchdog EXCEPT !.ping = Forwards # {}, !.at = "act"]
        BY <2>1, <3>2 DEF Watch
      <3>3. QED
        BY <2>2, <3>1, <3>2
    <2>4. QED
      BY <1>1, <1>2, <1>3, <2>2, <2>3, LosesOne, PoolStays, TunnelPartsAfter DEF ProcessesOK, CountsOK
  <1>8. QED
    BY <1>5, <1>6, <1>7

\* What the loop leaves: when one of those it saw does not answer, no tunnel of its own.
LEMMA ActKeeps == ASSUME TunnelInv, Act PROVE TunnelInv'
  <1>1. ProcessesOK /\ PoolOK /\ CountsOK /\ tunnels \in Seq(Process) /\ watchdog.at = "act"
    BY TunnelParts DEF ProcessesOK, Act
  <1>2. UNCHANGED <<network, task, free, manual>> /\ (Lose \/ UNCHANGED losses)
    BY DEF Act
  <1>3. PICK spared \in {{}} \cup {{p} : p \in ToKill} :
          tunnels' = [i \in DOMAIN Without(ToKill \ spared) |->
                        IF Without(ToKill \ spared)[i].pid \in spared
                        THEN [Without(ToKill \ spared)[i] EXCEPT !.from = "spared"]
                        ELSE Without(ToKill \ spared)[i]]
    BY Zenon DEF Act
  <1> DEFINE rest == Without(ToKill \ spared)
  <1>4. rest \in Seq(Process) /\ Len(rest) \in Nat /\ DOMAIN rest = 1 .. Len(rest)
        /\ \A i \in 1 .. Len(rest) : rest[i] \in Process
    <2>1. rest \in Seq(Process)
      BY <1>1, WithoutIs
    <2> HIDE DEF rest
    <2>2. QED
      BY <2>1
  <1>5. PICK e \in [1 .. Len(rest) -> 1 .. Len(tunnels)] :
          /\ \A i \in 1 .. Len(rest) : rest[i] = tunnels[e[i]] /\ tunnels[e[i]].pid \notin ToKill \ spared
          /\ \A i, j \in 1 .. Len(rest) : i < j => e[i] < e[j]
    BY <1>1, WithoutIs
  <1>6. tunnels' = [i \in 1 .. Len(rest) |-> IF rest[i].pid \in spared THEN [rest[i] EXCEPT !.from = "spared"] ELSE rest[i]]
    BY <1>3, <1>4
  <1> HIDE DEF rest
  <1>7. ASSUME NEW i \in 1 .. Len(rest)
        PROVE  /\ tunnels'[i] \in Process /\ tunnels'[i].pid = tunnels[e[i]].pid
               /\ tunnels'[i].from = IF tunnels[e[i]].pid \in spared THEN "spared" ELSE tunnels[e[i]].from
    <2>1. tunnels'[i] = IF rest[i].pid \in spared THEN [rest[i] EXCEPT !.from = "spared"] ELSE rest[i]
      BY <1>6
    <2>2. rest[i] \in Process /\ rest[i] = tunnels[e[i]]
      BY <1>4, <1>5
    <2>3. QED
      BY <2>1, <2>2 DEF Process
  <1>8. tunnels' \in Seq(Process) /\ Len(tunnels') = Len(rest)
    <2>1. tunnels' \in [1 .. Len(rest) -> Process]
      BY <1>6, <1>7
    <2>2. QED
      BY <1>4, <2>1
  <1>9. Descends(tunnels')
    BY <1>5, <1>7, <1>8 DEF Descends
  <1>10. /\ \A i, j \in DOMAIN tunnels' : tunnels'[i].pid = tunnels'[j].pid => i = j
         /\ \A i, j \in LoopTunnels' : i = j
         /\ \A i \in LoopTunnels' : \E h \in LoopTunnels : tunnels'[i].pid = tunnels[h].pid
    BY <1>1, <1>9, Descendants
  <1>11. watchdog' \in Watch /\ watchdog'.at = IF Healthy /\ watchdog.seen # {} THEN "sleep" ELSE "start"
    BY DEF Act, Asleep, Watch
  <1>12. watchdog'.at = "start" => LoopTunnels' = {}
    <2> SUFFICES ASSUME ~(Healthy /\ watchdog.seen # {}), NEW i \in LoopTunnels' PROVE FALSE
      BY <1>11
    <2>1. PICK h \in LoopTunnels : tunnels'[i].pid = tunnels[h].pid
      BY <1>10
    <2>2. tunnels[h].pid \in watchdog.seen
      BY <1>1, <2>1 DEF ProcessesOK
    <2>3. ToKill = watchdog.seen
      BY <2>2 DEF ToKill
    <2>4. i \in 1 .. Len(rest) /\ tunnels'[i].from = "loop"
      BY <1>8 DEF LoopTunnels
    <2>5. tunnels'[i].pid \notin ToKill \ spared /\ tunnels'[i].pid \notin spared
      BY <1>5, <1>7, <2>4
    <2>6. QED
      BY <2>1, <2>2, <2>3, <2>5
  <1>13. ProcessesOK'
    BY <1>8, <1>10, <1>11, <1>12 DEF ProcessesOK
  <1>14. CountsOK'
    BY <1>1, <1>2, LosesOne DEF CountsOK
  <1>15. QED
    BY <1>1, <1>2, <1>13, <1>14, PoolStays, TunnelPartsAfter

LEMMA StartTunnelKeeps == ASSUME TunnelInv, StartTunnel PROVE TunnelInv'
  <1>1. ProcessesOK /\ PoolOK /\ CountsOK /\ LoopTunnels = {}
    BY TunnelParts DEF ProcessesOK, StartTunnel
  <1>2. Spawn("loop") /\ UNCHANGED <<network, task, free, manual, losses>> /\ watchdog' = Asleep
    BY DEF StartTunnel
  <1>3. /\ tunnels' \in Seq(Process)
        /\ \A i, j \in DOMAIN tunnels' : tunnels'[i].pid = tunnels'[j].pid => i = j
        /\ LoopTunnels' = {Len(tunnels) + 1}
    BY <1>1, <1>2, SpawnIs
  <1>4. Asleep \in Watch /\ Asleep.at = "sleep"
    BY DEF Asleep, Watch
  <1>5. ProcessesOK'
    BY <1>2, <1>3, <1>4 DEF ProcessesOK
  <1>6. CountsOK'
    BY <1>1, <1>2 DEF CountsOK
  <1>7. QED
    BY <1>1, <1>2, <1>5, <1>6, PoolStays, TunnelPartsAfter

LEMMA PausedIs == ASSUME PoolOK, NEW t \in Tasks PROVE Paused(t) \in Clients /\ Paused(t).at = "pause" /\ Paused(t).via = Closed
  <1>1. task[t].delay \in 1 .. MaxDelay
    BY DEF PoolOK, Clients
  <1>2. Min({2 * task[t].delay, MaxDelay}) \in 1 .. MaxDelay
    <2> DEFINE S == {2 * task[t].delay, MaxDelay}
    <2>1. 2 * task[t].delay \in Nat /\ 1 <= 2 * task[t].delay /\ MaxDelay \in Nat /\ 1 <= MaxDelay
      BY <1>1, TunnelBounds
    <2>2. S \in SUBSET Nat /\ S # {} /\ MaxDelay \in S /\ \A x \in S : x \in Nat /\ 1 <= x
      BY <2>1
    <2> HIDE DEF S
    <2>3. Min(S) \in S /\ Min(S) <= MaxDelay
      BY <2>2, MinOf
    <2>4. Min(S) \in 1 .. MaxDelay
      <3>1. \A m, d \in Nat : 1 <= m /\ m <= d => m \in 1 .. d
        OBVIOUS
      <3>2. Min(S) \in Nat /\ 1 <= Min(S)
        BY <2>2, <2>3
      <3>3. QED
        BY <2>1, <2>3, <3>1, <3>2
    <2>5. QED
      BY <2>4 DEF S
  <1>3. QED
    BY <1>1, <1>2 DEF Paused, Clients

\* Connections in use are of tasks, which are finite.
LEMMA HowManyConnected ==
    /\ IsFiniteSet(Connected) /\ Cardinality(Connected) \in Nat /\ Cardinality(Tasks) \in Nat
    /\ Cardinality(Connected) <= Cardinality(Tasks)
  BY TunnelBounds, FS_Subset, FS_CardinalityType DEF Connected

\* A task without its connection, and one with it.
LEMMA ConnectionEnds ==
    ASSUME NEW t \in Connected, NEW S, S = Connected \ {t} PROVE Cardinality(S) + 1 = Cardinality(Connected) /\ Cardinality(S) \in Nat
  <1>1. Cardinality(S) = Cardinality(Connected) - 1 /\ IsFiniteSet(S)
    BY HowManyConnected, FS_RemoveElement
  <1>2. Cardinality(S) \in Nat
    BY <1>1, FS_CardinalityType
  <1>3. \A x, y \in Nat : x = y - 1 => x + 1 = y
    OBVIOUS
  <1>4. QED
    BY <1>1, <1>2, <1>3, HowManyConnected

LEMMA ConnectionStarts ==
    ASSUME NEW t \in Tasks, t \notin Connected
    PROVE  /\ Cardinality(Connected \cup {t}) = Cardinality(Connected) + 1
           /\ Cardinality(Connected \cup {t}) <= Cardinality(Tasks)
  <1>1. Cardinality(Connected \cup {t}) = Cardinality(Connected) + 1
    BY HowManyConnected, FS_AddElement
  <1>2. Connected \cup {t} \subseteq Tasks
    BY DEF Connected
  <1>3. QED
    BY <1>1, <1>2, TunnelBounds, FS_Subset

\* A task has another record: who is connected then.
LEMMA OneTask ==
    ASSUME PoolOK, NEW t \in Tasks, NEW c \in Clients, task' = [task EXCEPT ![t] = c], c.via # Closed => c.at = "call"
    PROVE  /\ task' \in [Tasks -> Clients] /\ \A u \in Connected' : task'[u].at = "call"
           /\ Connected' = IF c.via = Closed THEN Connected \ {t} ELSE Connected \cup {t}
  <1>1. task \in [Tasks -> Clients]
    BY DEF PoolOK
  <1>2. task' \in [Tasks -> Clients] /\ \A u \in Tasks : task'[u] = IF u = t THEN c ELSE task[u]
    BY <1>1
  <1>3. QED
    BY <1>2 DEF PoolOK, Connected

LEMMA FailKeepsPool == ASSUME PoolOK, NEW t \in Tasks, Fail(t) PROVE PoolOK' /\ (Lose \/ UNCHANGED losses)
  <1>1. /\ Len(free) \in Nat /\ free \in Seq(Pids) /\ task \in [Tasks -> Clients]
        /\ Len(free) + Cardinality(Connected) <= Cardinality(Tasks)
    BY DEF PoolOK
  <1>2. CASE ResetPool(t) /\ UNCHANGED losses
    <2>1. free' = <<>> /\ task' = [u \in Tasks |-> IF u = t THEN Paused(t) ELSE [task[u] EXCEPT !.via = Closed]]
      BY <1>2 DEF ResetPool
    <2>2. ASSUME NEW u \in Tasks PROVE task'[u] \in Clients /\ task'[u].via = Closed
      <3>1. CASE u = t
        BY <2>1, <3>1, PausedIs
      <3>2. CASE u # t
        <4>1. task'[u] = [task[u] EXCEPT !.via = Closed] /\ task[u] \in Clients
          BY <1>1, <2>1, <3>2
        <4>2. QED
          BY <4>1 DEF Clients
      <3>3. QED
        BY <3>1, <3>2
    <2>3. task' \in [Tasks -> Clients] /\ Connected' = {}
      BY <2>1, <2>2 DEF Connected
    <2>4. free' \in Seq(Pids) /\ Len(free') = 0
      BY <2>1
    <2>5. Len(free') + Cardinality(Connected') <= Cardinality(Tasks)
      <3>1. Cardinality(Connected') = 0
        BY <2>3, FS_EmptySet
      <3>2. QED
        BY <2>4, <3>1, HowManyConnected
    <2>6. QED
      BY <1>2, <2>3, <2>4, <2>5 DEF PoolOK
  <1>3. CASE /\ Lose /\ task' = [task EXCEPT ![t] = Paused(t)]
             /\ free' = IF task[t].via = Closed THEN free ELSE Append(free, task[t].via)
    <2>1. /\ task' \in [Tasks -> Clients] /\ \A u \in Connected' : task'[u].at = "call"
          /\ Connected' = Connected \ {t}
      BY <1>3, PausedIs, OneTask
    <2>2. CASE task[t].via = Closed
      <3>1. Connected' = Connected /\ free' = free
        BY <1>3, <2>1, <2>2 DEF Connected
      <3>2. QED
        BY <1>1, <1>3, <2>1, <3>1 DEF PoolOK
    <2>3. CASE task[t].via # Closed
      <3>1. t \in Connected /\ task[t].via \in Pids
        BY <1>1, <2>3 DEF Connected, Clients
      <3>2. free' \in Seq(Pids) /\ Len(free') = Len(free) + 1
        BY <1>1, <1>3, <2>3, <3>1
      <3>3. Cardinality(Connected') + 1 = Cardinality(Connected) /\ Cardinality(Connected') \in Nat
        BY <2>1, <3>1, ConnectionEnds
      <3>4. Len(free') + Cardinality(Connected') <= Cardinality(Tasks)
        <4>1. \A f, n, m, p, g \in Nat : f + n <= p /\ g = f + 1 /\ m + 1 = n => g + m <= p
          OBVIOUS
        <4>2. Len(free') \in Nat
          BY <1>1, <3>2
        <4>3. QED
          BY <1>1, <3>2, <3>3, <4>1, <4>2, HowManyConnected
      <3>5. QED
        BY <1>3, <2>1, <3>2, <3>4 DEF PoolOK
    <2>4. QED
      BY <2>2, <2>3
  <1>4. QED
    BY <1>2, <1>3, Zenon DEF Fail

LEMMA InStatePids == ASSUME tunnels \in Seq(Process), NEW states PROVE InState(states) \subseteq Pids
  <1>1. \A i \in DOMAIN tunnels : tunnels[i] \in Process
    OBVIOUS
  <1>2. QED
    BY <1>1 DEF InState, Process

LEMMA CallKeeps == ASSUME TunnelInv, NEW t \in Tasks, Call(t) PROVE TunnelInv'
  <1>1. ProcessesOK /\ PoolOK /\ CountsOK /\ tunnels \in Seq(Process)
    BY TunnelParts DEF ProcessesOK
  <1>2. /\ Len(free) \in Nat /\ free \in Seq(Pids) /\ task \in [Tasks -> Clients]
        /\ Len(free) + Cardinality(Connected) <= Cardinality(Tasks)
    BY <1>1 DEF PoolOK
  <1>3. UNCHANGED <<network, tunnels, watchdog, manual>> /\ task[t].at = "ready"
    BY DEF Call
  <1>4. t \notin Connected
    BY <1>1, <1>3 DEF PoolOK
  <1>5. ASSUME NEW p \in Pids, task' = [task EXCEPT ![t].at = "call", ![t].via = p]
        PROVE  /\ task' \in [Tasks -> Clients] /\ \A u \in Connected' : task'[u].at = "call"
               /\ Connected' = Connected \cup {t}
    <2> DEFINE c == [task[t] EXCEPT !.at = "call", !.via = p]
    <2>1. c \in Clients /\ c.at = "call" /\ c.via = p
      <3>1. task[t] \in Clients
        BY <1>2
      <3>2. QED
        BY <3>1 DEF Clients
    <2>2. task' = [task EXCEPT ![t] = c]
      BY <1>2, <1>5
    <2> HIDE DEF c
    <2>3. c.via # Closed
      BY <2>1, TunnelBounds DEF Closed
    <2>4. QED
      BY <1>1, <2>1, <2>2, <2>3, OneTask
  <1>6. ASSUME PoolOK', Lose \/ UNCHANGED losses PROVE TunnelInv'
    BY <1>1, <1>3, <1>6, LosesOne, ProcessesStay, TunnelPartsAfter DEF CountsOK
  <1>7. CASE /\ free # <<>> /\ free' = Front(free) /\ UNCHANGED losses
             /\ task' = [task EXCEPT ![t].at = "call", ![t].via = Last(free)]
    <2>1. Len(free) # 0 /\ Last(free) \in Pids
      BY <1>2, <1>7 DEF Last
    <2>2. free' \in Seq(Pids) /\ Len(free') = Len(free) - 1
      <3>1. Len(free) - 1 \in Nat /\ 1 .. Len(free) - 1 \subseteq 1 .. Len(free)
        BY <1>2, <2>1
      <3>2. \A i \in 1 .. Len(free) : free[i] \in Pids
        BY <1>2
      <3>3. free' = [i \in 1 .. Len(free) - 1 |-> free[i]]
        BY <1>2, <1>7, <2>1, <3>1 DEF Front
      <3>4. free' \in [1 .. Len(free) - 1 -> Pids]
        BY <3>1, <3>2, <3>3
      <3>5. QED
        BY <3>1, <3>4
    <2>3. /\ task' \in [Tasks -> Clients] /\ \A u \in Connected' : task'[u].at = "call"
          /\ Connected' = Connected \cup {t}
      BY <1>5, <1>7, <2>1
    <2>4. Len(free') + Cardinality(Connected') <= Cardinality(Tasks)
      <3>1. Cardinality(Connected') = Cardinality(Connected) + 1
        BY <1>4, <2>3, ConnectionStarts
      <3>2. \A f, n, m, p, g \in Nat : f + n <= p /\ f # 0 /\ g = f - 1 /\ m = n + 1 => g + m <= p
        OBVIOUS
      <3>3. Len(free') \in Nat /\ Cardinality(Connected') \in Nat
        BY <2>2, <3>1, HowManyConnected
      <3>4. QED
        BY <1>2, <2>1, <2>2, <3>1, <3>2, <3>3, HowManyConnected
    <2>5. QED
      BY <1>6, <1>7, <2>2, <2>3, <2>4 DEF PoolOK
  <1>8. CASE /\ free = <<>> /\ UNCHANGED <<free, losses>>
             /\ \E p \in InState(Listening) : task' = [task EXCEPT ![t].at = "call", ![t].via = p]
    <2>1. PICK p \in Pids : task' = [task EXCEPT ![t].at = "call", ![t].via = p]
      BY <1>1, <1>8, InStatePids
    <2>2. /\ task' \in [Tasks -> Clients] /\ \A u \in Connected' : task'[u].at = "call"
          /\ Connected' = Connected \cup {t}
      BY <1>5, <2>1
    <2>3. Len(free') + Cardinality(Connected') <= Cardinality(Tasks)
      <3>1. /\ Cardinality(Connected') <= Cardinality(Tasks) /\ Len(free') = 0
            /\ Cardinality(Connected') = Cardinality(Connected) + 1
        BY <1>4, <1>8, <2>2, ConnectionStarts
      <3>2. QED
        BY <3>1, HowManyConnected
    <2>4. QED
      BY <1>2, <1>6, <1>8, <2>2, <2>3 DEF PoolOK
  <1>9. CASE Fail(t)
    BY <1>1, <1>6, <1>9, FailKeepsPool
  <1>10. QED
    BY <1>7, <1>8, <1>9, Zenon DEF Call

LEMMA ReturnKeeps == ASSUME TunnelInv, NEW t \in Tasks, Return(t) PROVE TunnelInv'
  <1>1. ProcessesOK /\ PoolOK /\ CountsOK /\ tunnels \in Seq(Process)
    BY TunnelParts DEF ProcessesOK
  <1>2. /\ Len(free) \in Nat /\ free \in Seq(Pids) /\ task \in [Tasks -> Clients]
        /\ Len(free) + Cardinality(Connected) <= Cardinality(Tasks)
    BY <1>1 DEF PoolOK
  <1>3. UNCHANGED <<network, tunnels, watchdog, manual>>
    BY DEF Return
  <1>4. ASSUME PoolOK', Lose \/ UNCHANGED losses PROVE TunnelInv'
    BY <1>1, <1>3, <1>4, LosesOne, ProcessesStay, TunnelPartsAfter DEF CountsOK
  <1>5. CASE task[t].via \in Forwards
    <2>1. /\ free' = Append(free, task[t].via) /\ UNCHANGED losses
          /\ task' = [task EXCEPT ![t] = [at |-> "ready", via |-> Closed, delay |-> 1]]
      BY <1>5 DEF Return
    <2>2. task[t].via \in Pids
      BY <1>1, <1>5, InStatePids DEF Forwards
    <2>3. t \in Connected
      BY <2>2, TunnelBounds DEF Connected, Closed
    <2>4. free' \in Seq(Pids) /\ Len(free') = Len(free) + 1
      BY <1>2, <2>1, <2>2
    <2> DEFINE c == [at |-> "ready", via |-> Closed, delay |-> 1]
    <2>5. c \in Clients /\ c.via = Closed
      BY TunnelBounds DEF Clients
    <2>6. task' = [task EXCEPT ![t] = c]
      BY <2>1
    <2> HIDE DEF c
    <2>7. /\ task' \in [Tasks -> Clients] /\ \A u \in Connected' : task'[u].at = "call"
          /\ Connected' = Connected \ {t}
      BY <1>1, <2>5, <2>6, OneTask
    <2>8. Len(free') + Cardinality(Connected') <= Cardinality(Tasks)
      <3>1. Cardinality(Connected') + 1 = Cardinality(Connected) /\ Cardinality(Connected') \in Nat
        BY <2>3, <2>7, ConnectionEnds
      <3>2. \A f, n, m, p, g \in Nat : f + n <= p /\ g = f + 1 /\ m + 1 = n => g + m <= p
        OBVIOUS
      <3>3. Len(free') \in Nat
        BY <1>2, <2>4
      <3>4. QED
        BY <1>2, <2>4, <3>1, <3>2, <3>3, HowManyConnected
    <2>9. QED
      BY <1>4, <2>1, <2>4, <2>7, <2>8 DEF PoolOK
  <1>6. CASE Fail(t)
    BY <1>1, <1>4, <1>6, FailKeepsPool
  <1>7. QED
    BY <1>5, <1>6, Zenon DEF Return

LEMMA ResumeKeeps == ASSUME TunnelInv, NEW t \in Tasks, Resume(t) PROVE TunnelInv'
  <1>1. ProcessesOK /\ PoolOK /\ CountsOK
    BY TunnelParts
  <1>2. /\ free \in Seq(Pids) /\ task \in [Tasks -> Clients] /\ task[t].at = "pause"
        /\ task' = [task EXCEPT ![t].at = "ready"]
        /\ UNCHANGED <<network, tunnels, watchdog, free, manual, losses>>
    BY <1>1 DEF PoolOK, Resume
  <1>3. t \notin Connected
    BY <1>1, <1>2 DEF PoolOK
  <1>4. task[t].via = Closed /\ task[t] \in Clients
    BY <1>2, <1>3 DEF Connected
  <1> DEFINE c == [task[t] EXCEPT !.at = "ready"]
  <1>5. c \in Clients /\ c.via = Closed
    BY <1>4 DEF Clients
  <1>6. task' = [task EXCEPT ![t] = c]
    BY <1>2
  <1> HIDE DEF c
  <1>7. /\ task' \in [Tasks -> Clients] /\ \A u \in Connected' : task'[u].at = "call"
        /\ Connected' = Connected
    <2>1. /\ task' \in [Tasks -> Clients] /\ \A u \in Connected' : task'[u].at = "call"
          /\ Connected' = Connected \ {t}
      BY <1>1, <1>5, <1>6, OneTask
    <2>2. QED
      BY <1>3, <2>1
  <1>8. PoolOK'
    BY <1>1, <1>2, <1>7 DEF PoolOK
  <1>9. CountsOK'
    BY <1>1, <1>2 DEF CountsOK
  <1>10. QED
    BY <1>1, <1>2, <1>8, <1>9, ProcessesStay, TunnelPartsAfter

LEMMA TunnelStill == ASSUME TunnelInv, UNCHANGED tunnelVars PROVE TunnelInv'
  <1>1. ProcessesOK /\ PoolOK /\ CountsOK
    BY TunnelParts
  <1>2. UNCHANGED <<network, tunnels, watchdog, task, free, manual, losses>>
    BY DEF tunnelVars
  <1>3. CountsOK'
    BY <1>1, <1>2 DEF CountsOK
  <1>4. QED
    BY <1>1, <1>2, <1>3, ProcessesStay, PoolStays, TunnelPartsAfter

LEMMA TunnelSteps == TunnelInv /\ [TunnelNext]_tunnelVars => TunnelInv'
  <1> SUFFICES ASSUME TunnelInv, [TunnelNext]_tunnelVars PROVE TunnelInv'
    OBVIOUS
  <1>1. CASE WatchdogDies \/ WatchdogStarts \/ Look \/ ProbeTcp \/ ProbePing
    BY <1>1, WatchdogKeeps
  <1>2. CASE Act
    BY <1>2, ActKeeps
  <1>3. CASE StartTunnel
    BY <1>3, StartTunnelKeeps
  <1>4. CASE Ssh
    BY <1>4, EstablishKeeps DEF Ssh
  <1>5. CASE \E i \in DOMAIN tunnels : ConnectionBreaks(i)
    BY <1>5, ConnectionBreaksKeeps
  <1>6. CASE NetworkDown \/ NetworkUp
    BY <1>6, NetworkKeeps
  <1>7. CASE ManualStart
    BY <1>7, ManualStartKeeps
  <1>8. CASE \E t \in Tasks : Client(t)
    BY <1>8, CallKeeps, ReturnKeeps, ResumeKeeps DEF Client
  <1>9. CASE UNCHANGED tunnelVars
    BY <1>9, TunnelStill
  <1>10. QED
    BY <1>1, <1>2, <1>3, <1>4, <1>5, <1>6, <1>7, <1>8, <1>9, Zenon DEF TunnelNext, Loop

LEMMA OneTunnelOfTheLoop == TunnelInv => TunnelsDoNotPileUp
  <1> SUFFICES ASSUME TunnelInv PROVE Cardinality(LoopTunnels) <= 1
    BY DEF TunnelsDoNotPileUp, LoopTunnels
  <1>1. \A i, j \in LoopTunnels : i = j
    BY DEF TunnelInv
  <1>2. CASE LoopTunnels = {}
    BY <1>2, FS_EmptySet
  <1>3. CASE LoopTunnels # {}
    <2>1. PICK i \in LoopTunnels : LoopTunnels = {i}
      BY <1>1, <1>3
    <2>2. Cardinality({i}) = 1
      BY FS_Singleton
    <2>3. QED
      BY <2>1, <2>2
  <1>4. QED
    BY <1>2, <1>3

\* The watchdog starts a tunnel whenever it finds none that works (tunnel_watchdog), and never
\* has two of its own: those it saw were killed or spared before the next one starts.
THEOREM TunnelsDoNotPileUpHolds == TunnelSpec => []TunnelsDoNotPileUp
  BY OneTunnelOfTheLoop, TunnelStarts, TunnelSteps, PTL DEF TunnelSpec

-------------------------------------------------------------------------------
(* The receiver. *)

LEMMA ReceiverBounds == MaxPosts \in Nat /\ MaxEdits \in Nat /\ MaxStops \in Nat /\ Empty \notin Texts
  BY ReceiverAssumption

\* What build_raw_event makes of a message.
LEMMA BuildIsJob ==
    ASSUME NEW p \in Posts, NEW x \in Texts \cup {Empty}
    PROVE  Build(p, x) \subseteq Jobs
  BY DEF Build, Jobs

LEMMA ReceiverStarts == ReceiverInit => ReceiverInv
  <1> SUFFICES ASSUME ReceiverInit PROVE ReceiverInv
    OBVIOUS
  <1>1. DOMAIN text = {} /\ Range(text) = {} /\ Posted = 1 .. 0
    BY DEF ReceiverInit, Posted, Range
  <1>2. ReceiverTypeOK
    BY <1>1, ReceiverBounds DEF ReceiverInit, ReceiverTypeOK, Posted, Posts, Jobs
  <1>3. 0 \in 0 .. MaxPosts
    BY ReceiverBounds
  <1>4. QED
    BY <1>1, <1>2, <1>3 DEF ReceiverInit, ReceiverInv, ClaimedIsPublished

\* A new or an edited message.
LEMMA PostKeeps ==
    ASSUME ReceiverInv, NEW x \in Texts \cup {Empty}, Post(x) PROVE ReceiverInv'
  <1>1. PICK n \in 0 .. MaxPosts : Posted = 1 .. n
    BY DEF ReceiverInv
  <1>2. n \in Nat /\ Cardinality(Posted) = n
    BY <1>1, ReceiverBounds, FS_Interval
  <1>3. /\ n + 1 \in Posts
        /\ text' = [p \in 1 .. n + 1 |-> IF p = n + 1 THEN x ELSE text[p]]
    BY <1>2 DEF Post
  <1>4. Posted' = 1 .. n + 1
    BY <1>3 DEF Posted
  <1>5. \A p \in 1 .. n : text[p] \in Texts \cup {Empty}
    BY <1>1 DEF ReceiverInv, ReceiverTypeOK, Posted, Range
  <1>6. Range(text)' \subseteq Texts \cup {Empty}
    BY <1>2, <1>3, <1>5 DEF Range
  <1>7. Posted' \subseteq Posts /\ Posted \subseteq Posted'
    BY <1>1, <1>2, <1>3, <1>4, ReceiverBounds DEF Posts
  <1>8. claiming' \subseteq Jobs
    BY <1>2, <1>3, BuildIsJob DEF ReceiverInv, ReceiverTypeOK, Post
  <1>9. ReceiverTypeOK'
    BY <1>6, <1>7, <1>8 DEF ReceiverInv, ReceiverTypeOK, Post, Jobs, Posts
  <1>10. n + 1 \in 0 .. MaxPosts
    BY <1>2, <1>3, ReceiverBounds DEF Posts
  <1>11. QED
    BY <1>4, <1>9, <1>10 DEF ReceiverInv, Post, ClaimedIsPublished

LEMMA EditKeeps ==
    ASSUME ReceiverInv, NEW x \in Texts \cup {Empty}, NEW p \in Posts, Edit(p, x) PROVE ReceiverInv'
  <1>1. Posted' = Posted
    BY DEF Edit, Posted
  <1>2. Range(text)' \subseteq Texts \cup {Empty}
    BY DEF Edit, Range, ReceiverInv, ReceiverTypeOK
  <1>3. claiming' \subseteq Jobs
    BY BuildIsJob DEF ReceiverInv, ReceiverTypeOK, Edit
  <1>4. edits' \in 0 .. MaxEdits
    BY ReceiverBounds DEF ReceiverInv, ReceiverTypeOK, Edit
  <1>5. ReceiverTypeOK'
    BY <1>1, <1>2, <1>3, <1>4 DEF ReceiverInv, ReceiverTypeOK, Edit, Jobs, Posts
  <1>6. QED
    BY <1>1, <1>5 DEF ReceiverInv, Edit, ClaimedIsPublished

\* The start, the backfill and its end touch neither claims nor news:raw.
LEMMA BackfillKeeps ==
    ASSUME ReceiverInv, Start \/ BackfillNext \/ Listen PROVE ReceiverInv'
  <1>1. Posted' = Posted /\ Range(text)' = Range(text)
    BY DEF Start, BackfillNext, Listen, Posted, Range
  <1>2. CASE Start
    <2>1. due' \subseteq Posted'
      BY <1>1, <1>2 DEF Start
    <2>2. ReceiverTypeOK'
      BY <1>1, <1>2, <2>1 DEF ReceiverInv, ReceiverTypeOK, Start, Jobs, Posts
    <2>3. QED
      BY <1>1, <1>2, <2>2 DEF ReceiverInv, Start, ClaimedIsPublished
  <1>3. CASE BackfillNext
    <2>1. PICK n \in 0 .. MaxPosts : Posted = 1 .. n
      BY DEF ReceiverInv
    <2>2. \E p \in due : \A q \in due : q <= p
      <3>1. n \in Nat /\ due \in SUBSET (1 .. n) /\ due # {}
        BY <1>3, <2>1, ReceiverBounds DEF ReceiverInv, ReceiverTypeOK, BackfillNext
      <3>2. QED
        BY <3>1, GreatestNumber
    <2>3. PICK p \in due : due' = due \ {p} /\ claiming' = Build(p, text[p])
      BY <1>3, <2>2 DEF BackfillNext
    <2>4. p \in Posted /\ p \in Posts /\ text[p] \in Texts \cup {Empty}
      BY <2>3 DEF ReceiverInv, ReceiverTypeOK, Posted, Range
    <2>5. claiming' \subseteq Jobs /\ due' \subseteq Posted'
      BY <1>1, <2>3, <2>4, BuildIsJob DEF ReceiverInv, ReceiverTypeOK
    <2>6. ReceiverTypeOK'
      BY <1>1, <1>3, <2>5 DEF ReceiverInv, ReceiverTypeOK, BackfillNext, Jobs, Posts
    <2>7. QED
      BY <1>1, <1>3, <2>6 DEF ReceiverInv, BackfillNext, ClaimedIsPublished
  <1>4. CASE Listen
    <2>1. ReceiverTypeOK'
      BY <1>1, <1>4 DEF ReceiverInv, ReceiverTypeOK, Listen, Jobs, Posts
    <2>2. QED
      BY <1>1, <1>4, <2>1 DEF ReceiverInv, Listen, ClaimedIsPublished
  <1>5. QED
    BY <1>2, <1>3, <1>4

\* The claim: a dispatch that gets it is the only one with this text.
LEMMA ClaimTextKeeps ==
    ASSUME ReceiverInv, NEW job, ClaimText(job) PROVE ReceiverInv'
  <1>1. job \in Jobs /\ job.text \in Texts
    BY DEF ReceiverInv, ReceiverTypeOK, ClaimText, Jobs
  <1>2. Posted' = Posted /\ Range(text)' = Range(text)
    BY DEF ClaimText, Posted, Range
  <1>3. ReceiverTypeOK'
    BY <1>1, <1>2 DEF ReceiverInv, ReceiverTypeOK, ClaimText, Jobs, Posts
  <1>4. ASSUME NEW j \in publishing'
        PROVE  /\ j.text \in taken' /\ raw'[j.text] = 0
               /\ \A twin \in publishing' : twin.text = j.text => twin = j
    <2>1. raw[job.text] = 0 \/ job.text \in taken
      BY <1>1 DEF ReceiverInv, ReceiverTypeOK
    <2>2. QED
      BY <1>1, <1>4, <2>1 DEF ReceiverInv, ClaimText
  <1>5. ASSUME NEW x \in taken'
        PROVE  raw'[x] = 1 \/ x \in broken' \/ \E j \in publishing' : j.text = x
    BY <1>5 DEF ReceiverInv, ClaimedIsPublished, ClaimText
  <1>6. \A x \in Texts : raw'[x] <= 1 /\ (raw'[x] = 1 => x \in taken')
    BY DEF ReceiverInv, ClaimText
  <1>7. QED
    BY <1>2, <1>3, <1>4, <1>5, <1>6 DEF ReceiverInv, ClaimedIsPublished, ClaimText

\* The counter of a text after one more copy.
LEMMA OneCopyMore ==
    ASSUME ReceiverInv, NEW job \in publishing, raw' = [raw EXCEPT ![job.text] = @ + 1]
    PROVE  /\ job.text \in Texts /\ raw' \in [Texts -> Nat] /\ raw'[job.text] = 1
           /\ \A x \in Texts : x # job.text => raw'[x] = raw[x]
  <1>1. job.text \in Texts /\ raw \in [Texts -> Nat] /\ raw[job.text] = 0
    BY DEF ReceiverInv, ReceiverTypeOK, Jobs
  <1>2. QED
    BY <1>1

LEMMA PublishRawKeeps ==
    ASSUME ReceiverInv, NEW job, PublishRaw(job) PROVE ReceiverInv'
  <1>1. /\ job.text \in Texts /\ raw' \in [Texts -> Nat] /\ raw'[job.text] = 1
        /\ \A x \in Texts : x # job.text => raw'[x] = raw[x]
    BY OneCopyMore DEF PublishRaw
  <1>2. Posted' = Posted /\ Range(text)' = Range(text)
    BY DEF PublishRaw, Posted, Range
  <1>3. ReceiverTypeOK'
    BY <1>1, <1>2 DEF ReceiverInv, ReceiverTypeOK, PublishRaw, Jobs, Posts
  <1>4. ASSUME NEW j \in publishing'
        PROVE  /\ j.text \in taken' /\ raw'[j.text] = 0
               /\ \A twin \in publishing' : twin.text = j.text => twin = j
    <2>1. j \in publishing /\ j.text # job.text /\ j.text \in Texts
      BY <1>4 DEF ReceiverInv, ReceiverTypeOK, PublishRaw, Jobs
    <2>2. QED
      BY <1>1, <2>1 DEF ReceiverInv, PublishRaw
  <1>5. ASSUME NEW x \in taken'
        PROVE  raw'[x] = 1 \/ x \in broken' \/ \E j \in publishing' : j.text = x
    <2>1. x \in Texts /\ x \in taken /\ broken' = broken
      BY <1>5 DEF ReceiverInv, ReceiverTypeOK, PublishRaw
    <2>2. CASE x = job.text
      BY <1>1, <2>2
    <2>3. CASE x # job.text
      <3>1. \A j \in publishing : j.text = x => j \in publishing'
        BY <2>3 DEF PublishRaw
      <3>2. QED
        BY <1>1, <2>1, <2>3, <3>1 DEF ReceiverInv, ClaimedIsPublished
    <2>4. QED
      BY <2>2, <2>3
  <1>6. \A x \in Texts : raw'[x] <= 1 /\ (raw'[x] = 1 => x \in taken')
    BY <1>1 DEF ReceiverInv, PublishRaw
  <1>7. QED
    BY <1>2, <1>3, <1>4, <1>5, <1>6 DEF ReceiverInv, ClaimedIsPublished, PublishRaw

\* A dispatch that fails: its text is among the broken ones.
LEMMA DispatchFailsKeeps ==
    ASSUME ReceiverInv, NEW job, DispatchFails(job) PROVE ReceiverInv'
  <1>1. job \in Jobs /\ job.text \in Texts
    BY DEF ReceiverInv, ReceiverTypeOK, DispatchFails, Jobs
  <1>2. /\ Posted' = Posted /\ Range(text)' = Range(text)
        /\ publishing' = publishing \ {job} /\ broken' = broken \cup {job.text} /\ taken \subseteq taken'
        /\ taken' \subseteq taken \cup {job.text}
    BY DEF DispatchFails, Posted, Range
  <1>3. /\ raw' \in [Texts -> Nat]
        /\ \A x \in Texts : raw'[x] <= 1 /\ (raw'[x] = 1 => x \in taken')
        /\ \A x \in Texts : x # job.text \/ job \notin publishing \/ job \in claiming => raw'[x] = raw[x]
    <2>1. CASE raw' = raw
      BY <1>2, <2>1 DEF ReceiverInv, ReceiverTypeOK
    <2>2. CASE raw' # raw
      <3>1. job \in publishing /\ job \notin claiming /\ raw' = [raw EXCEPT ![job.text] = @ + 1]
        BY <2>2 DEF DispatchFails
      <3>2. job.text \in taken
        BY <3>1 DEF ReceiverInv
      <3>3. /\ raw' \in [Texts -> Nat] /\ raw'[job.text] = 1
            /\ \A x \in Texts : x # job.text => raw'[x] = raw[x]
        BY <3>1, OneCopyMore
      <3>4. QED
        BY <1>2, <3>1, <3>2, <3>3 DEF ReceiverInv
    <2>3. QED
      BY <2>1, <2>2
  <1>4. stops' \in 0 .. MaxStops
    BY ReceiverBounds DEF ReceiverInv, ReceiverTypeOK, DispatchFails
  <1>5. ReceiverTypeOK'
    BY <1>1, <1>2, <1>3, <1>4 DEF ReceiverInv, ReceiverTypeOK, DispatchFails, Jobs, Posts
  <1>6. ASSUME NEW j \in publishing'
        PROVE  /\ j.text \in taken' /\ raw'[j.text] = 0
               /\ \A twin \in publishing' : twin.text = j.text => twin = j
    <2>1. j \in publishing /\ j # job /\ j.text \in Texts /\ (job \in publishing => j.text # job.text)
      BY <1>2, <1>6 DEF ReceiverInv, ReceiverTypeOK, Jobs
    <2>2. raw'[j.text] = raw[j.text]
      BY <1>3, <2>1
    <2>3. QED
      BY <1>2, <2>1, <2>2 DEF ReceiverInv
  <1>7. ASSUME NEW x \in taken'
        PROVE  raw'[x] = 1 \/ x \in broken' \/ \E j \in publishing' : j.text = x
    <2>1. CASE x = job.text
      BY <1>2, <2>1
    <2>2. CASE x # job.text
      <3>1. x \in taken /\ x \in Texts /\ raw'[x] = raw[x]
        BY <1>2, <1>3, <1>7, <2>2 DEF ReceiverInv, ReceiverTypeOK
      <3>2. \A j \in publishing : j.text = x => j \in publishing'
        BY <1>2, <2>2
      <3>3. QED
        BY <1>2, <3>1, <3>2 DEF ReceiverInv, ClaimedIsPublished
    <2>3. QED
      BY <2>1, <2>2
  <1>8. QED
    BY <1>2, <1>3, <1>5, <1>6, <1>7 DEF ReceiverInv, ClaimedIsPublished

LEMMA StopKeeps ==
    ASSUME ReceiverInv, Stop PROVE ReceiverInv'
  <1>1. Posted' = Posted /\ Range(text)' = Range(text)
    BY DEF Stop, Posted, Range
  <1>2. stops' \in 0 .. MaxStops
    BY ReceiverBounds DEF ReceiverInv, ReceiverTypeOK, Stop
  <1>3. broken' \subseteq Texts
    BY DEF ReceiverInv, ReceiverTypeOK, Stop, Jobs
  <1>4. ReceiverTypeOK'
    BY <1>1, <1>2, <1>3 DEF ReceiverInv, ReceiverTypeOK, Stop, Jobs, Posts
  <1>5. \A x \in taken' : raw'[x] = 1 \/ x \in broken' \/ \E j \in publishing' : j.text = x
    BY DEF ReceiverInv, ClaimedIsPublished, Stop
  <1>6. QED
    BY <1>1, <1>4, <1>5 DEF ReceiverInv, ClaimedIsPublished, Stop

\* Whatever the receiver does keeps the invariant.
LEMMA ReceiverInduction == ReceiverInv /\ [ReceiverNext]_receiverVars => ReceiverInv'
  <1> SUFFICES ASSUME ReceiverInv, [ReceiverNext]_receiverVars PROVE ReceiverInv'
    OBVIOUS
  <1>1. CASE UNCHANGED receiverVars
    BY <1>1 DEF receiverVars, ReceiverInv, ReceiverTypeOK, ClaimedIsPublished, Posted, Jobs, Posts
  <1>2. CASE ReceiverNext
    BY <1>2, PostKeeps, EditKeeps, BackfillKeeps, ClaimTextKeeps, PublishRawKeeps, DispatchFailsKeeps,
       StopKeeps
       DEF ReceiverNext, EventLoop, Dispatch
  <1>3. QED
    BY <1>1, <1>2

\* What the invariant says of every text.
LEMMA TextsFollow == ReceiverInv => TextsAreAccountedFor
  BY DEF ReceiverInv, TextsAreAccountedFor, RawOncePerText

-------------------------------------------------------------------------------
(* The predictor. *)

LEMMA PredictorBounds ==
    /\ MaxEvents \in Nat /\ MaxMishaps \in Nat
    /\ \A x \in Inputs : /\ x.tickers \in Seq(Whitelist \cup {Off}) /\ Len(x.tickers) \in Nat
                         /\ DOMAIN x.tickers = 1 .. Len(x.tickers)
  BY PredictorAssumption

\* Sequences with one event more.
LEMMA OneMoreEvent ==
    ASSUME NEW S, NEW s \in Seq(S), NEW x \in S
    PROVE  /\ Append(s, x) \in Seq(S) /\ Len(s) \in Nat /\ Len(Append(s, x)) = Len(s) + 1
           /\ \A i \in 1 .. Len(s) : Append(s, x)[i] = s[i]
  OBVIOUS

\* The event in hand, and its ticker.
LEMMA InHand ==
    ASSUME PredictorTypeOK, HandInv, cur # 0
    PROVE  /\ cur \in Ids /\ cur \in 1 .. Len(events) /\ cur \in 1 .. unread - 1 /\ cur \in Nat
           /\ cur \in pel /\ cur \notin todo
           /\ events[cur] \in Inputs /\ Tickers = events[cur].tickers
           /\ Tickers \in Seq(Whitelist \cup {Off}) /\ Len(Tickers) \in Nat
           /\ DOMAIN Tickers = 1 .. Len(Tickers)
  <1>1. cur \in pel /\ cur \notin todo /\ cur \in 1 .. unread - 1 /\ unread \in Nat /\ unread - 1 <= Len(events)
    BY PredictorBounds DEF PredictorTypeOK, HandInv
  <1>2. cur \in 1 .. Len(events) /\ Len(events) <= MaxEvents /\ Len(events) \in Nat
    BY <1>1 DEF PredictorTypeOK
  <1>3. events[cur] \in Inputs
    BY <1>2 DEF PredictorTypeOK
  <1>4. cur \in Ids /\ cur \in Nat
    BY <1>2, PredictorBounds DEF Ids
  <1>5. QED
    BY <1>1, <1>2, <1>3, <1>4, PredictorBounds DEF Tickers

LEMMA TickerInHand ==
    ASSUME PredictorTypeOK, HandInv, at \in {"ticker", "predict"}
    PROVE  /\ cur # 0 /\ k \in 1 .. Len(Tickers) /\ k \in Nat /\ events[cur].financial
           /\ Key = <<cur, Tickers[k]>> /\ Key[1] = cur
           /\ Tickers[k] \in Whitelist => Key \in ClaimKeys
           /\ at = "predict" => Tickers[k] \in Whitelist /\ Key \in claims /\ outputs[Key] = 0
  <1>1. cur # 0 /\ k \in 1 .. Len(Tickers) /\ k \in Nat /\ events[cur].financial
    BY DEF PredictorTypeOK, HandInv
  <1>2. cur \in Ids
    BY <1>1, InHand
  <1>3. Key = <<cur, Tickers[k]>> /\ Key[1] = cur
    BY DEF Key
  <1>4. Tickers[k] \in Whitelist => Key \in ClaimKeys
    BY <1>2, <1>3 DEF ClaimKeys
  <1>5. QED
    BY <1>1, <1>3, <1>4 DEF HandInv

LEMMA PredictorStarts == PredictorInit => PredictorInv
  <1> SUFFICES ASSUME PredictorInit PROVE PredictorInv
    OBVIOUS
  <1>1. Len(<<>>) = 0 /\ <<>> \in Seq(Inputs)
    OBVIOUS
  <1>2. PredictorTypeOK
    BY <1>1, PredictorBounds DEF PredictorInit, PredictorTypeOK
  <1>3. HandInv /\ PassedInv /\ AnswerInv
    BY DEF PredictorInit, HandInv, PassedInv, AnswerInv
  <1>6. LostInv
    <2>1. Lost = {} /\ mishaps = 0
      BY DEF PredictorInit, Lost
    <2>2. QED
      BY <2>1, FS_EmptySet DEF LostInv
  <1>4. HistoryInv
    BY PredictorBounds DEF PredictorInit, HistoryInv, Ids, ToHandle
  <1>5. QED
    BY <1>2, <1>3, <1>4, <1>6 DEF PredictorInv

\* What is lost: nothing more, or one ticker more for one mishap more.
LEMMA LostStays ==
    ASSUME PredictorInv, UNCHANGED <<cut, erred>>, mishaps' \in {mishaps, mishaps + 1}
    PROVE  LostInv' /\ Lost' = Lost
  <1>1. Lost' = Lost
    BY DEF Lost
  <1>2. mishaps \in Nat /\ mishaps <= mishaps'
    BY PredictorBounds DEF PredictorInv, PredictorTypeOK
  <1>3. Cardinality(Lost) \in Nat
    BY FS_CardinalityType DEF PredictorInv, LostInv
  <1>4. QED
    BY <1>1, <1>2, <1>3 DEF PredictorInv, LostInv

LEMMA OneMoreIsLost ==
    ASSUME PredictorInv, NEW key, Lost' \subseteq Lost \cup {key}, Lost \subseteq Lost', mishaps' = mishaps + 1
    PROVE  LostInv'
  <1>1. IsFiniteSet(Lost) /\ Cardinality(Lost) <= mishaps /\ mishaps \in Nat /\ Cardinality(Lost) \in Nat
    BY PredictorBounds, FS_CardinalityType DEF PredictorInv, PredictorTypeOK, LostInv
  <1>2. ASSUME NEW lost, lost = Lost
        PROVE  /\ IsFiniteSet(lost \cup {key}) /\ Cardinality(lost \cup {key}) \in Nat
               /\ Cardinality(lost \cup {key}) <= Cardinality(lost) + 1
    <2>1. IsFiniteSet(lost) /\ Cardinality(lost) \in Nat
      BY <1>1, <1>2
    <2>2. CASE key \in lost
      <3>1. lost \cup {key} = lost
        BY <2>2
      <3>2. QED
        BY <2>1, <3>1
    <2>3. CASE key \notin lost
      <3>1. IsFiniteSet(lost \cup {key}) /\ Cardinality(lost \cup {key}) = Cardinality(lost) + 1
        BY ONLY <2>1, <2>3, FS_AddElement
      <3>2. QED
        BY <2>1, <3>1
    <2>4. QED
      BY <2>2, <2>3
  <1>3. PICK lost : lost = Lost
    OBVIOUS
  <1>4. PICK more : more = Lost'
    OBVIOUS
  <1>5. more = lost \/ more = lost \cup {key}
    BY <1>3, <1>4
  <1>6. IsFiniteSet(more) /\ Cardinality(more) <= mishaps'
    BY <1>1, <1>2, <1>3, <1>5
  <1>7. QED
    BY <1>4, <1>6 DEF LostInv

\* A step that touches neither the history nor what this process has still to handle.
LEMMA HistoryStays ==
    ASSUME HistoryInv, at \in {"idle", "ticker", "predict", "ack"}, at' \in {"idle", "ticker", "predict", "ack"},
           UNCHANGED <<history, booted, todo, unread>>
    PROVE  HistoryInv'
  <1>1. \A e \in Ids : ToHandle(e) <=> ToHandle(e)'
    BY DEF ToHandle
  <1>2. QED
    BY <1>1 DEF HistoryInv, Ids

\* The predictor goes on to the next ticker.
LEMMA TickerIsPassed ==
    ASSUME PredictorTypeOK, HandInv, PassedInv, at \in {"ticker", "predict"}, NextTicker,
           UNCHANGED <<streamVars, cur, todo>>, claims \subseteq claims',
           Tickers[k] \in Whitelist => Key \in claims'
    PROVE  /\ PassedInv' /\ HandInv'
           /\ k' \in Nat /\ at' \in {"ticker", "ack"} /\ (cur' # 0) = (at' \in {"handle", "ticker", "predict", "ack"})
  <1>1. /\ cur # 0 /\ k \in 1 .. Len(Tickers) /\ k \in Nat /\ events[cur].financial
        /\ Key = <<cur, Tickers[k]>>
    BY TickerInHand
  <1>2. /\ Tickers = events[cur].tickers /\ Len(Tickers) \in Nat
        /\ DOMAIN Tickers = 1 .. Len(Tickers) /\ cur \in pel \ todo /\ cur \in 1 .. unread - 1
    BY <1>1, InHand
  <1>3. UNCHANGED <<events, unread, pel, cur, todo>> /\ Tickers' = Tickers
    BY DEF streamVars, Tickers
  <1>4. \/ k < Len(Tickers) /\ at' = "ticker" /\ k' = k + 1
        \/ k = Len(Tickers) /\ at' = "ack" /\ k' = 0
    BY <1>1, <1>2 DEF NextTicker
  <1>5. HandInv'
    BY <1>1, <1>2, <1>3, <1>4 DEF HandInv
  <1>6. ASSUME NEW e \in 1 .. unread - 1, events[e].financial, NEW i \in DOMAIN events[e].tickers,
               IsPast(e, i)', events[e].tickers[i] \in Whitelist
        PROVE  <<e, events[e].tickers[i]>> \in claims'
    <2>1. CASE e = cur
      <3>1. i \in 1 .. Len(Tickers) /\ (i < k \/ i = k)
        BY <1>1, <1>2, <1>3, <1>4, <1>6, <2>1 DEF IsPast
      <3>2. CASE i = k
        BY <1>1, <1>2, <1>6, <2>1, <3>2
      <3>3. CASE i < k
        BY <1>6, <2>1, <3>3 DEF PassedInv, IsPast
      <3>4. QED
        BY <3>1, <3>2, <3>3
    <2>2. CASE e # cur
      <3>1. IsPast(e, i)
        BY <1>3, <1>6, <2>2 DEF IsPast, Acked
      <3>2. QED
        BY <1>6, <3>1 DEF PassedInv
    <2>3. QED
      BY <2>1, <2>2
  <1>7. PassedInv'
    BY <1>3, <1>6 DEF PassedInv
  <1>8. QED
    BY <1>1, <1>3, <1>4, <1>5, <1>7

\* The event in hand is given up, and stays pending.
LEMMA EventIsLeft ==
    ASSUME PredictorTypeOK, HandInv, PassedInv, at' \in {"idle", "down", "pel"}, cur' = 0,
           UNCHANGED streamVars, claims \subseteq claims'
    PROVE  PassedInv' /\ HandInv'
  <1>1. UNCHANGED <<events, unread, pel>>
    BY DEF streamVars
  <1>2. cur # 0 => cur \in pel
    BY DEF HandInv
  <1>3. ASSUME NEW e \in 1 .. unread - 1, events[e].financial, NEW i \in DOMAIN events[e].tickers,
               IsPast(e, i)', events[e].tickers[i] \in Whitelist
        PROVE  <<e, events[e].tickers[i]>> \in claims'
    <2>1. e # 0 /\ unread \in Nat
      BY PredictorBounds DEF PredictorTypeOK
    <2>2. Acked(e) /\ e # cur
      BY <1>1, <1>2, <1>3, <2>1 DEF IsPast, Acked
    <2>3. IsPast(e, i)
      BY <2>2 DEF IsPast
    <2>4. QED
      BY <1>3, <2>3 DEF PassedInv
  <1>4. PassedInv'
    BY <1>1, <1>3 DEF PassedInv
  <1>5. HandInv'
    BY DEF HandInv
  <1>6. QED
    BY <1>4, <1>5

LEMMA EnrichedPublishedKeeps == ASSUME PredictorInv, EnrichedPublished PROVE PredictorInv'
  <1>1. PICK x \in Inputs : events' = Append(events, x)
    BY DEF EnrichedPublished
  <1>2. /\ events' \in Seq(Inputs) /\ Len(events) \in Nat /\ Len(events') = Len(events) + 1
        /\ \A i \in 1 .. Len(events) : events'[i] = events[i]
    BY <1>1, OneMoreEvent DEF PredictorInv, PredictorTypeOK
  <1>3. UNCHANGED <<unread, pel, at, cur, k, todo, claims, history, booted, outputs, gone, failed, cut, erred, mishaps>>
    BY DEF EnrichedPublished
  <1>4. Len(events') <= MaxEvents
    BY <1>2, PredictorBounds DEF EnrichedPublished
  <1>5. unread \in Nat /\ \A e \in 1 .. unread - 1 : events'[e] = events[e]
    BY <1>2 DEF PredictorInv, PredictorTypeOK
  <1>6. PredictorTypeOK'
    <2>1. /\ cur' \in 0 .. Len(events') /\ unread' \in 1 .. Len(events') + 1
          /\ booted' \in 0 .. Len(events')
      BY <1>2, <1>3 DEF PredictorInv, PredictorTypeOK
    <2>2. QED
      BY <1>2, <1>3, <1>4, <2>1 DEF PredictorInv, PredictorTypeOK, ClaimKeys
  <1>7. at \in {"ticker", "predict", "ack", "handle"} => Tickers' = Tickers /\ cur \in 1 .. unread - 1
    <2>1. at \in {"ticker", "predict", "ack", "handle"} => cur # 0
      BY DEF PredictorInv, PredictorTypeOK
    <2>2. QED
      BY <1>3, <1>5, <2>1, InHand DEF PredictorInv, Tickers
  <1>8. at = "predict" => Key' = Key
    BY <1>3, <1>7 DEF Key
  <1>9. HandInv'
    BY <1>3, <1>5, <1>7, <1>8 DEF PredictorInv, HandInv
  <1>10. PassedInv'
    BY <1>3, <1>5 DEF PredictorInv, PassedInv, IsPast, Acked
  <1>11. AnswerInv' /\ HistoryInv'
    BY <1>3, <1>8 DEF PredictorInv, AnswerInv, Lost, HistoryInv, ToHandle, ClaimKeys, Ids
  <1>12. LostInv'
    BY <1>3, LostStays
  <1>13. QED
    BY <1>6, <1>9, <1>10, <1>11, <1>12 DEF PredictorInv

LEMMA BootstrapKeeps == ASSUME PredictorInv, Bootstrap PROVE PredictorInv'
  <1>1. /\ at = "down" /\ at' = "pel" /\ booted' = Len(events)
        /\ UNCHANGED <<events, unread, pel, cur, k, todo, claims, outputs, gone, failed, cut, erred>>
    BY DEF Bootstrap, streamVars
  <1>2. cur = 0 /\ Len(events) \in Nat
    BY <1>1 DEF PredictorInv, PredictorTypeOK
  <1>3. history' \in [Ids -> Nat] /\ \A e \in Ids : history'[e] <= IF e <= booted' THEN 1 ELSE 0
    BY <1>1, <1>2, PredictorBounds DEF Bootstrap, Ids
  <1>4. mishaps' \in 0 .. MaxMishaps
    BY PredictorBounds DEF PredictorInv, PredictorTypeOK, Bootstrap, Fine, Mishap
  <1>5. PredictorTypeOK'
    BY <1>1, <1>2, <1>3, <1>4 DEF PredictorInv, PredictorTypeOK
  <1>6. PassedInv' /\ HandInv'
    BY <1>1, <1>2, EventIsLeft DEF PredictorInv, streamVars
  <1>7. AnswerInv'
    BY <1>1 DEF PredictorInv, AnswerInv, Lost
  <1>8. HistoryInv'
    BY <1>2, <1>3, <1>1, PredictorBounds DEF HistoryInv, ToHandle, Ids
  <1>9. LostInv'
    BY <1>1, LostStays DEF Bootstrap, Fine, Mishap
  <1>10. QED
    BY <1>5, <1>6, <1>7, <1>8, <1>9 DEF PredictorInv

LEMMA RecoverPendingKeeps == ASSUME PredictorInv, RecoverPending PROVE PredictorInv'
  <1>1. /\ at = "pel" /\ at' = "idle" /\ todo' \subseteq pel
        /\ UNCHANGED <<events, unread, pel, cur, k, claims, history, booted, outputs, gone, failed, cut, erred>>
    BY DEF RecoverPending, streamVars
  <1>2. cur = 0
    BY <1>1 DEF PredictorInv, PredictorTypeOK
  <1>3. mishaps' \in 0 .. MaxMishaps
    BY PredictorBounds DEF PredictorInv, PredictorTypeOK, RecoverPending, Fine, Mishap
  <1>4. PredictorTypeOK'
    BY <1>1, <1>2, <1>3 DEF PredictorInv, PredictorTypeOK
  <1>5. PassedInv' /\ HandInv'
    BY <1>1, <1>2, EventIsLeft DEF PredictorInv, streamVars
  <1>6. AnswerInv'
    BY <1>1 DEF PredictorInv, AnswerInv, Lost
  <1>7. HistoryInv'
    <2>1. \A e \in Ids : ToHandle(e) /\ history[e] \in Nat
      BY <1>1 DEF ToHandle, PredictorInv, PredictorTypeOK
    <2>2. QED
      BY <1>1, <2>1 DEF PredictorInv, HistoryInv
  <1>8. LostInv'
    BY <1>1, LostStays DEF RecoverPending, Fine, Mishap
  <1>9. QED
    BY <1>4, <1>5, <1>6, <1>7, <1>8 DEF PredictorInv

LEMMA NextEventKeeps == ASSUME PredictorInv, NextEvent PROVE PredictorInv'
  <1>1. /\ at = "idle" /\ at' = "handle" /\ cur = 0
        /\ UNCHANGED <<events, k, claims, history, booted, outputs, gone, failed, cut, erred, mishaps>>
    BY DEF NextEvent, Take, PredictorInv, PredictorTypeOK
  <1>2. /\ pel \subseteq 1 .. unread - 1 /\ todo \subseteq pel /\ unread \in 1 .. Len(events) + 1
        /\ Len(events) \in Nat /\ unread \in Nat
    BY DEF PredictorInv, PredictorTypeOK
  <1>3. /\ cur' \in pel' \ todo' /\ todo' \subseteq pel' /\ pel' \subseteq 1 .. unread' - 1
        /\ unread' \in 1 .. Len(events) + 1
        /\ \/ unread' = unread /\ pel' = pel /\ cur' \in todo /\ todo' = todo \ {cur'}
           \/ unread' = unread + 1 /\ pel' = pel \cup {unread} /\ cur' = unread /\ todo' = todo
    <2>1. CASE todo # {}
      <3>1. Min(todo) \in todo
        BY <1>2, <2>1, MinOf
      <3>2. QED
        BY <1>2, <2>1, <3>1 DEF NextEvent, Take
    <2>2. CASE todo = {}
      <3>1. /\ unread <= Len(events) /\ cur' = unread /\ unread' = unread + 1
            /\ pel' = pel \cup {unread} /\ todo' = todo
        BY <2>2 DEF NextEvent, Take
      <3>2. QED
        BY <1>2, <2>2, <3>1
    <2>3. QED
      BY <2>1, <2>2
  <1>4. cur' \in 0 .. Len(events) /\ cur' # 0 /\ cur' \in 1 .. unread' - 1
    <2>1. \A len \in Nat : \A n \in 1 .. len + 1 : \A e \in 1 .. n - 1 : e \in 0 .. len /\ e # 0
      OBVIOUS
    <2>2. cur' \in 1 .. unread' - 1
      BY <1>3
    <2>3. QED
      BY <1>2, <1>3, <2>1, <2>2
  <1>5. PredictorTypeOK'
    BY <1>1, <1>3, <1>4 DEF PredictorInv, PredictorTypeOK
  <1>6. HandInv'
    BY <1>1, <1>3 DEF HandInv
  <1>7. PassedInv'
    <2>1. ASSUME NEW e \in 1 .. unread' - 1, NEW i, IsPast(e, i)' PROVE e \in 1 .. unread - 1 /\ IsPast(e, i)
      <3>1. e # cur' /\ e < unread' /\ e \notin pel'
        BY <1>1, <2>1 DEF IsPast, Acked
      <3>2. e < unread /\ e \notin pel /\ e \in 1 .. unread - 1
        BY <1>2, <1>3, <2>1, <3>1
      <3>3. QED
        BY <1>1, <1>2, <3>2 DEF IsPast, Acked
    <2>2. QED
      BY <1>1, <2>1 DEF PredictorInv, PassedInv
  <1>8. AnswerInv'
    BY <1>1 DEF PredictorInv, AnswerInv, Lost
  <1>9. HistoryInv'
    <2>1. ASSUME NEW e \in Ids, ToHandle(e)' PROVE ToHandle(e)
      BY <1>1, <1>2, <1>3, <2>1, PredictorBounds DEF ToHandle, Ids
    <2>2. \A e \in Ids : history[e] \in Nat
      BY DEF PredictorInv, PredictorTypeOK
    <2>3. QED
      BY <1>1, <2>1, <2>2, PredictorBounds DEF PredictorInv, PredictorTypeOK, HistoryInv, Ids
  <1>10. LostInv'
    BY <1>1, LostStays
  <1>11. QED
    BY <1>5, <1>6, <1>7, <1>8, <1>9, <1>10 DEF PredictorInv

LEMMA HandleKeeps == ASSUME PredictorInv, Handle PROVE PredictorInv'
  <1>1. /\ at = "handle" /\ cur # 0
        /\ history' = [history EXCEPT ![cur] = @ + 1]
        /\ UNCHANGED <<events, unread, pel, cur, todo, claims, booted, outputs, gone, failed, cut, erred, mishaps>>
    BY DEF Handle, streamVars, PredictorInv, PredictorTypeOK
  <1>2. /\ cur \in Ids /\ cur \in 1 .. unread - 1 /\ cur \in pel /\ cur \notin todo
        /\ Tickers = events[cur].tickers /\ Tickers \in Seq(Whitelist \cup {Off})
        /\ Len(Tickers) \in Nat /\ DOMAIN Tickers = 1 .. Len(Tickers)
    BY <1>1, InHand DEF PredictorInv
  <1>3. \/ events[cur].financial /\ Tickers # <<>> /\ at' = "ticker" /\ k' = 1
        \/ (~events[cur].financial \/ Tickers = <<>>) /\ at' = "ack" /\ k' = 0
    BY DEF Handle
  <1>4. Tickers # <<>> => 1 \in 1 .. Len(Tickers)
    BY <1>2
  <1>5. Tickers' = Tickers
    BY <1>1 DEF Tickers
  <1>6. history' \in [Ids -> Nat]
    BY <1>1, <1>2 DEF PredictorInv, PredictorTypeOK
  <1>7. PredictorTypeOK'
    <2>1. (cur' # 0) = (at' \in {"handle", "ticker", "predict", "ack"}) /\ k' \in Nat
          /\ at' \in {"down", "pel", "idle", "handle", "ticker", "predict", "ack"}
      BY <1>1, <1>3
    <2>2. QED
      BY <1>1, <1>6, <2>1 DEF PredictorInv, PredictorTypeOK
  <1>8. HandInv'
    BY <1>1, <1>2, <1>3, <1>4, <1>5 DEF HandInv
  <1>9. PassedInv'
    <2>1. ASSUME NEW e \in 1 .. unread - 1, events[e].financial, NEW i \in DOMAIN events[e].tickers, IsPast(e, i)'
          PROVE  IsPast(e, i)
      <3>1. CASE e = cur
        <4>1. i \in 1 .. Len(Tickers) /\ Tickers # <<>>
          BY <1>2, <2>1, <3>1
        <4>2. at' = "ticker" /\ k' = 1 /\ ~(i < 1)
          BY <1>2, <1>3, <2>1, <3>1, <4>1
        <4>3. QED
          BY <1>1, <2>1, <3>1, <4>2 DEF IsPast
      <3>2. CASE e # cur
        BY <1>1, <2>1, <3>2 DEF IsPast, Acked
      <3>3. QED
        BY <3>1, <3>2
    <2>2. QED
      BY <1>1, <2>1 DEF PredictorInv, PassedInv
  <1>10. AnswerInv'
    BY <1>1, <1>3 DEF PredictorInv, AnswerInv, Lost
  <1>11. HistoryInv'
    <2>1. ASSUME NEW e \in Ids
          PROVE  history'[e] + (IF ToHandle(e)' THEN 1 ELSE 0) <= IF e <= booted' THEN 2 ELSE 1
      <3>1. CASE e = cur
        <4>1. ToHandle(e) /\ ~ToHandle(e)'
          BY <1>1, <1>2, <1>3, <3>1, PredictorBounds DEF ToHandle, PredictorInv, PredictorTypeOK, Ids
        <4>2. history'[e] = history[e] + 1 /\ history[e] \in Nat
          BY <1>1, <1>2, <3>1 DEF PredictorInv, PredictorTypeOK
        <4>3. QED
          BY <1>1, <4>1, <4>2 DEF PredictorInv, HistoryInv
      <3>2. CASE e # cur
        <4>1. ToHandle(e) <=> ToHandle(e)'
          BY <1>1, <1>3, <3>2 DEF ToHandle
        <4>2. history'[e] = history[e]
          BY <1>1, <3>2 DEF PredictorInv, PredictorTypeOK
        <4>3. QED
          BY <1>1, <4>1, <4>2 DEF PredictorInv, HistoryInv
      <3>3. QED
        BY <3>1, <3>2
    <2>2. QED
      BY <2>1 DEF HistoryInv
  <1>12. LostInv'
    BY <1>1, LostStays
  <1>13. QED
    BY <1>7, <1>8, <1>9, <1>10, <1>11, <1>12 DEF PredictorInv

LEMMA OffWhitelistKeeps == ASSUME PredictorInv, OffWhitelist PROVE PredictorInv'
  <1>1. /\ at = "ticker" /\ Tickers[k] \notin Whitelist /\ NextTicker
        /\ UNCHANGED <<streamVars, cur, todo, claims, history, booted, outputs, gone, failed, cut, erred, mishaps>>
    BY DEF OffWhitelist
  <1>2. /\ PassedInv' /\ HandInv' /\ k' \in Nat /\ at' \in {"ticker", "ack"}
        /\ (cur' # 0) = (at' \in {"handle", "ticker", "predict", "ack"})
    BY <1>1, TickerIsPassed DEF PredictorInv
  <1>3. PredictorTypeOK'
    BY <1>1, <1>2 DEF PredictorInv, PredictorTypeOK, streamVars
  <1>4. AnswerInv'
    BY <1>1, <1>2 DEF PredictorInv, AnswerInv, Lost
  <1>5. HistoryInv'
    BY <1>1, <1>2, HistoryStays DEF PredictorInv, streamVars
  <1>6. LostInv'
    BY <1>1, LostStays
  <1>7. QED
    BY <1>2, <1>3, <1>4, <1>5, <1>6 DEF PredictorInv

\* A handler that raises: a ticker that has its claim by now and no answer is among the lost.
LEMMA FailsKeeps ==
    ASSUME PredictorInv, at \in {"ticker", "predict"}, Fails, UNCHANGED <<streamVars, todo, history, booted, gone>>,
           claims \subseteq claims', claims' \subseteq claims \cup {Key}, claims' \subseteq ClaimKeys,
           outputs' \in [ClaimKeys -> Nat], cut' \subseteq claims', erred' \subseteq claims',
           Lost \subseteq Lost', Lost' \subseteq Lost \cup {Key},
           (Key \in claims' /\ (at = "predict" \/ Key \notin claims)) => (outputs'[Key] = 1 \/ Key \in Lost'),
           \A key \in ClaimKeys : /\ outputs'[key] <= 1 /\ outputs[key] <= outputs'[key]
                                  /\ outputs'[key] = 1 => key \in claims'
    PROVE  PredictorInv'
  <1>1. /\ at' = "idle" /\ cur' = 0 /\ k' = 0 /\ failed' = failed \cup {cur}
        /\ UNCHANGED <<events, unread, pel, todo, history, booted, gone>> /\ Mishap
    BY DEF Fails, streamVars
  <1>2. PassedInv' /\ HandInv'
    BY <1>1, EventIsLeft DEF PredictorInv, streamVars
  <1>3. mishaps' \in 0 .. MaxMishaps
    BY <1>1, PredictorBounds DEF PredictorInv, PredictorTypeOK, Mishap
  <1>4. PredictorTypeOK'
    <2>1. 0 \in 0 .. Len(events) /\ 0 \in Nat
      BY DEF PredictorInv, PredictorTypeOK
    <2>2. gone \subseteq claims'
      BY DEF PredictorInv, PredictorTypeOK
    <2>3. QED
      BY <1>1, <1>3, <2>1, <2>2 DEF PredictorInv, PredictorTypeOK
  <1>5. AnswerInv'
    <2>2. ASSUME NEW key \in ClaimKeys, key \in claims'
          PROVE  outputs'[key] = 1 \/ key \in gone' \cup Lost'
      <3>1. CASE key = Key /\ (at = "predict" \/ Key \notin claims)
        BY <2>2, <3>1
      <3>2. CASE key # Key \/ (at # "predict" /\ Key \in claims)
        <4>1. outputs[key] = 1 \/ key \in gone \cup Lost
          BY <2>2, <3>2 DEF PredictorInv, AnswerInv
        <4>2. outputs'[key] \in Nat /\ outputs[key] \in Nat
          BY DEF PredictorInv, PredictorTypeOK
        <4>3. QED
          BY <1>1, <4>1, <4>2
      <3>3. QED
        BY <3>1, <3>2
    <2>3. QED
      BY <2>2 DEF AnswerInv
  <1>6. HistoryInv'
    BY <1>1, HistoryStays DEF PredictorInv
  <1>7. LostInv'
    BY <1>1, OneMoreIsLost DEF Mishap
  <1>8. QED
    BY <1>2, <1>4, <1>5, <1>6, <1>7 DEF PredictorInv

LEMMA ClaimTickerKeeps == ASSUME PredictorInv, ClaimTicker PROVE PredictorInv'
  <1>1. /\ at = "ticker" /\ Tickers[k] \in Whitelist
        /\ UNCHANGED <<streamVars, todo, history, booted, outputs, gone, erred>>
    BY DEF ClaimTicker
  <1>2. Key \in ClaimKeys
    BY <1>1, TickerInHand DEF PredictorInv
  <1>3. CASE Key \notin claims /\ claims' = claims \cup {Key} /\ at' = "predict" /\ UNCHANGED <<cur, k, failed, cut>> /\ Fine
    <2>1. UNCHANGED <<events, unread, pel, cur, k, failed, cut, erred, mishaps, todo, history, booted, outputs, gone>>
      BY <1>1, <1>3 DEF streamVars, Fine
    <2>2. Key' = Key /\ Tickers' = Tickers
      BY <2>1 DEF Key, Tickers
    <2>3. cur # 0 /\ k \in 1 .. Len(Tickers) /\ events[cur].financial
      BY <1>1, TickerInHand DEF PredictorInv
    <2>4. outputs[Key] = 0 /\ Key \notin gone
      BY <1>2, <1>3 DEF PredictorInv, AnswerInv, PredictorTypeOK
    <2>5. PredictorTypeOK'
      BY <1>2, <1>3, <2>1, <2>3 DEF PredictorInv, PredictorTypeOK
    <2>6. HandInv'
      BY <1>1, <1>3, <2>1, <2>2, <2>3, <2>4 DEF PredictorInv, HandInv
    <2>7. PassedInv'
      <3>1. \A e, i : IsPast(e, i)' <=> IsPast(e, i)
        BY <1>1, <1>3, <2>1 DEF IsPast, Acked
      <3>2. QED
        BY <1>3, <2>1, <3>1 DEF PredictorInv, PassedInv
    <2>8. AnswerInv'
      BY <1>1, <1>3, <2>1, <2>2 DEF PredictorInv, AnswerInv, Lost
    <2>9. HistoryInv'
      BY <1>1, <1>3, <2>1, HistoryStays DEF PredictorInv
    <2>10. LostInv'
      BY <2>1, LostStays
    <2>11. QED
      BY <2>5, <2>6, <2>7, <2>8, <2>9, <2>10 DEF PredictorInv
  <1>4. CASE Key \in claims /\ NextTicker /\ UNCHANGED <<claims, cur, failed, cut>> /\ Fine
    <2>1. /\ PassedInv' /\ HandInv' /\ k' \in Nat /\ at' \in {"ticker", "ack"}
          /\ (cur' # 0) = (at' \in {"handle", "ticker", "predict", "ack"})
      BY <1>1, <1>4, TickerIsPassed DEF PredictorInv
    <2>2. PredictorTypeOK'
      BY <1>1, <1>4, <2>1 DEF PredictorInv, PredictorTypeOK, streamVars, Fine
    <2>3. AnswerInv'
      BY <1>1, <1>4, <2>1 DEF PredictorInv, AnswerInv, Lost
    <2>4. HistoryInv'
      BY <1>1, <2>1, HistoryStays DEF PredictorInv, streamVars
    <2>5. LostInv'
      BY <1>1, <1>4, LostStays DEF Fine
    <2>6. QED
      BY <2>1, <2>2, <2>3, <2>4, <2>5 DEF PredictorInv
  <1>5. CASE claims' \in {claims, claims \cup {Key}} /\ cut' = cut \cup (claims' \ claims) /\ Fails
    <2>1. claims \subseteq claims' /\ claims' \subseteq claims \cup {Key} /\ claims' \subseteq ClaimKeys
      BY <1>2, <1>5 DEF PredictorInv, PredictorTypeOK
    <2>2. outputs' \in [ClaimKeys -> Nat]
      BY <1>1 DEF PredictorInv, PredictorTypeOK
    <2>3. \A key \in ClaimKeys : /\ outputs'[key] <= 1 /\ outputs[key] <= outputs'[key]
                                 /\ outputs'[key] = 1 => key \in claims'
      BY <1>1, <2>1, <2>2 DEF PredictorInv, AnswerInv
    <2>4. /\ cut' \subseteq claims' /\ erred' \subseteq claims' /\ Lost \subseteq Lost' /\ Lost' \subseteq Lost \cup {Key}
          /\ (Key \in claims' /\ Key \notin claims) => Key \in Lost'
      BY <1>1, <1>5, <2>1 DEF PredictorInv, PredictorTypeOK, Lost
    <2>5. QED
      BY <1>1, <1>5, <2>1, <2>2, <2>3, <2>4, FailsKeeps
  <1>6. QED
    BY <1>3, <1>4, <1>5 DEF ClaimTicker

LEMMA StaleCandlesKeeps == ASSUME PredictorInv, StaleCandles PROVE PredictorInv'
  <1>1. /\ at = "predict" /\ NextTicker /\ gone' = gone \cup {Key}
        /\ UNCHANGED <<streamVars, cur, todo, claims, history, booted, outputs, failed, cut, erred, mishaps>>
    BY DEF StaleCandles
  <1>2. Key \in claims
    BY <1>1, TickerInHand DEF PredictorInv
  <1>3. /\ PassedInv' /\ HandInv' /\ k' \in Nat /\ at' \in {"ticker", "ack"}
        /\ (cur' # 0) = (at' \in {"handle", "ticker", "predict", "ack"})
    BY <1>1, <1>2, TickerIsPassed DEF PredictorInv
  <1>4. PredictorTypeOK'
    BY <1>1, <1>2, <1>3 DEF PredictorInv, PredictorTypeOK, streamVars
  <1>5. AnswerInv'
    BY <1>1, <1>3 DEF PredictorInv, AnswerInv, Lost
  <1>6. HistoryInv'
    BY <1>1, <1>3, HistoryStays DEF PredictorInv, streamVars
  <1>7. LostInv'
    BY <1>1, LostStays
  <1>8. QED
    BY <1>3, <1>4, <1>5, <1>6, <1>7 DEF PredictorInv

LEMMA InferenceFailsKeeps == ASSUME PredictorInv, InferenceFails PROVE PredictorInv'
  <1>1. /\ at = "predict" /\ Fails /\ erred' = erred \cup {Key}
        /\ UNCHANGED <<streamVars, todo, claims, history, booted, outputs, gone, cut>>
    BY DEF InferenceFails
  <1>2. Key \in claims
    BY <1>1, TickerInHand DEF PredictorInv
  <1>3. claims' \subseteq claims \cup {Key} /\ claims' \subseteq ClaimKeys /\ outputs' \in [ClaimKeys -> Nat]
    BY <1>1 DEF PredictorInv, PredictorTypeOK
  <1>4. \A key \in ClaimKeys : /\ outputs'[key] <= 1 /\ outputs[key] <= outputs'[key]
                               /\ outputs'[key] = 1 => key \in claims'
    BY <1>1, <1>3 DEF PredictorInv, AnswerInv
  <1>5. /\ cut' \subseteq claims' /\ erred' \subseteq claims' /\ Lost \subseteq Lost' /\ Lost' \subseteq Lost \cup {Key}
        /\ Key \in Lost'
    BY <1>1, <1>2 DEF PredictorInv, PredictorTypeOK, Lost
  <1>6. QED
    BY <1>1, <1>3, <1>4, <1>5, FailsKeeps

LEMMA PublishKeeps == ASSUME PredictorInv, Publish PROVE PredictorInv'
  <1>1. at = "predict" /\ UNCHANGED <<streamVars, todo, claims, history, booted, gone, erred>>
    BY DEF Publish
  <1>2. Key \in claims /\ Key \in ClaimKeys /\ outputs[Key] = 0 /\ Tickers[k] \in Whitelist
    BY <1>1, TickerInHand DEF PredictorInv
  <1>3. claims' \subseteq claims \cup {Key} /\ claims' \subseteq ClaimKeys /\ claims \subseteq claims'
    BY <1>1 DEF PredictorInv, PredictorTypeOK
  <1>4. CASE outputs' = [outputs EXCEPT ![Key] = @ + 1] /\ UNCHANGED cut
    <2>1. /\ outputs' \in [ClaimKeys -> Nat] /\ outputs'[Key] = 1
          /\ \A key \in ClaimKeys : key # Key => outputs'[key] = outputs[key]
      BY <1>2, <1>4 DEF PredictorInv, PredictorTypeOK
    <2>2. \A key \in ClaimKeys : outputs[key] \in Nat
      BY DEF PredictorInv, PredictorTypeOK
    <2>3. \A key \in ClaimKeys : /\ outputs'[key] <= 1 /\ outputs[key] <= outputs'[key]
                                 /\ outputs'[key] = 1 => key \in claims'
      <3>1. ASSUME NEW key \in ClaimKeys
            PROVE  /\ outputs'[key] <= 1 /\ outputs[key] <= outputs'[key]
                   /\ outputs'[key] = 1 => key \in claims'
        <4>1. CASE key = Key
          BY <1>1, <1>2, <2>1, <4>1
        <4>2. CASE key # Key
          BY <1>1, <2>1, <2>2, <4>2 DEF PredictorInv, AnswerInv
        <4>3. QED
          BY <4>1, <4>2
      <3>2. QED
        BY <3>1
    <2>4. CASE NextTicker /\ UNCHANGED <<cur, failed>> /\ Fine
      <3>1. /\ PassedInv' /\ HandInv' /\ k' \in Nat /\ at' \in {"ticker", "ack"}
            /\ (cur' # 0) = (at' \in {"handle", "ticker", "predict", "ack"})
        BY <1>1, <1>2, <2>4, TickerIsPassed DEF PredictorInv
      <3>2. PredictorTypeOK'
        BY <1>1, <1>4, <2>1, <2>4, <3>1 DEF PredictorInv, PredictorTypeOK, streamVars, Fine
      <3>3. AnswerInv'
        <4>1. ASSUME NEW key \in ClaimKeys, key \in claims
              PROVE  outputs'[key] = 1 \/ key \in gone \cup Lost
          <5>1. CASE key = Key
            BY <2>1, <5>1
          <5>2. CASE key # Key
            BY <2>1, <4>1, <5>2 DEF PredictorInv, AnswerInv
          <5>3. QED
            BY <5>1, <5>2
        <4>2. QED
          BY <1>1, <1>4, <2>3, <2>4, <4>1 DEF AnswerInv, Lost
      <3>4. HistoryInv'
        BY <1>1, <3>1, HistoryStays DEF PredictorInv, streamVars
      <3>5. LostInv'
        BY <1>1, <1>4, <2>4, LostStays DEF Fine
      <3>6. QED
        BY <3>1, <3>2, <3>3, <3>4, <3>5 DEF PredictorInv
    <2>5. CASE Fails
      <3>1. cut' \subseteq claims' /\ erred' \subseteq claims' /\ Lost' = Lost
        BY <1>1, <1>4 DEF PredictorInv, PredictorTypeOK, Lost
      <3>2. QED
        BY <1>1, <1>3, <2>1, <2>3, <2>5, <3>1, FailsKeeps
    <2>6. CASE ~((NextTicker /\ UNCHANGED <<cur, failed>> /\ Fine) \/ Fails)
      <3>1. Fails
        BY <2>6 DEF Publish
      <3>2. QED
        BY <2>5, <3>1
    <2>7. QED
      BY <1>4, <2>4, <2>5, <2>6
  <1>5. CASE UNCHANGED outputs /\ cut' = cut \cup {Key} /\ Fails
    <2>1. outputs' \in [ClaimKeys -> Nat]
      BY <1>5 DEF PredictorInv, PredictorTypeOK
    <2>2. \A key \in ClaimKeys : /\ outputs'[key] <= 1 /\ outputs[key] <= outputs'[key]
                                 /\ outputs'[key] = 1 => key \in claims'
      BY <1>1, <1>5, <2>1 DEF PredictorInv, AnswerInv
    <2>3. /\ cut' \subseteq claims' /\ erred' \subseteq claims' /\ Lost \subseteq Lost' /\ Lost' \subseteq Lost \cup {Key}
          /\ Key \in Lost'
      BY <1>1, <1>2, <1>5 DEF PredictorInv, PredictorTypeOK, Lost
    <2>4. QED
      BY <1>1, <1>3, <1>5, <2>1, <2>2, <2>3, FailsKeeps
  <1>6. QED
    BY <1>4, <1>5 DEF Publish

LEMMA AckEventKeeps == ASSUME PredictorInv, AckEvent PROVE PredictorInv'
  <1>1. /\ at = "ack" /\ cur # 0 /\ at' = "idle" /\ cur' = 0
        /\ UNCHANGED <<events, unread, k, todo, claims, history, booted, outputs, gone, cut, erred>>
        /\ pel' \in {pel, pel \ {cur}} /\ failed \subseteq failed'
    BY DEF AckEvent, PredictorInv, PredictorTypeOK
  <1>2. cur \in pel /\ cur \notin todo
    BY <1>1, InHand DEF PredictorInv
  <1>3. mishaps' \in 0 .. MaxMishaps
    BY PredictorBounds DEF PredictorInv, PredictorTypeOK, AckEvent, Fine, Mishap
  <1>4. PredictorTypeOK'
    <2>1. 0 \in 0 .. Len(events)
      BY DEF PredictorInv, PredictorTypeOK
    <2>2. QED
      BY <1>1, <1>2, <1>3, <2>1 DEF PredictorInv, PredictorTypeOK
  <1>5. HandInv'
    BY <1>1 DEF HandInv
  <1>6. PassedInv'
    <2>1. ASSUME NEW e \in 1 .. unread - 1, NEW i, IsPast(e, i)' PROVE IsPast(e, i)
      <3>1. e # 0 /\ unread \in Nat
        BY PredictorBounds DEF PredictorInv, PredictorTypeOK
      <3>2. e < unread /\ e \notin pel'
        BY <1>1, <2>1, <3>1 DEF IsPast, Acked
      <3>3. e = cur \/ e \notin pel
        BY <1>1, <3>2
      <3>4. QED
        BY <1>1, <3>2, <3>3 DEF IsPast, Acked
    <2>2. QED
      BY <1>1, <2>1 DEF PredictorInv, PassedInv
  <1>7. AnswerInv'
    BY <1>1 DEF PredictorInv, AnswerInv, Lost
  <1>8. HistoryInv'
    BY <1>1, HistoryStays DEF PredictorInv
  <1>9. LostInv'
    BY <1>1, LostStays DEF AckEvent, Fine, Mishap
  <1>10. QED
    BY <1>4, <1>5, <1>6, <1>7, <1>8, <1>9 DEF PredictorInv

LEMMA PredictorDiesKeeps == ASSUME PredictorInv, PredictorDies PROVE PredictorInv'
  <1>1. /\ at' = "down" /\ cur' = 0 /\ k' = 0 /\ todo' = {} /\ booted' = 0
        /\ history' = [e \in Ids |-> 0]
        /\ failed' = failed \cup (IF cur = 0 THEN {} ELSE {cur})
        /\ cut' = cut \cup (IF at = "predict" THEN {Key} ELSE {})
        /\ UNCHANGED <<events, unread, pel, claims, outputs, gone, erred>> /\ Mishap
    BY DEF PredictorDies, streamVars
  <1>2. mishaps' \in 0 .. MaxMishaps
    BY <1>1, PredictorBounds DEF PredictorInv, PredictorTypeOK, Mishap
  <1>3. PredictorTypeOK'
    <2>1. 0 \in 0 .. Len(events) /\ 0 \in Nat
      BY DEF PredictorInv, PredictorTypeOK
    <2>2. at = "predict" => Key \in claims
      BY DEF PredictorInv, HandInv
    <2>3. QED
      BY <1>1, <1>2, <2>1, <2>2 DEF PredictorInv, PredictorTypeOK
  <1>4. PassedInv' /\ HandInv'
    BY <1>1, EventIsLeft DEF PredictorInv, streamVars
  <1>5. AnswerInv'
    <2>1. Lost \subseteq Lost' /\ (at = "predict" => Key \in Lost')
      BY <1>1 DEF Lost
    <2>2. QED
      BY <1>1, <2>1 DEF PredictorInv, AnswerInv
  <1>6. HistoryInv'
    BY <1>1, PredictorBounds DEF HistoryInv, ToHandle, Ids
  <1>7. LostInv'
    <2>1. Lost \subseteq Lost' /\ Lost' \subseteq Lost \cup {Key}
      BY <1>1 DEF Lost
    <2>2. QED
      BY <1>1, <2>1, OneMoreIsLost DEF Mishap
  <1>8. QED
    BY <1>3, <1>4, <1>5, <1>6, <1>7 DEF PredictorInv

LEMMA PredictorInduction == PredictorInv /\ [PredictorNext]_predictorVars => PredictorInv'
  <1> SUFFICES ASSUME PredictorInv, [PredictorNext]_predictorVars PROVE PredictorInv'
    OBVIOUS
  <1>1. CASE UNCHANGED predictorVars
    <2>1. PredictorTypeOK' /\ HandInv'
      BY <1>1 DEF predictorVars, streamVars, PredictorInv, PredictorTypeOK, HandInv, Tickers, Key
    <2>2. PassedInv' /\ AnswerInv'
      BY <1>1 DEF predictorVars, streamVars, PredictorInv, PassedInv, AnswerInv, Lost, IsPast, Acked, Tickers, Key
    <2>3. HistoryInv'
      BY <1>1 DEF predictorVars, streamVars, PredictorInv, HistoryInv, ToHandle
    <2>4. LostInv'
      BY <1>1, LostStays DEF predictorVars
    <2>5. QED
      BY <2>1, <2>2, <2>3, <2>4 DEF PredictorInv
  <1>2. CASE PredictorNext
    BY <1>2, EnrichedPublishedKeeps, BootstrapKeeps, RecoverPendingKeeps, NextEventKeeps, HandleKeeps,
       OffWhitelistKeeps, ClaimTickerKeeps, StaleCandlesKeeps, InferenceFailsKeeps, PublishKeeps, AckEventKeeps, PredictorDiesKeeps
       DEF PredictorNext, Consumer
  <1>3. QED
    BY <1>1, <1>2

\* What the invariant says of every ticker of an event.
LEMMA TickersFollow == PredictorInv => TickersAreAccountedFor
  <1> SUFFICES ASSUME PredictorInv PROVE TickersAreAccountedFor
    OBVIOUS
  <1>1. PredictedOnce
    BY DEF PredictorInv, AnswerInv, PredictedOnce
  <1>2. AckedIsAnswered
    <2> SUFFICES ASSUME NEW key \in ClaimKeys, Acked(key[1]), events[key[1]].financial,
                        key[2] \in ToSet(events[key[1]].tickers)
                 PROVE  /\ key \in claims
                        /\ outputs[key] = 1 \/ key \in gone \cup Lost
      BY DEF AckedIsAnswered, PredictorInv, LostInv
    <2>1. key = <<key[1], key[2]>> /\ key[1] \in Ids /\ key[2] \in Whitelist
      BY DEF ClaimKeys
    <2>2. key[1] \in 1 .. unread - 1 /\ key[1] # 0
      BY <2>1, PredictorBounds DEF Acked, Ids, PredictorInv, PredictorTypeOK
    <2>3. key[1] # cur
      BY <2>2, InHand DEF PredictorInv, Acked
    <2>4. PICK i \in DOMAIN events[key[1]].tickers : events[key[1]].tickers[i] = key[2]
      BY DEF ToSet
    <2>5. IsPast(key[1], i)
      BY <2>3 DEF IsPast
    <2>6. key \in claims
      BY <2>1, <2>2, <2>4, <2>5 DEF PredictorInv, PassedInv
    <2>7. Key[1] = cur
      BY DEF Key
    <2>8. QED
      BY <2>3, <2>6, <2>7 DEF PredictorInv, AnswerInv
  <1>3. HistoryCountsOnce
    BY PredictorBounds DEF PredictorInv, PredictorTypeOK, HistoryInv, HistoryCountsOnce
  <1>4. QED
    BY <1>1, <1>2, <1>3 DEF TickersAreAccountedFor

-------------------------------------------------------------------------------
(* The order client. *)

LEMMA RealBounds == MaxSignals \in Nat /\ PerMinute \in Nat /\ MaxTime \in Nat /\ MaxBreaks \in Nat
  BY RealAssumption

LEMMA OrderNames ==
    /\ \A s \in Signals : Entry(s) \in Orders /\ Oco(s) \in Orders /\ s # 0
    /\ \A s, t \in Signals : Entry(s) # Oco(t) /\ (Entry(s) = Entry(t) => s = t)
    /\ \A s : Entry(s).what = "entry" /\ Entry(s).of = s
  BY RealBounds DEF Entry, Oco, Orders, Signals

LEMMA RealStarts == RealInit => RealInv
  <1> SUFFICES ASSUME RealInit PROVE RealInv
    OBVIOUS
  <1>1. \A S : <<>> \in Seq(S) /\ Len(<<>>) = 0 /\ DOMAIN <<>> = {}
    OBVIOUS
  <1>2. RealTypeOK
    <2>1. 0 \in 0 .. MaxTime /\ 0 \in 0 .. MaxSignals /\ 1 \in 1 .. MaxSignals + 1 /\ 0 \in 0 .. MaxBreaks
          /\ 0 \in Nat
      BY RealBounds
    <2>2. status \in Seq(Lines) /\ readTo \in 0 .. Len(status) /\ sentAt \in Seq(0 .. clock)
          /\ sightings \in Seq(0 .. clock)
      BY <1>1 DEF RealInit
    <2>3. QED
      BY <2>1, <2>2 DEF RealInit, RealTypeOK
  <1>3. OrdersInv
    BY RealBounds DEF RealInit, OrdersInv, Signals
  <1>4. StatusInv
    BY <1>1 DEF RealInit, StatusInv, ExitsClosePositions
  <1>5. GateInv
    BY <1>1 DEF RealInit, GateInv, RateLimitHolds
  <1>6. QED
    BY <1>2, <1>3, <1>4, <1>5 DEF RealInv

\* What a step leaves alone.
LEMMA OrdersStay ==
    ASSUME OrdersInv, UNCHANGED <<transmap, entered, protected, step, signal, died, answer>> PROVE OrdersInv'
  BY DEF OrdersInv

LEMMA StatusStays ==
    ASSUME StatusInv, UNCHANGED <<status, filled, entered, protected, positions, readTo, unseen>> PROVE StatusInv'
  BY DEF StatusInv, ExitsClosePositions

LEMMA GateStays ==
    ASSUME GateInv, UNCHANGED <<sentAt, sightings, late, unguarded, clock, killed>>,
           step' = "send" => step = "send"
    PROVE  GateInv'
  <1>1. RateLimitHolds'
    BY DEF GateInv, RateLimitHolds
  <1>2. QED
    BY <1>1 DEF GateInv

\* The orders of a signal that is answered: one that was sent is answered with TIMEOUT.
LEMMA AnswerKeepsOrders ==
    ASSUME RealTypeOK, OrdersInv, signal # 0, NEW outcome, Answer(outcome),
           UNCHANGED <<transmap, entered, protected, died>>, step = "await" => outcome = "TIMEOUT"
    PROVE  OrdersInv'
  <1>1. signal \in Signals
    BY RealBounds DEF RealTypeOK, Signals
  <1>2. signal' = 0 /\ step' = "idle" /\ answer' = [answer EXCEPT ![signal] = outcome]
    BY DEF Answer
  <1>3. ASSUME NEW s \in Signals
        PROVE  /\ entered[s] <= 1 /\ protected[s] <= entered[s]
               /\ entered[s] = 1 => Entry(s) \in transmap
               /\ s # 0
               /\ entered[s] = 1 /\ protected[s] = 0 => s \in died \/ answer'[s] \in {"TIMEOUT", "already_sent"}
    <2>1. s # 0
      BY OrderNames
    <2>2. CASE s = signal
      BY <1>1, <1>2, <2>1, <2>2 DEF OrdersInv, RealTypeOK
    <2>3. CASE s # signal
      BY <1>1, <1>2, <2>1, <2>3 DEF OrdersInv, RealTypeOK
    <2>4. QED
      BY <2>2, <2>3
  <1>4. QED
    BY <1>2, <1>3 DEF OrdersInv

\* The types of what the end of a signal changes.
LEMMA AnswerTypes ==
    ASSUME RealTypeOK, signal # 0, NEW outcome \in {"FILLED", "REJECTED", "TIMEOUT"}, Answer(outcome)
    PROVE  /\ step' = "idle" /\ signal' = 0
           /\ answer' \in [Signals -> {"none", "FILLED", "REJECTED", "TIMEOUT", "already_sent"}]
  BY DEF RealTypeOK, Answer

LEMMA OpenKeeps == ASSUME RealInv, NEW s \in Signals, Open(s) PROVE RealInv'
  <1>1. /\ step = "idle" /\ signal = 0 /\ s # 0 /\ s \in 1 .. MaxSignals /\ s \in 0 .. MaxSignals
        /\ died' = died \ {s} /\ nextSignal' \in 1 .. MaxSignals + 1
        /\ UNCHANGED <<entered, protected, statusVars, readVars, gateVars, positions, envVars>>
    BY RealBounds DEF RealInv, RealTypeOK, Open, Signals
  <1>2. CASE Entry(s) \in transmap
    <2>1. answer' = [answer EXCEPT ![s] = "already_sent"] /\ UNCHANGED <<step, signal, transmap>>
      BY <1>2 DEF Open
    <2>2. RealTypeOK'
      BY <1>1, <2>1 DEF RealInv, RealTypeOK, statusVars, readVars, gateVars, envVars, Signals
    <2>3. OrdersInv'
      <3>1. ASSUME NEW t \in Signals, entered[t] = 1, protected[t] = 0
            PROVE  t \in died' \/ answer'[t] \in {"TIMEOUT", "already_sent"}
        <4>1. t # 0
          BY OrderNames
        <4>2. CASE t = s
          BY <2>1, <4>2 DEF RealInv, RealTypeOK
        <4>3. CASE t # s
          BY <1>1, <2>1, <3>1, <4>1, <4>3 DEF RealInv, RealTypeOK, OrdersInv
        <4>4. QED
          BY <4>2, <4>3
      <3>2. QED
        BY <1>1, <2>1, <3>1, OrderNames DEF RealInv, OrdersInv
    <2>4. StatusInv' /\ GateInv'
      BY <1>1, <2>1, StatusStays, GateStays DEF RealInv, statusVars, readVars, gateVars, envVars
    <2>5. QED
      BY <2>2, <2>3, <2>4 DEF RealInv
  <1>3. CASE Entry(s) \notin transmap
    <2>1. transmap' = transmap \cup {Entry(s)} /\ step' = "gate" /\ signal' = s /\ UNCHANGED answer
      BY <1>3 DEF Open
    <2>2. RealTypeOK'
      BY <1>1, <2>1, OrderNames DEF RealInv, RealTypeOK, statusVars, readVars, gateVars, envVars
    <2>3. OrdersInv'
      <3>1. entered[s] = 0 /\ protected[s] = 0
        BY <1>3 DEF RealInv, RealTypeOK, OrdersInv
      <3>2. ASSUME NEW t \in Signals, entered[t] = 1, protected[t] = 0
            PROVE  t \in died' \/ answer'[t] \in {"TIMEOUT", "already_sent"}
        BY <1>1, <2>1, <3>1, <3>2, OrderNames DEF RealInv, OrdersInv
      <3>3. QED
        BY <1>1, <2>1, <3>1, <3>2 DEF RealInv, OrdersInv
    <2>4. StatusInv' /\ GateInv'
      BY <1>1, <2>1, StatusStays, GateStays DEF RealInv, statusVars, readVars, gateVars, envVars
    <2>5. QED
      BY <2>2, <2>3, <2>4 DEF RealInv
  <1>4. QED
    BY <1>2, <1>3

LEMMA CheckKillKeeps == ASSUME RealInv, CheckKill PROVE RealInv'
  <1>1. /\ step = "gate" /\ signal # 0
        /\ UNCHANGED <<nextSignal, died, orderVars, statusVars, readVars, sentAt, sightings, late,
                       positions, clock, killed>>
    BY DEF CheckKill, RealInv, RealTypeOK
  <1>2. StatusInv'
    BY <1>1, StatusStays DEF RealInv, orderVars, statusVars, readVars
  <1>3. CASE killed /\ Answer("REJECTED") /\ UNCHANGED <<unguarded, breaks>>
    <2>1. RealTypeOK'
      BY <1>1, <1>3, AnswerTypes, RealBounds DEF RealInv, RealTypeOK, orderVars, statusVars, readVars
    <2>2. OrdersInv'
      BY <1>1, <1>3, AnswerKeepsOrders DEF RealInv, orderVars
    <2>3. GateInv'
      BY <1>1, <1>3, GateStays DEF RealInv, Answer
    <2>4. QED
      BY <1>2, <2>1, <2>2, <2>3 DEF RealInv
  <1>4. CASE /\ step' = "send" /\ UNCHANGED <<signal, answer>>
             /\ \/ ~killed /\ UNCHANGED <<unguarded, breaks>>
                \/ Break /\ unguarded' = TRUE
    <2>1. breaks' \in 0 .. MaxBreaks /\ unguarded' \in BOOLEAN
      <3>1. CASE UNCHANGED <<unguarded, breaks>>
        BY <3>1 DEF RealInv, RealTypeOK
      <3>2. CASE Break /\ unguarded' = TRUE
        <4>1. breaks' \in 0 .. MaxBreaks
          BY <3>2, RealBounds DEF RealInv, RealTypeOK, Break
        <4>2. QED
          BY <3>2, <4>1
      <3>3. QED
        BY <1>4, <3>1, <3>2
    <2>2. RealTypeOK'
      BY <1>1, <1>4, <2>1 DEF RealInv, RealTypeOK, orderVars, statusVars, readVars
    <2>3. OrdersInv'
      BY <1>1, <1>4 DEF RealInv, OrdersInv, orderVars
    <2>4. GateInv'
      <3>1. RateLimitHolds'
        BY <1>1 DEF RealInv, GateInv, RateLimitHolds
      <3>2. ~unguarded' => late' <= 1 /\ late' = 0
        BY <1>1, <1>4 DEF RealInv, GateInv
      <3>3. QED
        BY <1>1, <3>1, <3>2 DEF RealInv, GateInv
    <2>5. QED
      BY <1>2, <2>2, <2>3, <2>4 DEF RealInv
  <1>5. QED
    <2>1. \/ killed /\ Answer("REJECTED") /\ UNCHANGED <<unguarded, breaks>>
          \/ ~killed /\ step' = "send" /\ UNCHANGED <<signal, answer, unguarded, breaks>>
          \/ Break /\ step' = "send" /\ unguarded' = TRUE /\ UNCHANGED <<signal, answer>>
      BY Zenon DEF CheckKill
    <2>2. UNCHANGED <<signal, answer, unguarded, breaks>> =>
            UNCHANGED <<signal, answer>> /\ UNCHANGED <<unguarded, breaks>>
      OBVIOUS
    <2>3. QED
      BY <1>3, <1>4, <2>1, <2>2

\* The times that are left are the last ones, and those that are not are old.
LEMMA RecentIs ==
    ASSUME RealTypeOK
    PROVE  \E d \in 0 .. Len(sentAt) :
             /\ Recent(sentAt) \in Seq(0 .. clock) /\ Len(Recent(sentAt)) = Len(sentAt) - d
             /\ \A i \in 1 .. Len(sentAt) - d : Recent(sentAt)[i] = sentAt[d + i]
             /\ \A i \in 1 .. d : sentAt[i] + 1 < clock
  <1> DEFINE kept == {i \in DOMAIN sentAt : clock - sentAt[i] <= 1}
  <1>1. /\ sentAt \in Seq(0 .. clock) /\ Len(sentAt) \in Nat /\ clock \in Nat
        /\ DOMAIN sentAt = 1 .. Len(sentAt) /\ \A i \in 1 .. Len(sentAt) : sentAt[i] \in Nat
    BY RealBounds DEF RealTypeOK
  <1>2. Recent(sentAt) = IF kept = {} THEN <<>> ELSE SubSeq(sentAt, Min(kept), Len(sentAt))
    BY Zenon DEF Recent
  <1>3. \A i \in 1 .. Len(sentAt) : i \notin kept => sentAt[i] + 1 < clock
    BY <1>1
  <1>4. kept \subseteq 1 .. Len(sentAt) /\ kept \in SUBSET Nat
    BY <1>1
  <1> HIDE DEF kept
  <1>5. CASE kept = {}
    <2>1. Recent(sentAt) = <<>>
      BY <1>2, <1>5
    <2>2. \A i \in 1 .. Len(sentAt) : sentAt[i] + 1 < clock
      BY <1>3, <1>5
    <2>3. Len(sentAt) \in 0 .. Len(sentAt) /\ Len(sentAt) - Len(sentAt) = 0
      BY <1>1
    <2>4. \A S : <<>> \in Seq(S) /\ Len(<<>>) = 0
      OBVIOUS
    <2>5. WITNESS Len(sentAt) \in 0 .. Len(sentAt)
    <2>6. QED
      BY <1>1, <2>1, <2>2, <2>3, <2>4
  <1>6. CASE kept # {}
    <2> DEFINE m == Min(kept)
    <2>1. m \in kept /\ \A y \in kept : m <= y
      BY <1>4, <1>6, MinOf
    <2>2. m \in 1 .. Len(sentAt)
      BY <1>4, <2>1
    <2> HIDE DEF m
    <2>3. Recent(sentAt) = SubSeq(sentAt, m, Len(sentAt))
      BY <1>2, <1>6 DEF m
    <2>4. /\ SubSeq(sentAt, m, Len(sentAt)) \in Seq(0 .. clock)
          /\ Len(SubSeq(sentAt, m, Len(sentAt))) = Len(sentAt) - (m - 1)
          /\ \A i \in 1 .. Len(sentAt) - (m - 1) : SubSeq(sentAt, m, Len(sentAt))[i] = sentAt[(m - 1) + i]
      BY <1>1, <2>2
    <2>5. \A i \in 1 .. m - 1 : sentAt[i] + 1 < clock
      <3>1. \A i \in 1 .. m - 1 : i \in 1 .. Len(sentAt) /\ ~(m <= i)
        BY <1>1, <2>2
      <3>2. QED
        BY <1>3, <2>1, <3>1
    <2>6. m - 1 \in 0 .. Len(sentAt)
      BY <1>1, <2>2
    <2>7. WITNESS m - 1 \in 0 .. Len(sentAt)
    <2>8. QED
      BY <2>3, <2>4, <2>5
  <1>7. QED
    BY <1>5, <1>6

\* The times that are left, beside all sightings.
LEMMA RecentSightings ==
    ASSUME RealTypeOK, GateInv
    PROVE  \E g \in Nat :
             /\ Recent(sentAt) \in Seq(0 .. clock) /\ Len(Recent(sentAt)) \in Nat
             /\ Len(sightings) = g + Len(Recent(sentAt))
             /\ \A i \in 1 .. Len(Recent(sentAt)) : Recent(sentAt)[i] = sightings[g + i]
             /\ \A i \in 1 .. g : sightings[i] + 1 < clock
  <1>1. PICK d \in 0 .. Len(sentAt) :
             /\ Recent(sentAt) \in Seq(0 .. clock) /\ Len(Recent(sentAt)) = Len(sentAt) - d
             /\ \A i \in 1 .. Len(sentAt) - d : Recent(sentAt)[i] = sentAt[d + i]
             /\ \A i \in 1 .. d : sentAt[i] + 1 < clock
    BY RecentIs
  <1> DEFINE old == Len(sightings) - Len(sentAt)
  <1>2. /\ Len(sightings) \in Nat /\ Len(sentAt) \in Nat /\ Len(sentAt) <= Len(sightings)
        /\ DOMAIN sentAt = 1 .. Len(sentAt)
        /\ \A i \in 1 .. Len(sentAt) : sentAt[i] = sightings[old + i]
        /\ \A i \in 1 .. old : sightings[i] + 1 < clock
    <2>1. sentAt \in Seq(0 .. clock) /\ sightings \in Seq(0 .. clock)
      BY DEF RealTypeOK
    <2>2. Len(sightings) \in Nat /\ Len(sentAt) \in Nat /\ DOMAIN sentAt = 1 .. Len(sentAt)
      BY <2>1
    <2>3. /\ Len(sentAt) <= Len(sightings)
          /\ \A i \in DOMAIN sentAt : sentAt[i] = sightings[old + i]
          /\ \A i \in 1 .. old : sightings[i] + 1 < clock
      BY Zenon DEF GateInv
    <2>4. QED
      BY <2>2, <2>3
  <1>3. /\ old \in Nat /\ old + d \in Nat /\ Len(Recent(sentAt)) \in Nat
        /\ Len(sightings) = (old + d) + Len(Recent(sentAt))
    BY <1>1, <1>2
  <1>4. ASSUME NEW i \in 1 .. Len(Recent(sentAt)) PROVE Recent(sentAt)[i] = sightings[(old + d) + i]
    <2>1. i \in 1 .. Len(sentAt) - d /\ d + i \in 1 .. Len(sentAt) /\ old + (d + i) = (old + d) + i
      BY <1>1, <1>2
    <2>2. Recent(sentAt)[i] = sentAt[d + i] /\ sentAt[d + i] = sightings[old + (d + i)]
      BY <1>1, <1>2, <2>1
    <2>3. QED
      BY <2>1, <2>2
  <1>5. ASSUME NEW i \in 1 .. old + d PROVE sightings[i] + 1 < clock
    <2>1. CASE i <= old
      BY <1>2, <1>3, <2>1
    <2>2. CASE ~(i <= old)
      <3>1. i - old \in 1 .. d /\ i - old \in 1 .. Len(sentAt) /\ old + (i - old) = i
        BY <1>1, <1>2, <2>2
      <3>2. sentAt[i - old] + 1 < clock /\ sentAt[i - old] = sightings[old + (i - old)]
        BY <1>1, <1>2, <3>1
      <3>3. QED
        BY <3>1, <3>2
    <2>3. QED
      BY <2>1, <2>2
  <1> DEFINE g == old + d
  <1>6. /\ g \in Nat /\ Len(Recent(sentAt)) \in Nat /\ Len(sightings) = g + Len(Recent(sentAt))
        /\ \A i \in 1 .. Len(Recent(sentAt)) : Recent(sentAt)[i] = sightings[g + i]
        /\ \A i \in 1 .. g : sightings[i] + 1 < clock
    BY <1>3, <1>4, <1>5
  <1> HIDE DEF g
  <1>7. QED
    BY <1>1, <1>6, Zenon

LEMMA RefuseKeeps == ASSUME RealInv, Refuse PROVE RealInv'
  <1>1. /\ step = "send" /\ signal # 0 /\ sentAt' = Recent(sentAt) /\ Answer("REJECTED")
        /\ UNCHANGED <<nextSignal, died, orderVars, statusVars, readVars, sightings, late, unguarded,
                       positions, envVars>>
    BY DEF Refuse, RealInv, RealTypeOK
  <1>2. PICK g \in Nat :
             /\ Recent(sentAt) \in Seq(0 .. clock) /\ Len(Recent(sentAt)) \in Nat
             /\ Len(sightings) = g + Len(Recent(sentAt))
             /\ \A i \in 1 .. Len(Recent(sentAt)) : Recent(sentAt)[i] = sightings[g + i]
             /\ \A i \in 1 .. g : sightings[i] + 1 < clock
    BY RecentSightings DEF RealInv
  <1>3. RealTypeOK'
    BY <1>1, <1>2, AnswerTypes, RealBounds DEF RealInv, RealTypeOK, orderVars, statusVars, readVars, envVars
  <1>4. OrdersInv'
    BY <1>1, AnswerKeepsOrders DEF RealInv, orderVars
  <1>5. StatusInv'
    BY <1>1, StatusStays DEF RealInv, orderVars, statusVars, readVars
  <1>6. GateInv'
    <2>1. RateLimitHolds'
      BY <1>1 DEF RealInv, GateInv, RateLimitHolds
    <2>2. Len(sightings) - Len(sentAt') = g /\ Len(sentAt') <= Len(sightings)
      BY <1>1, <1>2
    <2>3. DOMAIN sentAt' = 1 .. Len(sentAt')
      BY <1>1, <1>2
    <2>4. ~unguarded => late <= 1 /\ late = 0
      BY <1>1 DEF RealInv, GateInv
    <2>5. UNCHANGED <<sightings, clock, unguarded, late>>
      BY <1>1 DEF envVars
    <2>6. QED
      BY <1>1, <1>2, <2>1, <2>2, <2>3, <2>4, <2>5 DEF GateInv
  <1>7. QED
    BY <1>3, <1>4, <1>5, <1>6 DEF RealInv

\* One more sighting, now: in the windows it falls into there are only times the limit
\* has just counted.
LEMMA OneMoreSighting ==
    ASSUME RealTypeOK, RateLimitHolds, NEW g \in Nat, NEW n \in Nat, n < PerMinute, Len(sightings) = g + n,
           \A i \in 1 .. g : sightings[i] + 1 < clock, sightings' = Append(sightings, clock)
    PROVE  RateLimitHolds'
  <1>1. /\ sightings \in Seq(0 .. clock) /\ Len(sightings) \in Nat /\ clock \in Nat
        /\ \A i \in 1 .. Len(sightings) : sightings[i] \in Nat
        /\ DOMAIN sightings = 1 .. Len(sightings)
    BY RealBounds DEF RealTypeOK
  <1>2. /\ DOMAIN sightings' = 1 .. g + n + 1 /\ sightings'[g + n + 1] = clock
        /\ \A i \in 1 .. g + n : sightings'[i] = sightings[i]
    BY <1>1
  <1> DEFINE Window(i) == {j \in DOMAIN sightings : sightings[j] \in sightings[i] .. sightings[i] + 1}
             WindowAfter(i) == {j \in 1 .. g + n + 1 : sightings'[j] \in sightings'[i] .. sightings'[i] + 1}
  <1>3. \A j \in 1 .. g + n + 1 : j = g + n + 1 \/ j \in 1 .. g + n
    OBVIOUS
  <1>4. \A j \in 1 .. g + n + 1 : sightings'[j] \in Nat
    BY <1>1, <1>2, <1>3
  <1>5. ASSUME NEW i \in 1 .. g + n + 1 PROVE Cardinality(WindowAfter(i)) <= PerMinute
    <2>1. CASE clock \in sightings'[i] .. sightings'[i] + 1
      <3>1. ASSUME NEW j \in WindowAfter(i) PROVE j \in g + 1 .. g + n + 1
        <4>1. j \in 1 .. g + n + 1 /\ sightings'[j] \in sightings'[i] .. sightings'[i] + 1
          BY <3>1
        <4>2. CASE j \in 1 .. g
          <5>1. sightings'[j] = sightings[j] /\ sightings[j] + 1 < clock
            BY <1>2, <4>2
          <5>2. sightings[j] \in Nat /\ sightings'[i] \in Nat
            BY <1>4, <4>1, <5>1
          <5>3. \A u, v, c \in Nat : c \in v .. v + 1 /\ u \in v .. v + 1 => ~(u + 1 < c)
            OBVIOUS
          <5>4. QED
            BY <1>1, <2>1, <4>1, <5>1, <5>2, <5>3
        <4>3. CASE j \notin 1 .. g
          BY <4>1, <4>3
        <4>4. QED
          BY <4>2, <4>3
      <3>2. /\ IsFiniteSet(g + 1 .. g + n + 1) /\ Cardinality(g + 1 .. g + n + 1) = n + 1
        <4>1. g + 1 \in Int /\ g + n + 1 \in Int /\ ~(g + 1 > g + n + 1) /\ (g + n + 1) - (g + 1) + 1 = n + 1
          OBVIOUS
        <4>2. QED
          BY <4>1, FS_Interval
      <3>3. WindowAfter(i) \subseteq g + 1 .. g + n + 1
        BY <3>1
      <3>4. Cardinality(WindowAfter(i)) <= n + 1 /\ Cardinality(WindowAfter(i)) \in Nat
        <4> HIDE DEF WindowAfter
        <4>1. IsFiniteSet(WindowAfter(i)) /\ Cardinality(WindowAfter(i)) <= Cardinality(g + 1 .. g + n + 1)
          BY <3>2, <3>3, FS_Subset
        <4>2. QED
          BY <3>2, <4>1, FS_CardinalityType
      <3>5. \A c, m, p \in Nat : c <= m + 1 /\ m < p => c <= p
        OBVIOUS
      <3>6. QED
        <4> HIDE DEF WindowAfter
        <4>1. QED
          BY <3>4, <3>5, RealBounds
    <2>2. CASE clock \notin sightings'[i] .. sightings'[i] + 1
      <3>1. i \in 1 .. g + n
        <4>1. clock \in clock .. clock + 1
          BY <1>1
        <4>2. QED
          BY <1>2, <1>3, <2>2, <4>1
      <3>2. i \in DOMAIN sightings /\ sightings'[i] = sightings[i]
        BY <1>1, <1>2, <3>1
      <3>3. WindowAfter(i) = Window(i)
        <4>1. ASSUME NEW j \in WindowAfter(i) PROVE j \in Window(i)
          <5>1. j \in 1 .. g + n
            BY <1>2, <1>3, <2>2, <4>1
          <5>2. QED
            BY <1>1, <1>2, <3>2, <4>1, <5>1
        <4>2. ASSUME NEW j \in Window(i) PROVE j \in WindowAfter(i)
          BY <1>1, <1>2, <3>2, <4>2
        <4>3. QED
          BY <4>1, <4>2
      <3>4. Cardinality(Window(i)) <= PerMinute
        BY <3>2 DEF RateLimitHolds
      <3>5. QED
        BY <3>3, <3>4
    <2>3. QED
      BY <2>1, <2>2
  <1>6. QED
    BY <1>2, <1>5 DEF RateLimitHolds

LEMMA SendKeeps == ASSUME RealInv, Send PROVE RealInv'
  <1>1. /\ step = "send" /\ signal # 0 /\ Len(Recent(sentAt)) < PerMinute
        /\ entered' = [entered EXCEPT ![signal] = @ + 1]
        /\ sentAt' = Append(Recent(sentAt), clock) /\ sightings' = Append(sightings, clock)
        /\ late' = (IF killed THEN late + 1 ELSE late) /\ step' = "await"
        /\ UNCHANGED <<signal, nextSignal, died, answer, transmap, protected, status, writing, filled, readTo, unseen,
                       unguarded, positions, clock, killed, breaks>>
    BY DEF Send, RealInv, RealTypeOK, statusVars, readVars, envVars
  <1>2. PICK g \in Nat :
             /\ Recent(sentAt) \in Seq(0 .. clock) /\ Len(Recent(sentAt)) \in Nat
             /\ Len(sightings) = g + Len(Recent(sentAt))
             /\ \A i \in 1 .. Len(Recent(sentAt)) : Recent(sentAt)[i] = sightings[g + i]
             /\ \A i \in 1 .. g : sightings[i] + 1 < clock
    BY RecentSightings DEF RealInv
  <1>3. signal \in Signals
    BY <1>1, RealBounds DEF RealInv, RealTypeOK, Signals
  <1>4. /\ entered[signal] = 0 /\ protected[signal] = 0 /\ entered' \in [Signals -> Nat] /\ entered'[signal] = 1
        /\ \A s \in Signals : s # signal => entered'[s] = entered[s]
    BY <1>1, <1>3 DEF RealInv, RealTypeOK, OrdersInv
  <1>5. /\ clock \in 0 .. clock /\ sightings \in Seq(0 .. clock)
        /\ Append(Recent(sentAt), clock) \in Seq(0 .. clock) /\ Append(sightings, clock) \in Seq(0 .. clock)
    BY <1>2, RealBounds DEF RealInv, RealTypeOK
  <1>6. RealTypeOK'
    <2>1. late' \in Nat
      BY <1>1 DEF RealInv, RealTypeOK
    <2>2. QED
      BY <1>1, <1>4, <1>5, <2>1 DEF RealInv, RealTypeOK
  <1>7. OrdersInv'
    <2>1. ASSUME NEW s \in Signals
          PROVE  /\ entered'[s] <= 1 /\ protected[s] <= entered'[s]
                 /\ entered'[s] = 1 => Entry(s) \in transmap
                 /\ signal = s => entered'[s] = 1 /\ protected[s] = 0
                 /\ entered'[s] = 1 /\ protected[s] = 0 =>
                      signal = s \/ s \in died \/ answer[s] \in {"TIMEOUT", "already_sent"}
      <3>1. CASE s = signal
        BY <1>1, <1>4, <3>1 DEF RealInv, OrdersInv
      <3>2. CASE s # signal
        BY <1>4, <3>2 DEF RealInv, OrdersInv
      <3>3. QED
        BY <3>1, <3>2
    <2>2. QED
      BY <1>1, <2>1 DEF RealInv, OrdersInv
  <1>8. StatusInv'
    <2>1. \A s \in Signals : Entry(s) \in filled => entered'[s] = 1
      BY <1>4 DEF RealInv, StatusInv
    <2>2. QED
      BY <1>1, <2>1 DEF RealInv, StatusInv, ExitsClosePositions
  <1>9. GateInv'
    <2>1. RateLimitHolds'
      BY <1>1, <1>2, OneMoreSighting DEF RealInv, GateInv
    <2>2. /\ Len(sentAt') = Len(Recent(sentAt)) + 1 /\ Len(sightings') = g + Len(sentAt')
          /\ DOMAIN sentAt' = 1 .. Len(Recent(sentAt)) + 1
          /\ \A i \in 1 .. Len(Recent(sentAt)) : sentAt'[i] = Recent(sentAt)[i]
          /\ \A i \in 1 .. Len(sightings) : sightings'[i] = sightings[i]
          /\ sentAt'[Len(Recent(sentAt)) + 1] = clock /\ sightings'[Len(sightings) + 1] = clock
      BY <1>1, <1>2, <1>5
    <2>3. Len(sightings') - Len(sentAt') = g /\ Len(sentAt') <= Len(sightings')
      BY <1>2, <2>2
    <2>4. ASSUME NEW i \in DOMAIN sentAt' PROVE sentAt'[i] = sightings'[g + i]
      <3>1. CASE i = Len(Recent(sentAt)) + 1
        <4>1. g + i = Len(sightings) + 1
          BY <1>2, <3>1
        <4>2. QED
          BY <2>2, <3>1, <4>1
      <3>2. CASE i # Len(Recent(sentAt)) + 1
        <4>1. i \in 1 .. Len(Recent(sentAt)) /\ g + i \in 1 .. Len(sightings)
          BY <1>2, <2>2, <3>2
        <4>2. QED
          BY <1>2, <2>2, <4>1
      <3>3. QED
        BY <3>1, <3>2
    <2>5. ASSUME NEW i \in 1 .. g PROVE sightings'[i] + 1 < clock'
      <3>1. i \in 1 .. Len(sightings)
        BY <1>2
      <3>2. QED
        BY <1>1, <1>2, <2>2, <3>1
    <2>6. ~unguarded' => late' <= 1 /\ (~killed' => late' = 0)
      BY <1>1 DEF RealInv, RealTypeOK, GateInv
    <2>7. step' # "send"
      BY <1>1
    <2>8. QED
      BY <2>1, <2>3, <2>4, <2>5, <2>6, <2>7 DEF GateInv
  <1>10. QED
    BY <1>6, <1>7, <1>8, <1>9 DEF RealInv

\* The lines a poll reads: what is new of the status file, less one that is torn.
LEMMA BatchIs ==
    ASSUME RealTypeOK, readTo < Len(status)
    PROVE  /\ Batch \in Seq(Lines) /\ Len(Batch) \in Nat /\ readTo + Len(Batch) <= Len(status)
           /\ \A j \in 1 .. Len(Batch) : Batch[j] = status[readTo + j]
           /\ \A i \in readTo + 1 .. Len(status) : i \in Torn \/ i - readTo \in 1 .. Len(Batch)
           /\ Torn \subseteq 1 .. Len(status)
  <1>1. status \in Seq(Lines) /\ Len(status) \in Nat /\ readTo \in Nat /\ readTo < Len(status)
    BY DEF RealTypeOK
  <1>2. \E c \in {0, 1} : Cardinality(Torn) = c /\ Torn = IF c = 1 THEN {Len(status)} ELSE {}
    <2>1. Cardinality({Len(status)}) = 1 /\ Cardinality({}) = 0
      BY FS_Singleton, FS_EmptySet
    <2>2. CASE writing
      BY <2>1, <2>2 DEF Torn
    <2>3. CASE ~writing
      BY <2>1, <2>3 DEF Torn
    <2>4. QED
      BY <2>2, <2>3
  <1>3. PICK c \in {0, 1} : Cardinality(Torn) = c /\ Torn = IF c = 1 THEN {Len(status)} ELSE {}
    BY <1>2
  <1>4. Batch = SubSeq(status, readTo + 1, Len(status) - c)
    BY <1>3 DEF Batch
  <1>5. \A n, m \in Nat : m < n => /\ m + 1 \in 1 .. n + 1 /\ n - c \in m .. n /\ n - c - m \in Nat
                                   /\ m + (n - c - m) <= n
                                   /\ \A i \in m + 1 .. n : (c = 1 /\ i = n) \/ i - m \in 1 .. n - c - m
    BY <1>3
  <1>6. /\ Batch \in Seq(Lines) /\ Len(Batch) = Len(status) - c - readTo
        /\ \A j \in 1 .. Len(status) - c - readTo : Batch[j] = status[readTo + j]
    <2>1. \A n, m \in Nat : m < n => m + 1 \in 1 .. n /\ n - c \in 0 .. n /\ m <= n - c
      BY <1>3
    <2>2. readTo + 1 \in 1 .. Len(status) /\ Len(status) - c \in 0 .. Len(status) /\ readTo <= Len(status) - c
      BY <1>1, <2>1
    <2>3. ASSUME NEW first \in 1 .. Len(status), NEW last \in 0 .. Len(status), first <= last + 1
          PROVE  /\ SubSeq(status, first, last) \in Seq(Lines)
                 /\ Len(SubSeq(status, first, last)) = last - first + 1
                 /\ \A j \in 1 .. last - first + 1 : SubSeq(status, first, last)[j] = status[first + j - 1]
      BY <1>1, <2>3
    <2>4. readTo + 1 <= (Len(status) - c) + 1
      BY <1>1, <1>3, <2>2
    <2>5. /\ SubSeq(status, readTo + 1, Len(status) - c) \in Seq(Lines)
          /\ Len(SubSeq(status, readTo + 1, Len(status) - c)) = (Len(status) - c) - (readTo + 1) + 1
          /\ \A j \in 1 .. (Len(status) - c) - (readTo + 1) + 1 :
               SubSeq(status, readTo + 1, Len(status) - c)[j] = status[(readTo + 1) + j - 1]
      BY <2>2, <2>3, <2>4
    <2>6. \A n, m \in Nat : (n - c) - (m + 1) + 1 = n - c - m /\ \A j \in Nat : (m + 1) + j - 1 = m + j
      BY <1>3
    <2>7. \A j \in 1 .. Len(status) - c - readTo : (readTo + 1) + j - 1 = readTo + j
      BY <1>1, <2>6
    <2>8. QED
      BY <1>1, <1>4, <2>5, <2>6, <2>7
  <1>7. Torn \subseteq 1 .. Len(status)
    BY <1>1, <1>3
  <1>8. QED
    BY <1>1, <1>3, <1>5, <1>6, <1>7

\* Where the trade of the entry is among them: 0, or the first of its lines.
LEMMA OwnTradeIs ==
    ASSUME RealTypeOK, readTo < Len(status)
    PROVE  /\ SelectInSeq(Batch, OwnTrade) \in 0 .. Len(Batch)
           /\ SelectInSeq(Batch, OwnTrade) > 0 =>
                LET l == Batch[SelectInSeq(Batch, OwnTrade)] IN l.order = Entry(signal) /\ l.kind = "TRADE"
  <1> DEFINE I == {i \in 1 .. Len(Batch) : OwnTrade(Batch[i])}
  <1>1. SelectInSeq(Batch, OwnTrade) = IF I # {} THEN Min(I) ELSE 0
    BY DEF SelectInSeq
  <1>2. I \in SUBSET Nat /\ I \subseteq 1 .. Len(Batch) /\ Len(Batch) \in Nat
    BY BatchIs
  <1>3. CASE I = {}
    BY <1>1, <1>2, <1>3
  <1>4. CASE I # {}
    <2>1. Min(I) \in I
      <3> HIDE DEF I
      <3>1. QED
        BY <1>2, <1>4, MinOf
    <2>2. OwnTrade(Batch[Min(I)]) /\ Min(I) \in 1 .. Len(Batch)
      BY <1>2, <2>1
    <2>3. QED
      BY <1>1, <1>2, <1>4, <2>2 DEF OwnTrade
  <1>5. QED
    BY <1>3, <1>4

\* The exits among the first lines of a batch.
LEMMA ExitsAmong ==
    ASSUME RealTypeOK, readTo < Len(status), NEW n \in 0 .. Len(Batch), NEW j \in 1 .. n,
           Batch[j].order.what = "oco", Batch[j].kind = "TRADE"
    PROVE  Batch[j].order.of \in Exits(SubSeq(Batch, 1, n))
  <1>1. Batch \in Seq(Lines) /\ Len(Batch) \in Nat
    BY BatchIs
  <1>2. j \in DOMAIN SubSeq(Batch, 1, n) /\ SubSeq(Batch, 1, n)[j] = Batch[j]
    BY <1>1
  <1>3. Batch[j] \in ToSet(SubSeq(Batch, 1, n))
    BY <1>2 DEF ToSet
  <1>4. QED
    BY <1>3 DEF Exits

\* After a reading of the status file, what was not seen of it is remembered, and the rest
\* has closed its positions.
LEMMA ReadingCloses ==
    ASSUME RealTypeOK, StatusInv, readTo < Len(status), readTo' = Len(status), UNCHANGED status,
           NEW upTo \in 0 .. Len(Batch), NEW opened \in SUBSET Signals,
           \A s \in opened : protected[s] = 0,
           Torn \cup (readTo + upTo + 1 .. readTo + Len(Batch)) \cup unseen \subseteq unseen',
           positions' = (positions \ Exits(SubSeq(Batch, 1, upTo))) \cup opened
    PROVE  ExitsClosePositions'
  <1> SUFFICES ASSUME NEW i \in 1 .. Len(status), status[i].order.what = "oco", i \notin unseen'
               PROVE  status[i].order.of \notin positions'
    BY DEF ExitsClosePositions
  <1>1. /\ readTo \in Nat /\ Len(status) \in Nat /\ DOMAIN status = 1 .. Len(status)
    BY DEF RealTypeOK
  <1>2. status[i].kind = "TRADE" /\ protected[status[i].order.of] = 1
    BY <1>1 DEF StatusInv
  <1>3. status[i].order.of \notin opened
    BY <1>2
  <1>4. CASE i <= readTo
    <2>1. i \in 1 .. readTo /\ i \notin unseen
      BY <1>1, <1>4
    <2>2. status[i].order.of \notin positions
      BY <2>1 DEF StatusInv, ExitsClosePositions
    <2>3. QED
      BY <1>3, <2>2
  <1>5. CASE ~(i <= readTo)
    <2>1. i \in readTo + 1 .. Len(status) /\ i \notin Torn
      BY <1>1, <1>5
    <2>2. i - readTo \in 1 .. Len(Batch) /\ Len(Batch) \in Nat
      BY <2>1, BatchIs
    <2>3. \A m, p \in Nat : \A q \in 0 .. p :
            i - m \in 1 .. p /\ i \notin m + q + 1 .. m + p => i - m \in 1 .. q
      OBVIOUS
    <2>4. i - readTo \in 1 .. upTo
      BY <1>1, <2>2, <2>3
    <2>5. Batch[i - readTo] = status[i]
      <3>1. readTo + (i - readTo) = i
        BY <1>1
      <3>2. QED
        BY <2>2, <3>1, BatchIs
    <2>6. status[i].order.of \in Exits(SubSeq(Batch, 1, upTo))
      BY <1>2, <2>4, <2>5, ExitsAmong
    <2>7. QED
      BY <1>3, <2>6
  <1>6. QED
    BY <1>4, <1>5

LEMMA PollKeeps == ASSUME RealInv, Poll PROVE RealInv'
  <1> DEFINE hit == SelectInSeq(Batch, OwnTrade)
             upTo == IF hit = 0 THEN Len(Batch) ELSE hit
             opened == IF hit > 0 THEN {signal} ELSE {}
  <1>1. /\ step = "await" /\ signal # 0 /\ readTo < Len(status) /\ readTo' = Len(status)
        /\ UNCHANGED <<entered, status, writing, filled, sentAt, sightings, late, unguarded, nextSignal, died,
                       clock, killed, breaks>>
    BY DEF Poll, RealInv, RealTypeOK, statusVars, gateVars, envVars
  <1>2. /\ unseen' = unseen \cup Torn \cup (readTo + upTo + 1 .. readTo + Len(Batch))
        /\ positions' = (positions \ Exits(SubSeq(Batch, 1, upTo))) \cup opened
        /\ IF hit > 0 THEN Protect /\ Answer("FILLED")
           ELSE /\ UNCHANGED <<transmap, protected>>
                /\ IF SelectInSeq(Batch, OwnReject) > 0 THEN Answer("TIMEOUT")
                                                        ELSE UNCHANGED <<step, signal, answer>>
    BY Zenon DEF Poll
  <1>3. /\ hit \in 0 .. Len(Batch) /\ Len(Batch) \in Nat
        /\ hit > 0 => Batch[hit].order = Entry(signal) /\ Batch[hit].kind = "TRADE"
    BY <1>1, OwnTradeIs, BatchIs DEF RealInv
  <1> HIDE DEF hit
  <1>4. upTo \in 0 .. Len(Batch) /\ (hit > 0 \/ hit = 0)
    BY <1>3
  <1>5. signal \in Signals /\ entered[signal] = 1 /\ protected[signal] = 0
    BY <1>1, RealBounds DEF RealInv, RealTypeOK, OrdersInv, Signals
  <1>6. opened \in SUBSET Signals /\ \A s \in opened : protected[s] = 0
    BY <1>5
  <1>7. Torn \cup (readTo + upTo + 1 .. readTo + Len(Batch)) \cup unseen \subseteq unseen'
    BY <1>2
  <1>8. unseen' \subseteq 1 .. Len(status)
    <2>1. readTo \in Nat /\ Len(status) \in Nat /\ unseen \subseteq 1 .. readTo
      BY DEF RealInv, RealTypeOK
    <2>2. Torn \subseteq 1 .. Len(status) /\ readTo + Len(Batch) <= Len(status)
      BY <1>1, BatchIs DEF RealInv
    <2>3. \A m, p, n, u \in Nat : m <= n /\ m + p <= n => (m + u + 1 .. m + p) \subseteq 1 .. n /\ 1 .. m \subseteq 1 .. n
      OBVIOUS
    <2>4. upTo \in Nat /\ readTo <= Len(status)
      BY <1>1, <1>3, <1>4, <2>1
    <2>5. (readTo + upTo + 1 .. readTo + Len(Batch)) \subseteq 1 .. Len(status) /\ 1 .. readTo \subseteq 1 .. Len(status)
      <3> HIDE DEF upTo
      <3>1. QED
        BY <1>3, <2>1, <2>2, <2>3, <2>4
    <2>6. QED
      <3> HIDE DEF upTo
      <3>1. QED
        BY <1>2, <2>1, <2>2, <2>5
  <1> HIDE DEF upTo, opened
  <1>9. ExitsClosePositions'
    BY <1>1, <1>2, <1>4, <1>6, <1>7, ReadingCloses DEF RealInv
  <1>10. positions' \subseteq Signals
    BY <1>2, <1>6 DEF RealInv, RealTypeOK
  <1>11. Len(status) \in 0 .. Len(status) /\ 0 \in 0 .. MaxSignals
    BY RealBounds DEF RealInv, RealTypeOK
  <1>12. CASE hit > 0
    <2>1. Protect /\ Answer("FILLED")
      BY <1>2, <1>12
    <2>2. /\ step' = "idle" /\ signal' = 0
          /\ answer' \in [Signals -> {"none", "FILLED", "REJECTED", "TIMEOUT", "already_sent"}]
      BY <1>1, <2>1, AnswerTypes DEF RealInv
    <2>3. /\ transmap' = transmap \cup {Oco(signal)} /\ transmap' \subseteq Orders
          /\ protected' = [protected EXCEPT ![signal] = @ + 1] /\ protected' \in [Signals -> Nat]
          /\ protected'[signal] = 1 /\ \A s \in Signals : s # signal => protected'[s] = protected[s]
      BY <1>5, <2>1, OrderNames DEF Protect, RealInv, RealTypeOK
    <2>4. RealTypeOK'
      BY <1>1, <1>8, <1>10, <1>11, <2>2, <2>3 DEF RealInv, RealTypeOK
    <2>5. OrdersInv'
      <3>1. ASSUME NEW s \in Signals
            PROVE  /\ entered[s] <= 1 /\ protected'[s] <= entered[s] /\ s # 0
                   /\ entered[s] = 1 => Entry(s) \in transmap'
                   /\ entered[s] = 1 /\ protected'[s] = 0 => s \in died \/ answer'[s] \in {"TIMEOUT", "already_sent"}
        <4>1. s # 0
          BY OrderNames
        <4>2. CASE s = signal
          BY <1>5, <2>3, <4>1, <4>2 DEF RealInv, OrdersInv
        <4>3. CASE s # signal
          <5>1. answer'[s] = answer[s]
            BY <2>1, <4>3 DEF Answer, RealInv, RealTypeOK
          <5>2. QED
            BY <2>3, <4>1, <4>3, <5>1 DEF RealInv, OrdersInv
        <4>4. QED
          BY <4>2, <4>3
      <3>2. QED
        BY <1>1, <2>2, <3>1 DEF OrdersInv
    <2>6. StatusInv'
      <3>1. Entry(signal) \in filled
        <4>1. hit \in 1 .. Len(Batch)
          BY <1>3, <1>12
        <4>2. Batch[hit] = status[readTo + hit] /\ readTo + hit \in DOMAIN status
          <5>1. readTo \in Nat /\ status \in Seq(Lines) /\ Len(status) \in Nat /\ readTo + Len(Batch) <= Len(status)
            BY <1>1, BatchIs DEF RealInv, RealTypeOK
          <5>2. readTo + hit \in 1 .. Len(status)
            BY <1>3, <4>1, <5>1
          <5>3. QED
            BY <1>1, <4>1, <5>1, <5>2, BatchIs DEF RealInv
        <4>3. QED
          BY <1>3, <1>12, <4>2 DEF RealInv, StatusInv
      <3>2. \A s \in Signals : protected'[s] = 1 => Entry(s) \in filled
        BY <2>3, <3>1 DEF RealInv, StatusInv
      <3>3. \A s \in positions' : protected'[s] = 1
        BY <1>2, <1>10, <2>3 DEF RealInv, StatusInv, opened
      <3>4. \A i \in DOMAIN status : status[i].order.what = "oco" => protected'[status[i].order.of] = 1
        <4>1. ASSUME NEW i \in DOMAIN status, status[i].order.what = "oco"
              PROVE  status[i].order.of \in Signals /\ status[i].order.of # signal
          <5>1. status[i] \in Lines
            BY DEF RealInv, RealTypeOK
          <5>2. status[i].order.of \in Signals
            BY <5>1 DEF Lines, Orders
          <5>3. QED
            BY <1>5, <4>1, <5>2 DEF RealInv, StatusInv
        <4>2. QED
          BY <2>3, <4>1 DEF RealInv, StatusInv
      <3>5. QED
        BY <1>1, <1>9, <3>2, <3>3, <3>4 DEF RealInv, StatusInv
    <2>7. GateInv'
      BY <1>1, <2>2, GateStays DEF RealInv
    <2>8. QED
      BY <2>4, <2>5, <2>6, <2>7 DEF RealInv
  <1>13. CASE hit = 0
    <2>1. ~(hit > 0)
      BY <1>13
    <2>2. /\ UNCHANGED <<transmap, protected>>
          /\ Answer("TIMEOUT") \/ UNCHANGED <<step, signal, answer>>
      BY <1>2, <2>1
    <2>3. /\ step' # "send" /\ signal' \in 0 .. MaxSignals /\ (signal' = 0) = (step' = "idle")
          /\ answer' \in [Signals -> {"none", "FILLED", "REJECTED", "TIMEOUT", "already_sent"}]
          /\ step' \in {"idle", "gate", "send", "await"}
      <3>1. CASE Answer("TIMEOUT")
        BY <1>1, <1>11, <3>1, AnswerTypes DEF RealInv
      <3>2. CASE UNCHANGED <<step, signal, answer>>
        BY <1>1, <3>2 DEF RealInv, RealTypeOK
      <3>3. QED
        BY <2>2, <3>1, <3>2
    <2>4. RealTypeOK'
      BY <1>1, <1>8, <1>10, <1>11, <2>2, <2>3 DEF RealInv, RealTypeOK
    <2>5. OrdersInv'
      <3>1. CASE Answer("TIMEOUT")
        BY <1>1, <2>2, <3>1, AnswerKeepsOrders DEF RealInv
      <3>2. CASE UNCHANGED <<step, signal, answer>>
        BY <1>1, <2>2, <3>2, OrdersStay DEF RealInv
      <3>3. QED
        BY <2>2, <3>1, <3>2
    <2>6. StatusInv'
      <3>1. positions' \subseteq positions
        BY <1>2, <2>1 DEF opened
      <3>2. QED
        BY <1>1, <1>9, <2>2, <3>1 DEF RealInv, StatusInv
    <2>7. GateInv'
      BY <1>1, <2>3, GateStays DEF RealInv
    <2>8. QED
      BY <2>4, <2>5, <2>6, <2>7 DEF RealInv
  <1>14. QED
    BY <1>4, <1>12, <1>13

LEMMA DeadlineKeeps == ASSUME RealInv, Deadline PROVE RealInv'
  <1>1. /\ step = "await" /\ signal # 0 /\ Answer("TIMEOUT")
        /\ UNCHANGED <<nextSignal, died, orderVars, statusVars, readVars, gateVars, positions, envVars>>
    BY DEF Deadline, RealInv, RealTypeOK
  <1>2. RealTypeOK'
    BY <1>1, AnswerTypes, RealBounds DEF RealInv, RealTypeOK, orderVars, statusVars, readVars, gateVars, envVars
  <1>3. OrdersInv'
    BY <1>1, AnswerKeepsOrders DEF RealInv, orderVars
  <1>4. StatusInv'
    BY <1>1, StatusStays DEF RealInv, orderVars, statusVars, readVars
  <1>5. GateInv'
    BY <1>1, GateStays DEF RealInv, gateVars, envVars, Answer
  <1>6. QED
    BY <1>2, <1>3, <1>4, <1>5 DEF RealInv

LEMMA TrackExitsKeeps == ASSUME RealInv, TrackExits PROVE RealInv'
  <1>1. /\ readTo < Len(status) /\ readTo' = Len(status) /\ unseen' = unseen \cup Torn
        /\ positions' = positions \ Exits(Batch)
        /\ UNCHANGED <<taskVars, orderVars, statusVars, gateVars, envVars>>
    BY DEF TrackExits
  <1>2. /\ Batch \in Seq(Lines) /\ Len(Batch) \in Nat /\ Torn \subseteq 1 .. Len(status)
    BY <1>1, BatchIs DEF RealInv
  <1>3. SubSeq(Batch, 1, Len(Batch)) = Batch
    BY <1>2
  <1>4. ExitsClosePositions'
    <2>1. Len(Batch) \in 0 .. Len(Batch) /\ {} \in SUBSET Signals
      BY <1>2
    <2>2. (readTo + Len(Batch) + 1 .. readTo + Len(Batch)) = {}
      <3>1. \A m \in Nat : m + 1 .. m = {}
        OBVIOUS
      <3>2. readTo + Len(Batch) \in Nat
        BY <1>2 DEF RealInv, RealTypeOK
      <3>3. QED
        BY <3>1, <3>2
    <2>3. Torn \cup (readTo + Len(Batch) + 1 .. readTo + Len(Batch)) \cup unseen \subseteq unseen'
      BY <1>1, <2>2
    <2>4. positions' = (positions \ Exits(SubSeq(Batch, 1, Len(Batch)))) \cup {}
      BY <1>1, <1>3
    <2>5. UNCHANGED status
      BY <1>1 DEF statusVars
    <2>6. QED
      BY <1>1, <2>1, <2>3, <2>4, <2>5, ReadingCloses DEF RealInv
  <1>5. RealTypeOK'
    <2>1. Len(status) \in 0 .. Len(status) /\ unseen' \subseteq 1 .. Len(status)
      BY <1>1, <1>2 DEF RealInv, RealTypeOK
    <2>2. QED
      BY <1>1, <2>1 DEF RealInv, RealTypeOK, taskVars, orderVars, statusVars, gateVars, envVars
  <1>6. OrdersInv' /\ GateInv'
    BY <1>1, OrdersStay, GateStays DEF RealInv, taskVars, orderVars, gateVars, envVars
  <1>7. StatusInv'
    BY <1>1, <1>4 DEF RealInv, StatusInv, orderVars, statusVars
  <1>8. QED
    BY <1>5, <1>6, <1>7 DEF RealInv

LEMMA BridgeRestartsKeeps == ASSUME RealInv, BridgeRestarts PROVE RealInv'
  <1>1. /\ readTo' = Len(status) /\ unseen' = unseen \cup (readTo + 1 .. Len(status))
        /\ sentAt' = <<>> /\ sightings' = <<>> /\ step' = "idle" /\ signal' = 0
        /\ died' = (IF signal = 0 THEN died ELSE died \cup {signal}) /\ Break
        /\ UNCHANGED <<nextSignal, answer, orderVars, statusVars, late, unguarded, positions, clock, killed>>
    BY DEF BridgeRestarts
  <1>2. \A S : <<>> \in Seq(S) /\ Len(<<>>) = 0 /\ DOMAIN <<>> = {}
    OBVIOUS
  <1>3. RealTypeOK'
    <2>1. breaks' \in 0 .. MaxBreaks
      BY <1>1, RealBounds DEF RealInv, RealTypeOK, Break
    <2>2. Len(status) \in 0 .. Len(status) /\ unseen' \subseteq 1 .. Len(status)
      <3>1. readTo \in Nat /\ readTo <= Len(status) /\ Len(status) \in Nat /\ unseen \subseteq 1 .. readTo
        BY DEF RealInv, RealTypeOK
      <3>2. \A m, n \in Nat : m <= n => 1 .. m \subseteq 1 .. n /\ m + 1 .. n \subseteq 1 .. n /\ n \in 0 .. n
        OBVIOUS
      <3>3. 1 .. readTo \subseteq 1 .. Len(status) /\ readTo + 1 .. Len(status) \subseteq 1 .. Len(status)
            /\ Len(status) \in 0 .. Len(status)
        BY <3>1, <3>2
      <3>4. QED
        BY <1>1, <3>1, <3>3
    <2>3. died' \subseteq Signals /\ 0 \in 0 .. MaxSignals
      BY <1>1, RealBounds DEF RealInv, RealTypeOK, Signals
    <2>4. sentAt' \in Seq(0 .. clock) /\ sightings' \in Seq(0 .. clock)
      BY <1>1, <1>2
    <2>5. QED
      BY <1>1, <2>1, <2>2, <2>3, <2>4 DEF RealInv, RealTypeOK, orderVars, statusVars
  <1>4. OrdersInv'
    <2>1. UNCHANGED <<transmap, entered, protected, answer>>
      BY <1>1 DEF orderVars
    <2>2. ASSUME NEW s \in Signals
          PROVE  /\ s # 0
                 /\ entered[s] = 1 /\ protected[s] = 0 => s \in died' \/ answer[s] \in {"TIMEOUT", "already_sent"}
      <3>1. s # 0
        BY OrderNames
      <3>2. signal = s => s \in died'
        BY <1>1, <3>1
      <3>3. died \subseteq died'
        BY <1>1
      <3>4. QED
        BY <3>1, <3>2, <3>3 DEF RealInv, OrdersInv
    <2>3. QED
      BY <1>1, <2>1, <2>2 DEF RealInv, OrdersInv
  <1>5. StatusInv'
    <2>1. ExitsClosePositions'
      <3>1. readTo \in Nat /\ Len(status) \in Nat
        BY DEF RealInv, RealTypeOK
      <3>2. ASSUME NEW i \in 1 .. Len(status), i \notin unseen' PROVE i \in 1 .. readTo /\ i \notin unseen
        <4>1. i \notin unseen /\ i \notin readTo + 1 .. Len(status)
          BY <1>1, <3>2
        <4>2. QED
          BY <3>1, <4>1
      <3>3. QED
        BY <1>1, <3>2 DEF RealInv, StatusInv, ExitsClosePositions, statusVars
    <2>2. QED
      BY <1>1, <2>1 DEF RealInv, StatusInv, orderVars, statusVars
  <1>6. GateInv'
    <2>1. RateLimitHolds'
      BY <1>1, <1>2 DEF RateLimitHolds
    <2>2. Len(sightings') - Len(sentAt') = 0 /\ Len(sentAt') <= Len(sightings')
      BY <1>1, <1>2
    <2>3. \A i \in DOMAIN sentAt' : sentAt'[i] = sightings'[Len(sightings') - Len(sentAt') + i]
      BY <1>1, <1>2
    <2>4. \A i \in 1 .. Len(sightings') - Len(sentAt') : sightings'[i] + 1 < clock'
      BY <2>2
    <2>5. ~unguarded' => late' <= 1 /\ (step' = "send" \/ ~killed' => late' = 0)
      BY <1>1 DEF RealInv, GateInv
    <2>6. QED
      BY <2>1, <2>2, <2>3, <2>4, <2>5 DEF GateInv
  <1>7. QED
    BY <1>3, <1>4, <1>5, <1>6 DEF RealInv

LEMMA MinuteKeeps == ASSUME RealInv, Minute PROVE RealInv'
  <1>1. /\ clock < MaxTime /\ clock' = clock + 1
        /\ UNCHANGED <<taskVars, orderVars, statusVars, readVars, gateVars, positions, killed, breaks>>
    BY DEF Minute
  <1>2. clock \in Nat /\ clock' \in 0 .. MaxTime /\ 0 .. clock \subseteq 0 .. clock'
    BY <1>1, RealBounds DEF RealInv, RealTypeOK
  <1>3. sentAt \in Seq(0 .. clock') /\ sightings \in Seq(0 .. clock')
    <2>1. \A s \in Seq(0 .. clock) : s \in Seq(0 .. clock')
      BY <1>2
    <2>2. QED
      BY <2>1 DEF RealInv, RealTypeOK
  <1>4. RealTypeOK'
    BY <1>1, <1>2, <1>3 DEF RealInv, RealTypeOK, taskVars, orderVars, statusVars, readVars, gateVars
  <1>5. OrdersInv' /\ StatusInv'
    BY <1>1, OrdersStay, StatusStays DEF RealInv, taskVars, orderVars, statusVars, readVars
  <1>6. GateInv'
    <2>1. UNCHANGED <<sentAt, sightings, late, unguarded, killed, step>>
      BY <1>1 DEF gateVars, taskVars
    <2>2. RateLimitHolds'
      BY <2>1 DEF RealInv, GateInv, RateLimitHolds
    <2>3. ASSUME NEW i \in 1 .. Len(sightings) - Len(sentAt) PROVE sightings[i] + 1 < clock'
      <3>1. sightings[i] + 1 < clock
        BY Zenon, <2>3 DEF RealInv, GateInv
      <3>2. sightings[i] \in Nat
        <4>1. sightings \in Seq(0 .. clock) /\ Len(sightings) \in Nat /\ Len(sentAt) \in Nat
          BY DEF RealInv, RealTypeOK
        <4>2. i \in 1 .. Len(sightings)
          BY <4>1
        <4>3. QED
          BY <1>2, <4>1, <4>2
      <3>3. QED
        BY <1>1, <1>2, <3>1, <3>2
    <2>4. QED
      BY <2>1, <2>2, <2>3 DEF RealInv, GateInv
  <1>7. QED
    BY <1>4, <1>5, <1>6 DEF RealInv

LEMMA KillKeeps == ASSUME RealInv, Kill PROVE RealInv'
  <1>1. /\ ~killed /\ killed' = TRUE
        /\ UNCHANGED <<taskVars, orderVars, statusVars, readVars, gateVars, positions, clock, breaks>>
    BY DEF Kill
  <1>2. RealTypeOK'
    BY <1>1 DEF RealInv, RealTypeOK, taskVars, orderVars, statusVars, readVars, gateVars
  <1>3. OrdersInv' /\ StatusInv'
    BY <1>1, OrdersStay, StatusStays DEF RealInv, taskVars, orderVars, statusVars, readVars
  <1>4. GateInv'
    <2>1. UNCHANGED <<sentAt, sightings, late, unguarded, clock>>
      BY <1>1 DEF gateVars
    <2>2. RateLimitHolds'
      BY <2>1 DEF RealInv, GateInv, RateLimitHolds
    <2>3. ~unguarded => late <= 1 /\ late = 0
      BY <1>1 DEF RealInv, GateInv
    <2>4. QED
      BY <2>1, <2>2, <2>3 DEF RealInv, GateInv
  <1>5. QED
    BY <1>2, <1>3, <1>4 DEF RealInv

LEMMA LineEndsKeeps == ASSUME RealInv, LineEnds PROVE RealInv'
  <1>1. /\ writing' = FALSE
        /\ UNCHANGED <<taskVars, orderVars, status, filled, readVars, gateVars, positions, envVars>>
    BY DEF LineEnds
  <1>2. RealTypeOK'
    BY <1>1 DEF RealInv, RealTypeOK, taskVars, orderVars, readVars, gateVars, envVars
  <1>3. OrdersInv' /\ StatusInv' /\ GateInv'
    BY <1>1, OrdersStay, StatusStays, GateStays DEF RealInv, taskVars, orderVars, readVars, gateVars, envVars
  <1>4. QED
    BY <1>2, <1>3 DEF RealInv

LEMMA ReportKeeps ==
    ASSUME RealInv, NEW order \in Orders, NEW kind \in {"TRADE", "REJECT"}, Report(order, kind) PROVE RealInv'
  <1> DEFINE line == [kind |-> kind, order |-> order]
  <1>1. /\ status' = Append(status, line) /\ writing' \in BOOLEAN
        /\ filled' = (IF kind = "TRADE" THEN filled \cup {order} ELSE filled)
        /\ UNCHANGED <<taskVars, orderVars, readVars, gateVars, positions, envVars>>
    BY DEF Report
  <1>2. /\ order.of \in Signals
        /\ order.what = "entry" => entered[order.of] = 1
        /\ order.what = "oco" => protected[order.of] = 1 /\ kind = "TRADE"
    <2>1. order.of \in Signals /\ order.what \in {"entry", "oco"}
      BY DEF Orders
    <2>2. IF order.what = "entry" THEN entered[order.of] > 0 ELSE protected[order.of] > 0 /\ kind = "TRADE"
      BY DEF Report
    <2>3. entered[order.of] \in Nat /\ protected[order.of] \in Nat
      BY <2>1 DEF RealInv, RealTypeOK
    <2>4. entered[order.of] <= 1 /\ protected[order.of] <= entered[order.of]
      BY <2>1 DEF RealInv, OrdersInv
    <2>5. QED
      BY <2>1, <2>2, <2>3, <2>4
  <1>3. line \in Lines /\ line.kind = kind /\ line.order = order
    BY DEF Lines
  <1> HIDE DEF line
  <1>4. /\ status' \in Seq(Lines) /\ Len(status) \in Nat /\ Len(status') = Len(status) + 1
        /\ DOMAIN status' = 1 .. Len(status) + 1 /\ DOMAIN status = 1 .. Len(status)
        /\ status'[Len(status) + 1] = line /\ \A i \in 1 .. Len(status) : status'[i] = status[i]
    BY <1>1, <1>3 DEF RealInv, RealTypeOK
  <1>5. RealTypeOK'
    <2>1. readTo \in 0 .. Len(status')
      BY <1>4 DEF RealInv, RealTypeOK
    <2>2. QED
      BY <1>1, <1>4, <2>1 DEF RealInv, RealTypeOK, taskVars, orderVars, readVars, gateVars, envVars
  <1>6. OrdersInv' /\ GateInv'
    BY <1>1, OrdersStay, GateStays DEF RealInv, taskVars, orderVars, gateVars, envVars
  <1>7. StatusInv'
    <2>1. UNCHANGED <<entered, protected, positions, readTo, unseen>>
      BY <1>1 DEF orderVars, readVars
    <2>2. ASSUME NEW i \in DOMAIN status'
          PROVE  /\ status'[i].kind = "TRADE" => status'[i].order \in filled'
                 /\ status'[i].order.what = "oco" =>
                      status'[i].kind = "TRADE" /\ protected[status'[i].order.of] = 1
      <3>1. CASE i \in 1 .. Len(status)
        BY <1>1, <1>4, <3>1 DEF RealInv, StatusInv
      <3>2. CASE i = Len(status) + 1
        BY <1>1, <1>2, <1>3, <1>4, <3>2
      <3>3. QED
        BY <1>4, <2>2, <3>1, <3>2
    <2>3. ASSUME NEW s \in Signals PROVE /\ Entry(s) \in filled' => entered[s] = 1
                                         /\ protected[s] = 1 => Entry(s) \in filled'
      <3>1. CASE Entry(s) = order
        <4>1. order.what = "entry" /\ order.of = s
          BY <3>1, OrderNames
        <4>2. QED
          BY <1>1, <1>2, <4>1 DEF RealInv, StatusInv
      <3>2. CASE Entry(s) # order
        BY <1>1, <3>2 DEF RealInv, StatusInv
      <3>3. QED
        BY <3>1, <3>2
    <2>4. ExitsClosePositions'
      <3>1. \A i \in 1 .. readTo : status'[i] = status[i]
        BY <1>4 DEF RealInv, RealTypeOK
      <3>2. QED
        BY <2>1, <3>1 DEF RealInv, StatusInv, ExitsClosePositions
    <2>5. QED
      BY <2>1, <2>2, <2>3, <2>4 DEF RealInv, StatusInv
  <1>8. QED
    BY <1>5, <1>6, <1>7 DEF RealInv

LEMMA RealInduction == RealInv /\ [RealNext]_realVars => RealInv'
  <1> SUFFICES ASSUME RealInv, [RealNext]_realVars PROVE RealInv'
    OBVIOUS
  <1>1. CASE UNCHANGED realVars
    <2>1. UNCHANGED <<orderVars, statusVars, readVars, gateVars, taskVars, positions, envVars>>
      BY <1>1 DEF realVars
    <2>2. RealTypeOK'
      BY <2>1 DEF RealInv, RealTypeOK, orderVars, statusVars, readVars, gateVars, taskVars, envVars
    <2>3. OrdersInv' /\ StatusInv' /\ GateInv'
      BY <2>1, OrdersStay, StatusStays, GateStays DEF RealInv, orderVars, statusVars, readVars, gateVars, taskVars, envVars
    <2>4. QED
      BY <2>2, <2>3 DEF RealInv
  <1>2. CASE RealNext
    BY <1>2, OpenKeeps, CheckKillKeeps, RefuseKeeps, SendKeeps, PollKeeps, DeadlineKeeps, TrackExitsKeeps,
       BridgeRestartsKeeps, MinuteKeeps, KillKeeps, LineEndsKeeps, ReportKeeps
       DEF RealNext, Executor
  <1>3. QED
    BY <1>1, <1>2

\* What the invariant says of every signal.
LEMMA SignalsFollow == RealInv => OrdersAreAccountedFor
  <1> SUFFICES ASSUME RealInv PROVE OrdersAreAccountedFor
    OBVIOUS
  <1>1. \A s \in Signals : entered[s] \in Nat /\ protected[s] \in Nat
    BY DEF RealInv, RealTypeOK
  <1>2. OneEntryPerSignal
    BY <1>1 DEF RealInv, OrdersInv, OneEntryPerSignal
  <1>3. PositionsAreProtected
    <2>1. \A s \in Signals : protected[s] > 0 => protected[s] = 1
      BY <1>1 DEF RealInv, OrdersInv
    <2>2. QED
      BY <2>1 DEF RealInv, StatusInv, PositionsAreProtected
  <1>4. UnprotectedIsExplained
    BY DEF RealInv, StatusInv, OrdersInv, UnprotectedIsExplained
  <1>5. ExitsClosePositions
    BY DEF RealInv, StatusInv
  <1>6. RateLimitHolds
    BY DEF RealInv, GateInv
  <1>7. KillStopsOrders
    BY DEF RealInv, GateInv, KillStopsOrders
  <1>8. QED
    BY <1>2, <1>3, <1>4, <1>5, <1>6, <1>7 DEF OrdersAreAccountedFor

-------------------------------------------------------------------------------
(* The parts together. *)

EdgesInv == CacheInv /\ ReceiverInv /\ RealInv /\ PredictorInv /\ TunnelInv /\ LifeInv

\* A step of one part leaves the others as they were.
LEMMA EdgesSteps ==
    [EdgesNext]_edgesVars =>
        /\ [CacheNext]_cacheVars /\ [ReceiverNext]_receiverVars /\ [RealNext]_realVars
        /\ [PredictorNext]_predictorVars /\ [TunnelNext]_tunnelVars /\ [ServicesNext]_servicesVars
  <1> SUFFICES ASSUME [EdgesNext]_edgesVars
               PROVE  /\ [CacheNext]_cacheVars /\ [ReceiverNext]_receiverVars /\ [RealNext]_realVars
                      /\ [PredictorNext]_predictorVars /\ [TunnelNext]_tunnelVars /\ [ServicesNext]_servicesVars
    OBVIOUS
  <1>1. CASE UNCHANGED edgesVars
    BY <1>1 DEF edgesVars
  <1>2. CASE EdgesNext
    BY <1>2, Zenon DEF EdgesNext, Only
  <1>3. QED
    BY <1>1, <1>2

LEMMA EdgesStart == EdgesInit => EdgesInv
  BY CacheStarts, ReceiverStarts, RealStarts, PredictorStarts, TunnelStarts, LifeInitially, Zenon
     DEF EdgesInit, EdgesInv

LEMMA EdgesInduction == EdgesInv /\ [EdgesNext]_edgesVars => EdgesInv'
  BY EdgesSteps, CacheSteps, ReceiverInduction, RealInduction, PredictorInduction, TunnelSteps, LifeSteps, Zenon
     DEF EdgesInv

\* Cache, receiver, order client, predictor, tunnel and services keep to their types and
\* bounds, for any number of bars, texts, signals, events, failures and tasks.
THEOREM EdgesTypeOKHolds == EdgesSpec => []EdgesTypeOK
  <1>1. EdgesInv => EdgesTypeOK
    BY Zenon DEF EdgesInv, CacheInv, ReceiverInv, RealInv, PredictorInv, TunnelInv, LifeInv, EdgesTypeOK
  <1>2. QED
    BY <1>1, EdgesStart, EdgesInduction, PTL DEF EdgesSpec

\* Every text, every signal and every ticker of an event is accounted for (see
\* TextsAreAccountedFor, OrdersAreAccountedFor, TickersAreAccountedFor), whichever part
\* takes the steps: for any number of messages, edits, orders, events and failures.
THEOREM InputsAreAccountedForHolds == EdgesSpec => []InputsAreAccountedFor
  <1>1. EdgesInv => InputsAreAccountedFor
    BY TextsFollow, SignalsFollow, TickersFollow DEF EdgesInv, InputsAreAccountedFor
  <1>2. QED
    BY <1>1, EdgesStart, EdgesInduction, PTL DEF EdgesSpec

\* The frame, the tunnels and the lives of the services are as their own specifications say
\* when they are one part of several, too.
THEOREM EdgesKeepTheirParts == EdgesSpec => [](FrameIsCurrent /\ TunnelsDoNotPileUp /\ LivesEndInOrder)
  <1>1. EdgesInv => FrameIsCurrent /\ TunnelsDoNotPileUp /\ LivesEndInOrder
    BY OneTunnelOfTheLoop DEF EdgesInv, CacheInv, LifeInv
  <1>2. QED
    BY <1>1, EdgesStart, EdgesInduction, PTL DEF EdgesSpec
===============================================================================
