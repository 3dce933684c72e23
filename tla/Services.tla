------------------------------- MODULE Services --------------------------------
(***************************************************************************)
(* The life of a service, from load_settings() to its exit code: run() of  *)
(* the services' __main__ modules.  They differ in what may fail before    *)
(* the loops start, which tasks run, and in which order these are stopped; *)
(* a plan holds that.  What the tasks do is in the other modules: here a   *)
(* task waits or is in the middle of something that uses Redis.            *)
(***************************************************************************)
EXTENDS Integers, Sequences, FiniteSets

VARIABLES
    service,
    mainAt,             \* "settings", "connect", "load", "run", "stop", "ended"
    redis,              \* the client: "none", "open", "closed"
    doing,              \* of each task: "none", "waits", "works", "over"
    shutdown,           \* the event the signal handler sets
    left,               \* steps of the finally block still to come
    brokenOff,          \* an exception is on its way out of run()
    exit,               \* the exit code
    astray              \* history: a task used the client after it was closed

servicesVars == <<service, mainAt, redis, doing, shutdown, left, brokenOff, exit, astray>>

-------------------------------------------------------------------------------
(* Plans: the errors of load_settings() that run() reports; whether there is work between *)
(* the connection and the loops that may raise; whether a finally block covers that too;  *)
(* whether the signal handlers are installed before it; the tasks that run from then on,  *)
(* those run() waits for, and those next to them; the finally block.                      *)

Errors == {"no .env", "missing key", "invalid"}

\* ValidationError is a ValueError, which the enricher does not report.  The file of the
\* prompt is read, and the client of the language model made, after the connection.
EnricherPlan ==
    [reported |-> {"no .env", "missing key"}, loads |-> TRUE, covered |-> FALSE, early |-> FALSE,
     before |-> {}, main |-> {"worker 1", "worker 2", "reclaimer"}, beside |-> {"heartbeat"},
     finally |-> <<"heartbeat", "final heartbeat", "pool", "redis">>]

PredictorPlan ==
    [reported |-> Errors, loads |-> TRUE, covered |-> FALSE, early |-> FALSE,
     before |-> {}, main |-> {"consumer"}, beside |-> {"heartbeat", "candles"},
     finally |-> <<"heartbeat", "candles", "redis">>]

\* Positions of the last run are tracked from recover_from_redis() on.
BridgePlan ==
    [reported |-> Errors, loads |-> TRUE, covered |-> FALSE, early |-> FALSE,
     before |-> {"tracker"}, main |-> {"consumer"}, beside |-> {"heartbeat", "candles"},
     finally |-> <<"tracker", "heartbeat", "candles", "redis">>]

\* Mutant: the client is closed before the task that uses it is waited for.
DecisionPlanRedisFirst ==
    [reported |-> Errors, loads |-> FALSE, covered |-> FALSE, early |-> FALSE,
     before |-> {}, main |-> {"consumer"}, beside |-> {"heartbeat"}, finally |-> <<"redis", "heartbeat">>]

DecisionPlan ==
    [reported |-> Errors, loads |-> FALSE, covered |-> FALSE, early |-> FALSE,
     before |-> {}, main |-> {"consumer"}, beside |-> {"heartbeat"}, finally |-> <<"heartbeat", "redis">>]

\* build_reader raises for a source it does not know.
QuikFeedPlan == [DecisionPlan EXCEPT !.loads = TRUE, !.main = {"feeder"}]

MonitorPlan == [DecisionPlan EXCEPT !.main = {"ticks"}]

\* _run of the receiver: connect() resolves the channels and starts the heartbeat,
\* backfill() is awaited like the rest of it; close() is in the finally block.
ReceiverPlan ==
    [reported |-> {"no .env"}, loads |-> TRUE, covered |-> TRUE, early |-> TRUE,
     before |-> {"heartbeat"}, main |-> {"listen"}, beside |-> {},
     finally |-> <<"listen", "heartbeat", "redis">>]

PlanOf == [enricher |-> EnricherPlan, predictor |-> PredictorPlan, bridge |-> BridgePlan,
           decision |-> DecisionPlan, quik_feed |-> QuikFeedPlan, monitor |-> MonitorPlan,
           receiver |-> ReceiverPlan]

Plan == PlanOf[service]
TasksOf(plan) == plan.before \cup plan.main \cup plan.beside
AllTasks == UNION {TasksOf(PlanOf[s]) : s \in DOMAIN PlanOf}

ServicesTypeOK ==
    /\ service \in DOMAIN PlanOf
    /\ mainAt \in {"settings", "connect", "load", "run", "stop", "ended"} /\ (mainAt = "ended") = (exit # "none")
    /\ redis \in {"none", "open", "closed"} /\ shutdown \in BOOLEAN /\ brokenOff \in BOOLEAN
    /\ doing \in [AllTasks -> {"none", "waits", "works", "over"}]
    /\ \A t \in AllTasks \ TasksOf(Plan) : doing[t] = "none"
    /\ exit \in {"none", "0", "1", "2", "3", "killed"} /\ astray \in BOOLEAN
    /\ (left # <<>>) => mainAt = "stop"

ServicesInit ==
    /\ service \in DOMAIN PlanOf /\ mainAt = "settings" /\ redis = "none"
    /\ doing = [t \in AllTasks |-> "none"] /\ shutdown = FALSE /\ left = <<>> /\ brokenOff = FALSE
    /\ exit = "none" /\ astray = FALSE

Put(tasks, state) == [t \in AllTasks |-> IF t \in tasks THEN state ELSE doing[t]]

-------------------------------------------------------------------------------
(* The start. *)

Quit(code) == mainAt' = "ended" /\ exit' = code

LoadSettings ==
    /\ mainAt = "settings"
    /\ \/ mainAt' = "connect" /\ UNCHANGED exit
       \/ \E e \in Errors : Quit(IF e \in Plan.reported THEN "2" ELSE "1")
    /\ UNCHANGED <<service, redis, doing, shutdown, left, brokenOff, astray>>

\* The finally block, with what brought run() there.
ToFinally(raised) == mainAt' = "stop" /\ left' = Plan.finally /\ brokenOff' = raised

\* make_redis and the ping; a service that gets no answer closes the client.  There is none
\* yet when make_redis raises, or Telegram before it.
Connect ==
    /\ mainAt = "connect"
    /\ \/ mainAt' = (IF Plan.loads THEN "load" ELSE "run") /\ redis' = "open"
          /\ doing' = Put(IF Plan.loads THEN Plan.before ELSE Plan.main \cup Plan.beside, "waits")
          /\ UNCHANGED <<left, brokenOff, exit>>
       \/ /\ Plan.covered /\ ToFinally(TRUE) /\ redis' \in {"none", "open"}
          /\ UNCHANGED <<doing, exit>>
       \/ /\ ~Plan.covered
          /\ (Quit("3") /\ redis' = "closed") \/ (Quit("1") /\ redis' = "none")
          /\ UNCHANGED <<doing, left, brokenOff>>
    /\ UNCHANGED <<service, shutdown, astray>>

\* The prompt, models, price files, positions of the last run, the reader of the feed,
\* channels.
Load ==
    /\ mainAt = "load"
    /\ \/ mainAt' = "run" /\ doing' = Put(Plan.main \cup Plan.beside, "waits") /\ UNCHANGED <<left, brokenOff, exit>>
       \/ IF Plan.covered THEN ToFinally(TRUE) /\ UNCHANGED <<doing, exit>>
          ELSE Quit("1") /\ doing' = Put(Plan.before, "over") /\ UNCHANGED <<left, brokenOff>>
    /\ UNCHANGED <<service, redis, shutdown, astray>>

-------------------------------------------------------------------------------
(* The tasks. *)

\* The tasks whose loops look at the event.
Looping == {"worker 1", "worker 2", "reclaimer", "consumer", "feeder", "ticks", "candles"}

\* A task goes to work, on a message, a bar, a beat, or comes back from it; work ends with
\* a call of the client.  The loops look at the event between two pieces of work; what a
\* read that was under way brings is still worked on.  A tracker is over when its position
\* is closed.
Work(t) ==
    /\ mainAt \in {"load", "run", "stop"} /\ doing[t] \in {"waits", "works"}
    /\ doing' = Put({t}, IF doing[t] = "waits" THEN "works"
                         ELSE IF shutdown /\ t \in Looping THEN "over" ELSE "waits")
    /\ astray' = (astray \/ (doing[t] = "works" /\ redis = "closed"))
    /\ UNCHANGED <<service, mainAt, redis, shutdown, left, brokenOff, exit>>

Leave(t) ==
    /\ mainAt \in {"load", "run", "stop"} /\ doing[t] = "waits"
    /\ t = "tracker" \/ (shutdown /\ t \in Looping)
    /\ doing' = Put({t}, "over")
    /\ UNCHANGED <<service, mainAt, redis, shutdown, left, brokenOff, exit, astray>>

\* Exceptions the loops do not handle: any but lost connections before the group is there,
\* a failing poll of the feed.  Telegram may end listen() without one.  A tick of the
\* monitor catches all.
TaskFails(t) ==
    /\ mainAt = "run" /\ t \in Plan.main \ {"ticks"} /\ doing[t] = "works"
    /\ doing' = Put({t}, "over") /\ ToFinally(t # "listen")
    /\ UNCHANGED <<service, redis, shutdown, exit, astray>>

\* run() has waited for its tasks; the receiver waits for the event itself.
TasksAreOver ==
    /\ mainAt = "run" /\ IF service = "receiver" THEN shutdown ELSE \A t \in Plan.main : doing[t] = "over"
    /\ ToFinally(FALSE)
    /\ UNCHANGED <<service, redis, doing, shutdown, exit, astray>>

-------------------------------------------------------------------------------
(* Signals and the end. *)

\* A signal before the handlers are there ends the process; a second one changes nothing.
Signal ==
    /\ mainAt # "ended"
    /\ IF mainAt \in {"run", "stop"} \/ (Plan.early /\ mainAt # "settings")
       THEN ~shutdown /\ shutdown' = TRUE /\ UNCHANGED <<mainAt, exit, doing>>
       ELSE Quit("killed") /\ doing' = Put({t \in AllTasks : doing[t] # "none"}, "over") /\ UNCHANGED shutdown
    /\ UNCHANGED <<service, redis, left, brokenOff, astray>>

\* One step of the finally block: a task is asked to stop, waited for for some seconds and
\* then cancelled; the client is closed.
Finally ==
    /\ mainAt = "stop" /\ left # <<>> /\ left' = Tail(left)
    /\ LET next == Head(left) IN
       /\ redis' = IF next = "redis" /\ redis = "open" THEN "closed" ELSE redis
       /\ doing' = IF next \in AllTasks /\ doing[next] # "none" THEN Put({next}, "over") ELSE doing
       /\ shutdown' = (shutdown \/ next = "candles")
    /\ UNCHANGED <<service, mainAt, brokenOff, exit, astray>>

\* asyncio.run cancels what is left.
Exit ==
    /\ mainAt = "stop" /\ left = <<>> /\ Quit(IF brokenOff THEN "1" ELSE "0")
    /\ doing' = Put({t \in AllTasks : doing[t] # "none"}, "over")
    /\ UNCHANGED <<service, redis, shutdown, left, brokenOff, astray>>

ServicesNext ==
    \/ LoadSettings \/ Connect \/ Load \/ TasksAreOver \/ Signal \/ Finally \/ Exit
    \/ \E t \in AllTasks : Work(t) \/ Leave(t) \/ TaskFails(t)

\* What run() does itself.
Main == LoadSettings \/ Connect \/ Load \/ TasksAreOver \/ Finally \/ Exit

\* The process goes on, and its loops do.
ServicesFairness ==
    /\ WF_servicesVars(Main)
    /\ \A t \in Looping : WF_servicesVars(Work(t) \/ Leave(t))

ServicesSpec == ServicesInit /\ [][ServicesNext]_servicesVars /\ ServicesFairness

-------------------------------------------------------------------------------
(* Properties. *)

\* Nothing uses the client after it was closed, but the other workers of an enricher one
\* of whose workers failed.
NobodyIsAstray == astray => (service = "enricher" /\ brokenOff)

\* A process that was not killed leaves the client open only when loading failed outside
\* of the finally block: with exit code 1, before any of its loops ran.
ClientIsClosed ==
    (mainAt = "ended" /\ exit # "killed" /\ redis = "open") =>
        /\ exit = "1" /\ ~brokenOff /\ Plan.loads /\ ~Plan.covered
        /\ \A t \in Plan.main \cup Plan.beside : doing[t] = "none"

\* Exit code 0 means that somebody asked for it; the receiver's may also mean that
\* Telegram is gone, and nothing restarts it then.
ZeroWasAskedFor == exit = "0" => (shutdown \/ (service = "receiver" /\ doing["listen"] = "over"))

\* The life of a service: what it leaves behind and what its exit code says.
LivesEndInOrder == NobodyIsAstray /\ ClientIsClosed /\ ZeroWasAskedFor

\* A service that was asked to stop stops.
StopsWhenAsked == shutdown ~> (mainAt = "ended")

-------------------------------------------------------------------------------
(* Why the lives end in order: what the proofs in Edges_proofs carry along. *)

\* The steps a finally block has.
FinalSteps == AllTasks \cup {"final heartbeat", "pool", "redis"}

\* The client is open from the connection on until the last step of the finally block.
ClientFollows ==
    /\ mainAt \in {"settings", "connect"} => redis = "none"
    /\ mainAt \in {"load", "run"} => redis = "open"
    /\ mainAt = "load" => Plan.loads
    /\ brokenOff => mainAt \in {"stop", "ended"}
    /\ mainAt = "stop" => redis \in {"none", IF left = <<>> THEN "closed" ELSE "open"}
    /\ left \in Seq(FinalSteps)
    /\ \A i \in 1 .. Len(left) : left[i] = "redis" <=> i = Len(left)

\* Tasks come with the loops; the loops end for a signal or a failure; and what is still at
\* work in the finally block is stopped by it, but the workers next to one that failed.
TasksFollow ==
    /\ mainAt \in {"settings", "connect"} => \A t \in AllTasks : doing[t] = "none"
    /\ mainAt = "load" => \A t \in AllTasks \ Plan.before : doing[t] = "none"
    /\ mainAt = "run" => \A t \in Plan.main : doing[t] = "over" => shutdown
    /\ mainAt = "stop" =>
         /\ \A t \in AllTasks : doing[t] \in {"waits", "works"} =>
              (service = "enricher" /\ brokenOff) \/ \E i \in 1 .. Len(left) : left[i] = t
         /\ brokenOff \/ shutdown \/ (service = "receiver" /\ doing["listen"] = "over")

LifeInv == ServicesTypeOK /\ ClientFollows /\ TasksFollow /\ LivesEndInOrder
===============================================================================
