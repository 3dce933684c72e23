-------------------------------- MODULE MCEdges ---------------------------------
(***************************************************************************)
(* Parts of the system that share no state with each other: the candle     *)
(* cache of a service, the Telegram receiver, the order client, the        *)
(* predictor, the tunnel to Redis and the life of a process.  One of them, *)
(* chosen at the start, takes steps; the others stay as they were.         *)
(***************************************************************************)
EXTENDS CandleCache, Receiver, RealOrders, Predictor, Tunnel, Services

CONSTANTS gazp, sber, other, a, b, consumer, beat

MCTextOrder == <<a, b>>
MCTaskOrder == <<consumer, beat>>

MCCsvFiles  == {<<>>, <<[m |-> 3, v |-> 1], [m |-> 1, v |-> 1], [m |-> 3, v |-> 2]>>}
MCWhitelist == {gazp, sber}
MCInputs    == {[tickers |-> <<gazp, sber>>, financial |-> TRUE],
                [tickers |-> <<other, sber>>, financial |-> TRUE],
                [tickers |-> <<gazp>>, financial |-> FALSE]}

VARIABLE part

edgesVars == <<part, cacheVars, receiverVars, realVars, predictorVars, tunnelVars, servicesVars>>

\* The choices of a part that takes no step are made for it.
EdgesInit ==
    /\ part \in {"cache", "receiver", "orders", "predictor", "tunnel", "services"}
    /\ IF part = "cache" THEN TRUE ELSE csv = <<>>
    /\ CacheInit /\ ReceiverInit /\ RealInit /\ PredictorInit /\ TunnelInit
    /\ IF part = "services" THEN TRUE ELSE service = "enricher"
    /\ ServicesInit

\* A step of one part.
Only(p, A) ==
    /\ part = p /\ A /\ UNCHANGED part
    /\ p # "cache" => UNCHANGED cacheVars
    /\ p # "receiver" => UNCHANGED receiverVars
    /\ p # "orders" => UNCHANGED realVars
    /\ p # "predictor" => UNCHANGED predictorVars
    /\ p # "tunnel" => UNCHANGED tunnelVars
    /\ p # "services" => UNCHANGED servicesVars

EdgesNext ==
    \/ Only("cache", CacheNext) \/ Only("receiver", ReceiverNext) \/ Only("orders", RealNext)
    \/ Only("predictor", PredictorNext) \/ Only("tunnel", TunnelNext)
    \/ Only("services", ServicesNext)

\* The fairness each module states, for the part that takes steps.
EdgesSpec ==
    /\ EdgesInit /\ [][EdgesNext]_edgesVars
    /\ WF_edgesVars(\/ Only("cache", Subscriber) \/ Only("receiver", EventLoop)
                    \/ Only("orders", Executor) \/ Only("predictor", Consumer)
                    \/ Only("tunnel", Loop) \/ Only("services", Main))
    /\ WF_edgesVars(Only("tunnel", Ssh)) /\ WF_edgesVars(Only("tunnel", NetworkUp))
    /\ \A t \in Tasks : WF_edgesVars(Only("tunnel", Client(t)))
    /\ \A t \in Looping : WF_edgesVars(Only("services", Work(t) \/ Leave(t)))

-------------------------------------------------------------------------------

\* The types of all parts.
EdgesTypeOK ==
    /\ CacheTypeOK /\ ReceiverTypeOK /\ RealTypeOK /\ PredictorTypeOK
    /\ TunnelTypeOK /\ ServicesTypeOK

\* What comes in is accounted for: texts posted, signals given, tickers of an event.
InputsAreAccountedFor ==
    /\ part = "receiver" => TextsAreAccountedFor
    /\ part = "orders" => OrdersAreAccountedFor
    /\ part = "predictor" => TickersAreAccountedFor

\* What each task must bring to an end: bars are read, texts published, signals answered,
\* events settled, connections found again, services stopped (NothingUnread,
\* YieldedIsPublished, OpenEnds, EventsSettle, RedisComesBack and StopsWhenAsked, each for
\* the behaviours in which its part takes the steps).
Due(i) ==
    \/ part = "cache" /\ Unread(i)
    \/ part = "receiver" /\ i \in DOMAIN MCTextOrder /\ Handed(MCTextOrder[i])
    \/ part = "orders" /\ signal = i
    \/ part = "predictor" /\ i <= Len(events)
    \/ part = "tunnel" /\ i \in DOMAIN MCTaskOrder
    \/ part = "services" /\ i = 1 /\ shutdown

Done(i) ==
    \/ part = "cache" /\ IsRead(i)
    \/ part = "receiver" /\ i \in DOMAIN MCTextOrder /\ IsPublished(MCTextOrder[i])
    \/ part = "orders" /\ i \in Signals /\ IsAnswered(i)
    \/ part = "predictor" /\ i \in DOMAIN events /\ IsSettled(i)
    \/ part = "tunnel" /\ i \in DOMAIN MCTaskOrder /\ GetsThrough(MCTaskOrder[i])
    \/ part = "services" /\ mainAt = "ended"

WorkEnds == \A i \in 1 .. 3 : Due(i) ~> Done(i)
===============================================================================
