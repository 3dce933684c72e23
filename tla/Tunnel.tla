-------------------------------- MODULE Tunnel ---------------------------------
(***************************************************************************)
(* The way from the local services to the Redis of the VPS: an ssh process *)
(* that forwards a port, the watchdog that keeps one alive                 *)
(* (scripts/ssh_tunnel_watchdog.ps1), and the tasks of a service that      *)
(* share one client and its connections (src/src/infra/redis_retry.py,     *)
(* redis_factory.py): tasks that back off when the connection is lost, as  *)
(* the stream consumer does, and tasks that call again at their interval,  *)
(* as the heartbeat does.                                                  *)
(***************************************************************************)
EXTENDS Integers, Sequences, FiniteSets, SequencesExt, FiniteSetsExt

CONSTANTS
    Tasks, BackingOff,
    Pids,               \* bound: numbers for the ssh processes, used again
    MaxDelay,           \* max_sec of ReconnectBackoff
    MaxManual,          \* bound: tunnels somebody starts by hand
    MaxLosses           \* bound: failures of the network and of processes

ASSUME TunnelAssumption ==
    /\ BackingOff \subseteq Tasks /\ IsFiniteSet(Tasks)
    /\ {MaxManual, MaxLosses} \subseteq Nat /\ MaxDelay \in Nat \ {0} /\ 0 \notin Pids

VARIABLES
    network,            \* whether the VPS can be reached
    tunnels,            \* the ssh processes, the oldest first
    watchdog,           \* its place in the loop and what it saw
    task,               \* of each task: place, connection in use (0: none), attempts, delay
    free,               \* the connections of the pool that are not in use, as a stack
    manual, losses

tunnelVars == <<network, tunnels, watchdog, task, free, manual, losses>>

\* A process that is starting or deaf does not listen; a stuck one accepts connections
\* and forwards nothing.
Listening == {"up", "stuck"}
Closed == 0             \* the process number of a connection that reset_pool closed

Asleep == [at |-> "sleep", seen |-> {}, tcp |-> FALSE, ping |-> FALSE]

TunnelTypeOK ==
    /\ network \in BOOLEAN
    /\ tunnels \in Seq([pid: Pids, state: {"starting", "up", "stuck", "deaf"}, from: {"loop", "hand", "spared"}])
    /\ IsInjective([i \in DOMAIN tunnels |-> tunnels[i].pid])
    /\ watchdog \in [at: {"gone", "sleep", "tcp", "ping", "act", "start"}, seen: SUBSET Pids,
                     tcp: BOOLEAN, ping: BOOLEAN]
    /\ task \in [Tasks -> [at: {"ready", "call", "pause"}, via: Pids \cup {Closed}, delay: 1 .. MaxDelay]]
    /\ free \in Seq(Pids) /\ Len(free) <= Cardinality(Tasks)
    /\ manual \in 0 .. MaxManual /\ losses \in 0 .. MaxLosses

TunnelInit ==
    /\ network = TRUE /\ tunnels = <<>> /\ watchdog = Asleep
    /\ task = [t \in Tasks |-> [at |-> "ready", via |-> Closed, delay |-> 1]]
    /\ free = <<>> /\ manual = 0 /\ losses = 0

Alive == {tunnels[i].pid : i \in DOMAIN tunnels}
InState(states) == {tunnels[i].pid : i \in {j \in DOMAIN tunnels : tunnels[j].state \in states}}
Forwards == InState({"up"})
PortTaken == InState(Listening) # {}

\* The processes that are left without those of these numbers.
Without(pids) ==
    LET left[n \in 0 .. Len(tunnels)] ==
          IF n = 0 THEN <<>>
          ELSE IF tunnels[n].pid \in pids THEN left[n - 1] ELSE Append(left[n - 1], tunnels[n])
    IN  left[Len(tunnels)]

-------------------------------------------------------------------------------
(* The processes and the network. *)

NewPids == Pids \ (Alive \cup Range(free) \cup {task[t].via : t \in Tasks} \cup watchdog.seen)

Spawn(from) ==
    /\ NewPids # {}
    /\ tunnels' = Append(tunnels, [pid |-> CHOOSE p \in NewPids : TRUE, state |-> "starting", from |-> from])

\* The forward is bound, or ssh exits (ExitOnForwardFailure, ConnectTimeout).
Establish(i) ==
    /\ tunnels[i].state = "starting"
    /\ tunnels' = IF network /\ ~PortTaken THEN [tunnels EXCEPT ![i].state = "up"]
                  ELSE Without({tunnels[i].pid})
    /\ UNCHANGED <<network, watchdog, task, free, manual, losses>>

Lose == losses < MaxLosses /\ losses' = losses + 1

\* A glitch: a process ends, or lives on and forwards nothing.
ConnectionBreaks(i) ==
    /\ tunnels[i].state = "up" /\ Lose
    /\ \/ tunnels' = Without({tunnels[i].pid})
       \/ \E bad \in {"stuck", "deaf"} : tunnels' = [tunnels EXCEPT ![i].state = bad]
    /\ UNCHANGED <<network, watchdog, task, free, manual>>

NetworkDown ==
    /\ network /\ Lose /\ network' = FALSE
    /\ tunnels' = [i \in DOMAIN tunnels |-> [tunnels[i] EXCEPT !.state = IF @ = "up" THEN "stuck" ELSE @]]
    /\ UNCHANGED <<watchdog, task, free, manual>>

NetworkUp ==
    /\ ~network /\ network' = TRUE
    /\ UNCHANGED <<tunnels, watchdog, task, free, manual, losses>>

\* The profile of a shell starts a tunnel too.
ManualStart ==
    /\ manual < MaxManual /\ manual' = manual + 1 /\ Spawn("hand")
    /\ UNCHANGED <<network, watchdog, task, free, losses>>

-------------------------------------------------------------------------------
(* The watchdog. *)

WatchdogDies ==
    /\ watchdog.at # "gone" /\ Lose /\ watchdog' = [Asleep EXCEPT !.at = "gone"]
    /\ UNCHANGED <<network, tunnels, task, free, manual>>

\* Another one starts at the next logon and takes the abandoned mutex; one that finds the
\* mutex taken exits.
WatchdogStarts ==
    /\ watchdog.at = "gone" /\ watchdog' = Asleep
    /\ UNCHANGED <<network, tunnels, task, free, manual, losses>>

\* Get-OurSshProcesses.  The pauses, of 4 and 15 seconds, are longer than ssh takes to
\* connect or to give up, so that the process the loop has started is through with it.
Look ==
    /\ watchdog.at = "sleep" /\ \A i \in DOMAIN tunnels : tunnels[i].state = "starting" => tunnels[i].from # "loop"
    /\ watchdog' = [Asleep EXCEPT !.at = "tcp", !.seen = Alive]
    /\ UNCHANGED <<network, tunnels, task, free, manual, losses>>

ProbeTcp ==
    /\ watchdog.at = "tcp"
    /\ watchdog' = [watchdog EXCEPT !.tcp = PortTaken, !.at = IF PortTaken THEN "ping" ELSE "act"]
    /\ UNCHANGED <<network, tunnels, task, free, manual, losses>>

ProbePing ==
    /\ watchdog.at = "ping"
    /\ watchdog' = [watchdog EXCEPT !.ping = Forwards # {}, !.at = "act"]
    /\ UNCHANGED <<network, tunnels, task, free, manual, losses>>

Healthy == watchdog.tcp /\ watchdog.ping

\* Mutant: a tunnel that does not answer is left to its timeouts.
KillDuplicatesOnly ==
    LET left == {i \in DOMAIN tunnels : tunnels[i].pid \in watchdog.seen} IN
    {tunnels[i].pid : i \in left \ (IF left = {} THEN {} ELSE {Min(left)})}

\* All that were seen when one does not answer, else all but the oldest of them.
ToKill == IF ~Healthy THEN watchdog.seen
          ELSE LET left == {i \in DOMAIN tunnels : tunnels[i].pid \in watchdog.seen} IN
               {tunnels[i].pid : i \in left \ (IF left = {} THEN {} ELSE {Min(left)})}

\* The body of the loop.  A process that cannot be killed is left alone.
Act ==
    /\ watchdog.at = "act"
    /\ \E spared \in {{}} \cup {{p} : p \in ToKill} :
         /\ LET left == Without(ToKill \ spared) IN
            tunnels' = [i \in DOMAIN left |->
                          IF left[i].pid \in spared THEN [left[i] EXCEPT !.from = "spared"] ELSE left[i]]
         /\ IF spared = {} THEN UNCHANGED losses ELSE Lose
    /\ watchdog' = [Asleep EXCEPT !.at = IF Healthy /\ watchdog.seen # {} THEN "sleep" ELSE "start"]
    /\ UNCHANGED <<network, task, free, manual>>

\* Start-Tunnel.
StartTunnel ==
    /\ watchdog.at = "start" /\ watchdog' = Asleep
    /\ Spawn("loop")
    /\ UNCHANGED <<network, task, free, manual, losses>>

-------------------------------------------------------------------------------
(* The tasks of a service. *)

\* The pause after a failure: ReconnectBackoff.sleep, or the interval of the heartbeat.
Paused(t) == [at |-> "pause", via |-> Closed,
              delay |-> IF t \in BackingOff THEN Min({2 * task[t].delay, MaxDelay}) ELSE task[t].delay]

\* reset_pool: connections that are in use by another task are closed too.
ResetPool(t) ==
    /\ free' = <<>>
    /\ task' = [u \in Tasks |-> IF u = t THEN Paused(t) ELSE [task[u] EXCEPT !.via = Closed]]

\* is_connection_error holds for all failures here.  The reset itself may fail: the
\* connection goes back to the pool as it is.
Fail(t) ==
    \/ ResetPool(t) /\ UNCHANGED losses
    \/ /\ Lose /\ task' = [task EXCEPT ![t] = Paused(t)]
       /\ free' = IF task[t].via = Closed THEN free ELSE Append(free, task[t].via)

\* A command takes the connection that came back last, or opens one.
Call(t) ==
    /\ task[t].at = "ready"
    /\ \/ /\ free # <<>> /\ free' = Front(free) /\ UNCHANGED losses
          /\ task' = [task EXCEPT ![t].at = "call", ![t].via = Last(free)]
       \/ /\ free = <<>> /\ UNCHANGED <<free, losses>>
          /\ \E p \in InState(Listening) : task' = [task EXCEPT ![t].at = "call", ![t].via = p]
       \/ free = <<>> /\ ~PortTaken /\ Fail(t)
    /\ UNCHANGED <<network, tunnels, watchdog, manual>>

\* The answer, or the error or timeout of a connection that leads nowhere (socket_timeout,
\* keepalive: a command never hangs).
Return(t) ==
    /\ task[t].at = "call"
    /\ IF task[t].via \in Forwards
       THEN /\ free' = Append(free, task[t].via) /\ UNCHANGED losses
            /\ task' = [task EXCEPT ![t] = [at |-> "ready", via |-> Closed, delay |-> 1]]
       ELSE Fail(t)
    /\ UNCHANGED <<network, tunnels, watchdog, manual>>

\* A pause is over.  It takes a second at least, and a connection that was closed under a
\* task fails at once.
Resume(t) ==
    /\ task[t].at = "pause" /\ \A u \in Tasks : task[u].at = "call" => task[u].via # Closed
    /\ task' = [task EXCEPT ![t].at = "ready"]
    /\ UNCHANGED <<network, tunnels, watchdog, free, manual, losses>>

-------------------------------------------------------------------------------

Loop == Look \/ ProbeTcp \/ ProbePing \/ Act \/ StartTunnel \/ WatchdogStarts

Client(t) == Call(t) \/ Return(t) \/ Resume(t)

Ssh == \E i \in DOMAIN tunnels : Establish(i)

TunnelNext ==
    \/ Loop \/ Ssh \/ NetworkUp \/ \E t \in Tasks : Client(t)
    \/ NetworkDown \/ ManualStart \/ WatchdogDies \/ \E i \in DOMAIN tunnels : ConnectionBreaks(i)

\* The watchdog and the tasks are loops, ssh has its timeouts, and the network comes back.
TunnelFairness == /\ WF_tunnelVars(Loop) /\ WF_tunnelVars(Ssh) /\ WF_tunnelVars(NetworkUp)
                  /\ \A t \in Tasks : WF_tunnelVars(Client(t))

TunnelSpec == TunnelInit /\ [][TunnelNext]_tunnelVars /\ TunnelFairness

-------------------------------------------------------------------------------
(* Properties. *)

\* The loop that starts a tunnel whenever it finds none working does not pile them up:
\* beside those started by hand and those it could not kill there is one at most, however
\* the one before it failed and whenever the watchdog itself was replaced.
TunnelsDoNotPileUp == Cardinality({i \in DOMAIN tunnels : tunnels[i].from = "loop"}) <= 1

\* Once the failures are over, every task gets through to Redis again and again.
GetsThrough(t) == task[t].at = "call" /\ task[t].via \in Forwards
RedisComesBack == \A t \in Tasks : []<>GetsThrough(t)

\* Why they do not pile up: a tunnel of the loop is among those that were seen, and the
\* next one is started when it was killed or could not be.
LoopTunnels == {i \in DOMAIN tunnels : tunnels[i].from = "loop"}

\* Tasks that hold a connection.
Connected == {t \in Tasks : task[t].via # Closed}

TunnelInv ==
    /\ TunnelTypeOK
    /\ \A i, j \in LoopTunnels : i = j
    /\ watchdog.at \in {"tcp", "ping", "act"} => \A i \in LoopTunnels : tunnels[i].pid \in watchdog.seen
    /\ watchdog.at = "start" => LoopTunnels = {}
    /\ \A t \in Connected : task[t].at = "call"
    /\ Len(free) + Cardinality(Connected) <= Cardinality(Tasks)
===============================================================================
