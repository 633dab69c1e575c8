-------------------------- MODULE ServiceSupervisor --------------------------
(***************************************************************************)
(* The supervisor of a managed service process (linkrpc-hub-daemon,        *)
(* supervisor.ts, ServiceSupervisor).                                      *)
(*                                                                         *)
(* Requests (sync, restart, dispose) and the end of a restart backoff are  *)
(* operations that run one after the other; an operation awaits the hub    *)
(* socket, the spawn, or the exit of the process.  The exit of the process *)
(* and the changes of configuration come between any two of these awaits.  *)
(*                                                                         *)
(* Time is not modelled: the length of the backoff, and the counters that  *)
(* determine it, are left out.                                             *)
(***************************************************************************)
EXTENDS Naturals, Sequences, FiniteSets

CONSTANTS
    MaxProcess,   \* bound: processes spawned
    MaxQueue,     \* bound: operations waiting
    MaxRequests   \* bound: requests made

ASSUME SupervisorAssumption == {MaxProcess, MaxQueue, MaxRequests} \subseteq Nat

VARIABLE service

ServiceProcess == 1..MaxProcess

(***************************************************************************)
(* enabled, policy, rpc and readiness are the configuration.  process is   *)
(* _process (0 if undefined), alive the processes that have not exited,    *)
(* killed those that were sent a SIGKILL, abandoned those that outlived    *)
(* it.  backoff is _backoffTimer, named by the process whose exit set it,  *)
(* and ticking says that it has not fired yet.                             *)
(* An operation is a request or <<"respawn", timer>>; awaiting says what   *)
(* the one at the head of the queue waits for, and running is the process  *)
(* it stops.                                                               *)
(***************************************************************************)
ServiceInit ==
    \E policy \in {"always", "on-failure", "never"}, readiness \in {"connected", "spawned"} :
        service = [enabled |-> TRUE, policy |-> policy, readiness |-> readiness,
                   disposed |-> FALSE, state |-> "stopped", process |-> 0, made |-> 0,
                   alive |-> {}, killed |-> {}, abandoned |-> {}, socket |-> FALSE,
                   connected |-> FALSE, backoff |-> 0, ticking |-> FALSE, stopping |-> FALSE,
                   queue |-> <<<<"sync", 0>>>>, awaiting |-> "nothing", running |-> 0, requests |-> 0]

serviceOperation == Head(service.queue)

serviceAwaits(what) == service.queue # << >> /\ service.awaiting = what

\* The operation at the head of the queue is over.
operationOver(s) == [s EXCEPT !.queue = Tail(@), !.awaiting = "nothing", !.running = 0]

releaseSocket(s) == [s EXCEPT !.socket = FALSE, !.connected = FALSE]

-----------------------------------------------------------------------------
\* _spawn opens the hub socket first, unless a former process left it open.
serviceSpawn(s) == [s EXCEPT !.awaiting = IF s.socket THEN "spawn" ELSE "socket"]

serviceLaunch(s) ==
    IF s.disposed \/ ~s.enabled \/ s.process # 0 \/ s.backoff # 0 THEN operationOver(s) ELSE serviceSpawn(s)

\* The end of _stop; restart() goes on with _launch.
serviceStopped(s) ==
    LET t == [releaseSocket(s) EXCEPT !.stopping = FALSE, !.process = 0,
                 !.state = IF serviceOperation[1] = "sync" THEN "disabled" ELSE "stopped"]
    IN  IF serviceOperation[1] = "restart" THEN serviceLaunch(t) ELSE operationOver(t)

\* Mutant: the restart timer survives a stop.
serviceStop_keepsTimer(s) ==
    IF s.process = 0 THEN serviceStopped(s)
    ELSE [releaseSocket(s) EXCEPT !.stopping = TRUE, !.state = "stopping", !.awaiting = "exit",
                                  !.running = s.process]

\* _stop and _terminate, up to the wait for the exit.
serviceStop(s) ==
    LET t == [s EXCEPT !.backoff = 0, !.ticking = FALSE]
    IN  IF t.process = 0 THEN serviceStopped(t)
        ELSE [releaseSocket(t) EXCEPT !.stopping = TRUE, !.state = "stopping", !.awaiting = "exit",
                                      !.running = s.process]

\* Mutant: a timer that was cleared after it had fired spawns all the same.
serviceRespawn_unchecked(s, timer) == serviceSpawn([s EXCEPT !.backoff = 0])

\* The operation of a backoff timer that has fired.
serviceRespawn(s, timer) ==
    IF s.backoff # timer THEN operationOver(s) ELSE serviceSpawn([s EXCEPT !.backoff = 0])

\* Mutant: a disposed supervisor runs no operation at all.
operationSkipped_all(kind) == service.disposed

operationSkipped(kind) == service.disposed /\ kind # "dispose"

\* _enqueue: an operation starts when those before it are over.
OperationStarts ==
    /\ service.queue # << >> /\ service.awaiting = "nothing"
    /\ service.made < MaxProcess \/ serviceOperation[1] = "dispose" \/ service.disposed
    /\ service' =
          IF operationSkipped(serviceOperation[1]) THEN operationOver(service)
          ELSE CASE serviceOperation[1] = "dispose" -> serviceStop(service)
                 [] serviceOperation[1] = "sync" -> IF service.enabled THEN serviceLaunch(service) ELSE serviceStop(service)
                 [] serviceOperation[1] = "restart" -> IF service.enabled THEN serviceStop(service) ELSE operationOver(service)
                 [] serviceOperation[1] = "respawn" -> serviceRespawn(service, serviceOperation[2])

SocketOpened ==
    /\ serviceAwaits("socket")
    /\ service' = [service EXCEPT !.socket = TRUE, !.awaiting = "spawn"]

SocketFails ==
    /\ serviceAwaits("socket")
    /\ service' = [operationOver(service) EXCEPT !.state = "failed"]

ServiceSpawned ==
    /\ serviceAwaits("spawn")
    /\ LET p == service.made + 1
       IN  service' = [operationOver(service) EXCEPT !.made = p, !.process = p, !.alive = @ \cup {p},
                                            !.state = "starting"]

\* _onSpawnFailed
SpawnFails ==
    /\ serviceAwaits("spawn")
    /\ service' = [releaseSocket(operationOver(service)) EXCEPT !.state = "failed"]

\* The process that is being stopped has exited.
ExitSeen ==
    /\ service.awaiting \in {"exit", "kill"} /\ service.running \notin service.alive
    /\ service' = serviceStopped(service)

StopTimesOut ==
    /\ serviceAwaits("exit") /\ service.running \in service.alive
    /\ service' = [service EXCEPT !.awaiting = "kill", !.killed = @ \cup {service.running}]

\* The wait after the kill is limited too.
KillTimesOut ==
    /\ serviceAwaits("kill") /\ service.running \in service.alive
    /\ service' = serviceStopped([service EXCEPT !.abandoned = @ \cup {service.running}])

-----------------------------------------------------------------------------
\* What _onExit decides for the current process.
restartsAfter(failed) ==
    /\ ~service.disposed /\ service.enabled
    /\ service.policy = "always" \/ (service.policy = "on-failure" /\ failed)

\* A process exits; _onExit.
ProcessExits(p, failed) ==
    /\ p \in service.alive
    /\ LET s == [service EXCEPT !.alive = @ \ {p}]
       IN  service' =
             CASE service.process # p -> s
               [] service.process = p /\ service.stopping -> [s EXCEPT !.process = 0]
               [] service.process = p /\ ~service.stopping /\ restartsAfter(failed) ->
                    [s EXCEPT !.process = 0, !.backoff = p, !.ticking = TRUE, !.state = "backoff"]
               [] service.process = p /\ ~service.stopping /\ ~restartsAfter(failed) ->
                    [releaseSocket(s) EXCEPT !.process = 0, !.state = IF failed THEN "failed" ELSE "stopped"]

\* The start timeout kills a process that does not connect; kills work or they do not.
StartTimesOut ==
    /\ service.process # 0 /\ service.process \in service.alive
    /\ service.state = "starting" /\ service.readiness = "connected"
    /\ service' = [service EXCEPT !.killed = @ \cup {service.process}]

ServiceReady ==
    /\ service.process # 0 /\ service.state = "starting" /\ service.readiness = "spawned"
    /\ service' = [service EXCEPT !.state = "running"]

\* _onConnections
ServiceConnects ==
    /\ service.socket /\ service.process # 0 /\ ~service.connected
    /\ service' = [service EXCEPT !.connected = TRUE,
          !.state = IF @ = "starting" /\ service.readiness = "connected" THEN "running" ELSE @]

ServiceDisconnects ==
    /\ service.connected
    /\ service' = [service EXCEPT !.connected = FALSE]

BackoffOver ==
    /\ service.ticking
    /\ Len(service.queue) < MaxQueue
    /\ service' = [service EXCEPT !.ticking = FALSE, !.queue = Append(@, <<"respawn", service.backoff>>)]

-----------------------------------------------------------------------------
\* sync, restart, an update that changes enabled, and dispose.
Requested(kind, s) ==
    /\ Len(service.queue) < MaxQueue
    /\ kind = "dispose" \/ service.requests < MaxRequests
    /\ service' = [s EXCEPT !.queue = Append(@, <<kind, 0>>), !.requests = @ + 1]

SyncRequested == Requested("sync", service)

RestartRequested == Requested("restart", service)

EnabledChanges == Requested("sync", [service EXCEPT !.enabled = ~@])

DisposeRequested == ~service.disposed /\ Requested("dispose", [service EXCEPT !.disposed = TRUE])

SupervisorSteps ==
    \/ OperationStarts
    \/ SocketOpened
    \/ SocketFails
    \/ ServiceSpawned
    \/ SpawnFails
    \/ ExitSeen
    \/ StopTimesOut
    \/ KillTimesOut
    \/ BackoffOver

KilledExits == \E p \in service.killed \ service.abandoned : ProcessExits(p, TRUE)

ServiceNext ==
    \/ SupervisorSteps
    \/ \E p \in ServiceProcess, failed \in BOOLEAN : ProcessExits(p, failed)
    \/ StartTimesOut
    \/ ServiceReady
    \/ ServiceConnects
    \/ ServiceDisconnects
    \/ SyncRequested
    \/ RestartRequested
    \/ EnabledChanges
    \/ DisposeRequested

ServiceSpec == ServiceInit /\ [][ServiceNext]_service

\* Promises settle, timers fire, and a process that is killed exits or is given up.
ServiceLiveSpec == ServiceSpec /\ WF_service(SupervisorSteps) /\ WF_service(KilledExits)

-----------------------------------------------------------------------------
heldProcesses == service.alive \ service.abandoned

\* A service never has two processes, whatever exits, restarts, configuration changes and
\* timers that fired just before they were cleared come together; a process that is not
\* the current one is the one being stopped.
OneServiceProcess ==
    /\ Cardinality(heldProcesses) <= 1
    /\ heldProcesses \subseteq {service.process, service.running}

\* With no operation left to run the service is in its desired state: a disabled or
\* disposed one has no process, no socket and no restart to come; one that is to be always
\* restarted has a process or a timer that is ticking, unless it could not be started.
DesiredState ==
    service.queue = << >> =>
        IF service.disposed \/ ~service.enabled
        THEN heldProcesses = {} /\ service.process = 0 /\ ~service.socket /\ service.backoff = 0
        ELSE service.policy = "always" /\ service.state # "failed" =>
                 service.process # 0 \/ (service.backoff # 0 /\ service.ticking)

\* A disposed service comes to an end, also when its process ignores the request to stop.
DisposeStopsService == service.disposed ~> (service.queue = << >> /\ heldProcesses = {})

\* The supervisor has its service under control, to the end.
ServiceIsControlled == [](OneServiceProcess /\ DesiredState) /\ DisposeStopsService
=============================================================================
