-------------------------- MODULE ManagedEndpoints ---------------------------
(***************************************************************************)
(* The dynamic endpoints of the hub daemon (linkrpc-hub-daemon,            *)
(* managedEndpoints.ts), seen at one address, and what a replacement of    *)
(* the hub and a restart of the daemon do to them (daemon.ts, _apply).     *)
(*                                                                         *)
(* Operations run one after the other; in between them processes end, and  *)
(* calls of run() that own their endpoint end.  Each create makes a new    *)
(* instance.  A supervisor is reduced to whether its workload runs.        *)
(***************************************************************************)
EXTENDS Naturals, Sequences

CONSTANTS
    MaxInstance,     \* bound: instances made
    MaxEndpointOps   \* bound: operations requested

ASSUME EndpointsAssumption == {MaxInstance, MaxEndpointOps} \subseteq Nat

VARIABLE endpoints

Instance == 1..MaxInstance

Absent == [there |-> FALSE, desired |-> FALSE]

(***************************************************************************)
(* entry is the instance in _entries (0: none), file what endpoints.json   *)
(* holds.  queue are the operations of _ops, step the await of its head    *)
(* and subject the instance that await is about.  attached are the owned   *)
(* instances whose run() call has not ended.                               *)
(* acked is what the last operation told its caller of a persistent        *)
(* endpoint, until the next operation starts; raced whether operations     *)
(* were waiting when a hub replacement took its snapshot; revived the      *)
(* instances a start() brought back after they had left the list.          *)
(***************************************************************************)
EndpointsInit ==
    endpoints =
        [entry |-> 0, made |-> 0, persistent |-> {}, owned |-> {}, desired |-> {}, running |-> {},
         file |-> Absent, queue |-> << >>, step |-> "idle", subject |-> 0, attached |-> {}, ops |-> 0,
         closing |-> FALSE, snapshot |-> Absent, acked |-> "none", raced |-> FALSE, revived |-> {}]

endpointOp == Head(endpoints.queue)

endpointStep(kind, step) ==
    endpoints.queue # << >> /\ endpointOp.kind = kind /\ endpoints.step = step

\* Mutant: the definitions are saved, but not whether they are to run.
endpointsSaved_desired(e) ==
    [e EXCEPT !.file = IF e.entry \in e.persistent THEN [there |-> TRUE, desired |-> TRUE] ELSE Absent]

\* _save: the persistent entries.
endpointsSaved(e) ==
    [e EXCEPT !.file = IF e.entry \in e.persistent
                       THEN [there |-> TRUE, desired |-> e.entry \in e.desired] ELSE Absent]

opOver(e, acked) ==
    [e EXCEPT !.queue = Tail(@), !.step = "idle", !.subject = 0, !.acked = acked]

\* What an operation on the entry says when it succeeds.
kept(e) ==
    IF e.entry \notin e.persistent THEN "none" ELSE IF e.entry \in e.desired THEN "kept" ELSE "stopped"

\* Mutant: the address is freed, whoever holds it.
entryRemoved_address(e, i) == [e EXCEPT !.entry = 0]

\* _removeEntry
entryRemoved(e, i) == [e EXCEPT !.entry = IF @ = i THEN 0 ELSE @]

\* _changed: the workload of i is over, and with it an endpoint that is not kept.
finished(e, i) ==
    LET f == [e EXCEPT !.running = @ \ {i}]
    IN  IF e.closing \/ i \in e.persistent THEN f ELSE entryRemoved(f, i)

\* _add
added(e, persistent, owned, desired) ==
    LET i == e.made + 1
    IN  [e EXCEPT !.made = i, !.entry = i,
                  !.persistent = IF persistent THEN @ \cup {i} ELSE @,
                  !.owned = IF owned THEN @ \cup {i} ELSE @,
                  !.desired = IF desired THEN @ \cup {i} ELSE @]

-----------------------------------------------------------------------------
(***************************************************************************)
(* create and run                                                          *)
(***************************************************************************)

\* The rest of _create, once the address is free: the new entry is saved, or the
\* save fails and it goes again.
created(e) ==
    LET f == added(e, endpointOp.persistent, endpointOp.owned, TRUE)
    IN  {[endpointsSaved(f) EXCEPT !.step = "syncing", !.subject = f.entry],
         opOver(entryRemoved(f, f.entry), "none")}

CreateStarts ==
    /\ endpointStep("create", "idle") /\ endpoints.made < MaxInstance
    /\ LET e == [endpoints EXCEPT !.acked = "none"]
       IN  endpoints' \in
             IF e.entry = 0 THEN created(e)
             ELSE IF endpointOp.replace THEN {[e EXCEPT !.step = "replacing", !.subject = e.entry]}
             ELSE {opOver(e, "none")}

\* The endpoint to be replaced is disposed.
CreateReplaces ==
    /\ endpointStep("create", "replacing") /\ endpoints.made < MaxInstance
    /\ endpoints' \in created(entryRemoved(finished(endpoints, endpoints.subject), endpoints.subject))

\* supervisor.sync: the workload starts, or has failed already.  A run() is attached.
CreateSynced(starts) ==
    /\ endpointStep("create", "syncing")
    /\ LET i == endpoints.subject
           e == IF starts THEN [endpoints EXCEPT !.running = @ \cup {i}] ELSE finished(endpoints, i)
       IN  endpoints' = [opOver(e, kept(e)) EXCEPT !.attached = IF i \in e.owned THEN @ \cup {i} ELSE @]

\* The finally block of an owning run().
RunEnds(i) ==
    /\ i \in endpoints.attached
    /\ endpoints' = [endpoints EXCEPT
          !.attached = @ \ {i},
          !.queue = IF endpoints.closing THEN @ ELSE Append(@, [kind |-> "cleanup", instance |-> i])]

CleanupStarts ==
    /\ endpointStep("cleanup", "idle")
    /\ endpoints' = [endpoints EXCEPT !.step = "disposing", !.subject = endpointOp.instance, !.acked = "none"]

\* remove and the cleanup of a run: the supervisor is disposed, the entry goes.
EntryDisposed(kind, acked) ==
    /\ endpointStep(kind, "disposing")
    /\ LET i == endpoints.subject
       IN  endpoints' = opOver(entryRemoved(finished(endpoints, i), i), acked)

(***************************************************************************)
(* start, stop, remove, configure                                          *)
(***************************************************************************)

\* _setDesired and the like: the change is saved, or undone when the save fails.
saveOr(changed, step) ==
    {[endpointsSaved(changed) EXCEPT !.step = step, !.subject = endpoints.entry],
     opOver([endpoints EXCEPT !.acked = "none"], "none")}

operates(kind, changed, step) ==
    /\ endpointStep(kind, "idle")
    /\ endpoints' \in IF endpoints.entry = 0 THEN {opOver(endpoints, "none")}
                      ELSE saveOr([changed EXCEPT !.acked = "none"], step)

StartStarts ==
    operates("start", [endpoints EXCEPT !.desired = @ \cup {endpoints.entry}], "syncing")

\* The workload may have ended, and an ephemeral entry gone, since start looked it up.
StartSynced(starts) ==
    /\ endpointStep("start", "syncing")
    /\ LET i == endpoints.subject
           e == IF starts
                THEN [endpoints EXCEPT !.running = @ \cup {i},
                                       !.revived = IF endpoints.entry = i THEN @ ELSE @ \cup {i}]
                ELSE finished(endpoints, i)
       IN  endpoints' = opOver(e, kept(e))

StopStarts ==
    operates("stop", [endpoints EXCEPT !.desired = @ \ {endpoints.entry}], "stopping")

StopDone ==
    /\ endpointStep("stop", "stopping")
    /\ LET e == finished(endpoints, endpoints.subject) IN endpoints' = opOver(e, kept(e))

RemoveStarts ==
    operates("remove", [endpoints EXCEPT !.entry = 0], "disposing")

\* Of configure, the change of persistent; the supervisor's update is over at once.
Configured(persistent) ==
    /\ endpointStep("configure", "idle")
    /\ persistent => endpoints.entry \notin endpoints.owned
    /\ LET i == endpoints.entry
           e == [endpoints EXCEPT !.persistent = IF persistent THEN @ \cup {i} ELSE @ \ {i}]
           s == endpointsSaved(e)
           f == IF i \in s.running THEN s ELSE finished(s, i)
       IN  endpoints' \in {opOver([endpoints EXCEPT !.acked = "none"], "none")} \cup
                             (IF i = 0 THEN {} ELSE {opOver(f, kept(f))})

EndpointRequested(op) ==
    /\ ~endpoints.closing /\ endpoints.ops < MaxEndpointOps
    /\ endpoints' = [endpoints EXCEPT !.queue = Append(@, op), !.ops = @ + 1]

CreateRequested(persistent, owned, replace) ==
    /\ ~(persistent /\ owned)
    /\ EndpointRequested([kind |-> "create", persistent |-> persistent, owned |-> owned, replace |-> replace])

\* A process ends by itself and is not restarted.
WorkloadEnds(i) ==
    /\ i \in endpoints.running
    /\ endpoints' = finished(endpoints, i)

(***************************************************************************)
(* The hub is replaced: a snapshot, then dispose(), which waits for the    *)
(* operations; a new object restores the snapshot.                         *)
(***************************************************************************)
snapshotOf(e) ==
    [there |-> e.entry # 0 /\ e.entry \notin e.owned, desired |-> e.entry \in e.desired,
     persistent |-> e.entry \in e.persistent]

HubReplaced ==
    /\ ~endpoints.closing /\ ~endpoints.raced
    /\ endpoints' = [endpoints EXCEPT !.closing = TRUE, !.snapshot = snapshotOf(endpoints),
                                      !.raced = endpoints.queue # << >>]

\* What a new object starts with.
restored(e, there, persistent, desired) ==
    LET f == [e EXCEPT !.closing = FALSE, !.running = {}, !.attached = {}, !.entry = 0, !.snapshot = Absent]
        g == added(f, persistent, FALSE, desired)
    IN  IF there THEN [g EXCEPT !.running = IF desired THEN {g.entry} ELSE {}] ELSE f

EndpointsRestored ==
    /\ endpoints.closing /\ endpoints.queue = << >> /\ endpoints.made < MaxInstance
    /\ LET s == endpoints.snapshot
       IN  endpoints' = restored(endpoints, s.there, s.there /\ s.persistent, s.desired)

\* The daemon dies and is started again: the file is all there is, and only an endpoint
\* with a restart policy is started.
DaemonRestarts(policy) ==
    /\ endpoints.made < MaxInstance
    /\ endpoints' = restored([endpoints EXCEPT !.queue = << >>, !.step = "idle", !.subject = 0],
                             endpoints.file.there, TRUE, endpoints.file.desired /\ policy # "never")

EndpointsNext ==
    \/ CreateStarts
    \/ CreateReplaces
    \/ \E starts \in BOOLEAN : CreateSynced(starts) \/ StartSynced(starts)
    \/ \E i \in Instance : RunEnds(i) \/ WorkloadEnds(i)
    \/ CleanupStarts
    \/ EntryDisposed("cleanup", "none")
    \/ EntryDisposed("remove", "removed")
    \/ StartStarts
    \/ StopStarts
    \/ StopDone
    \/ RemoveStarts
    \/ \E persistent \in BOOLEAN : Configured(persistent)
    \/ \E persistent, owned, replace \in BOOLEAN : CreateRequested(persistent, owned, replace)
    \/ \E kind \in {"start", "stop", "remove", "configure"} : EndpointRequested([kind |-> kind])
    \/ HubReplaced
    \/ EndpointsRestored
    \/ \E policy \in {"never", "always"} : DaemonRestarts(policy)

EndpointsSpec == EndpointsInit /\ [][EndpointsNext]_endpoints

-----------------------------------------------------------------------------
\* Every workload that runs can be found and stopped: it is the one listed at the
\* address, or the operation in progress is about to end it.  In particular the
\* cleanup of an owning run() never takes a replacement off the list.  (The exception
\* is a start() that overlapped the end of its ephemeral workload.)
RunningIsListed ==
    endpoints.running \ endpoints.revived \subseteq {endpoints.entry} \cup
        (IF endpoints.step \in {"disposing", "replacing"} THEN {endpoints.subject} ELSE {})

ackedHolds ==
    /\ endpoints.acked \in {"kept", "stopped"} => endpoints.entry # 0
    /\ endpoints.acked = "stopped" => endpoints.entry \notin endpoints.desired
    /\ endpoints.acked = "removed" => endpoints.entry = 0

\* What a caller was told of a persistent endpoint outlives the daemon, and a hub
\* replacement that no operation waits through: created ones are there, stopped ones
\* stay stopped and removed ones stay away, also when a save failed before.
AckedSurvives == ~endpoints.raced => ackedHolds

\* Nothing runs unseen, and nothing that was promised is forgotten.
EndpointsAreKept == RunningIsListed /\ AckedSurvives

\* "Hub configuration reload preserves dynamic definitions in memory"
\* (linkrpc-hub-daemon/README.md), whatever waits while the hub is replaced.
ReloadKeepsDefinitions == ackedHolds
=============================================================================
