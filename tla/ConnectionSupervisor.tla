------------------------- MODULE ConnectionSupervisor -------------------------
(***************************************************************************)
(* The supervisor of a service that is an endpoint to connect to           *)
(* (linkrpc-hub-daemon, connectionSupervisor.ts; the calls it gets from    *)
(* daemon.ts).                                                             *)
(*                                                                         *)
(* An attempt opens a transport to the endpoint (target), a socket of the  *)
(* hub, a transport to that socket (local), registers the service id over  *)
(* it, and relays.  The generation tells an attempt that it is out of      *)
(* date.  sync, restart and dispose are async methods: nothing but the     *)
(* promise of the last attempt (_pending) keeps two of them apart.  The    *)
(* daemon runs its reloads, and its shutdown, one after the other, but     *)
(* restartService runs beside them.                                        *)
(***************************************************************************)
EXTENDS Naturals

CONSTANTS
    Manager,       \* those that call the supervisor at the same time
    Reloader,      \* the one of them that applies the configuration; all may restart it
    MaxAttempt,    \* bound: attempts to connect
    MaxCommands    \* bound: calls of the supervisor

ASSUME ConnectionAssumption == {MaxAttempt, MaxCommands} \subseteq Nat

VARIABLE connection

ConnectionAttempt == 1..MaxAttempt

ConnectionPart == {"target", "socket", "local"}

(***************************************************************************)
(* held is _target, _socket and _local, each the attempt that opened it (0 *)
(* if undefined); open are the parts that are open, <<part, attempt>>.     *)
(* pc is what an attempt awaits ("over" once its promise is settled), and  *)
(* of its generation.  timer is the generation a retry was scheduled for.  *)
(* caller says what each manager is doing: the method and, in waits, the   *)
(* attempt whose promise it awaits (0 for a settled one).  Two fields are  *)
(* the history of overlapping calls: overtaken says that a dispose() went  *)
(* on after a newer attempt than the one it awaited was started, revived   *)
(* that a restart() connected a service that had been removed.             *)
(***************************************************************************)
ConnectionInit ==
    \E policy \in {"always", "never"} :
        connection =
            [policy |-> policy, state |-> "stopped", generation |-> 0, pending |-> 0, made |-> 0,
             held |-> [p \in ConnectionPart |-> 0], open |-> {}, pc |-> [a \in ConnectionAttempt |-> "none"],
             of |-> [a \in ConnectionAttempt |-> 0], timer |-> 0, enabled |-> TRUE, removed |-> FALSE,
             commands |-> 0, overtaken |-> FALSE, revived |-> FALSE,
             caller |-> [m \in Manager |-> "idle"], waits |-> [m \in Manager |-> 0]]

\* _cleanup
connectionCleanup(c) ==
    [c EXCEPT !.open = {o \in @ : c.held[o[1]] # o[2]}, !.held = [p \in ConnectionPart |-> 0]]

attemptSettled(c, a) == [c EXCEPT !.pc[a] = "over"]

\* _connect, up to its first await.
attemptStarted(c, generation) ==
    LET a == c.made + 1
    IN  [c EXCEPT !.made = a, !.pending = a, !.state = "starting", !.generation = generation,
                  !.pc[a] = "target", !.of[a] = generation]

\* _failed
connectionFailed(c, a) ==
    IF c.of[a] # c.generation THEN attemptSettled(c, a)
    ELSE [connectionCleanup(attemptSettled(c, a)) EXCEPT
            !.state = IF c.policy = "never" THEN "failed" ELSE "backoff",
            !.timer = IF c.policy = "never" THEN @ ELSE c.generation]

attemptIsCurrent(a) == connection.of[a] = connection.generation

-----------------------------------------------------------------------------
TargetOpened(a) ==
    /\ connection.pc[a] = "target"
    /\ connection' =
          IF ~attemptIsCurrent(a) THEN attemptSettled(connection, a)
          ELSE [connection EXCEPT !.pc[a] = "socket", !.held.target = a, !.open = @ \cup {<<"target", a>>}]

\* Mutant: an attempt that is out of date leaves its socket behind.
SocketAssigned_unchecked(a) ==
    /\ connection.pc[a] = "socket"
    /\ connection' = LET c == [connection EXCEPT !.held.socket = a, !.open = @ \cup {<<"socket", a>>}]
                     IN  IF ~attemptIsCurrent(a) THEN attemptSettled(c, a) ELSE [c EXCEPT !.pc[a] = "local"]

SocketAssigned(a) ==
    /\ connection.pc[a] = "socket"
    /\ connection' = LET c == [connection EXCEPT !.held.socket = a, !.open = @ \cup {<<"socket", a>>}]
                     IN  IF ~attemptIsCurrent(a) THEN connectionCleanup(attemptSettled(c, a)) ELSE [c EXCEPT !.pc[a] = "local"]

LocalOpened(a) ==
    /\ connection.pc[a] = "local"
    /\ connection' =
          IF ~attemptIsCurrent(a) THEN connectionCleanup(attemptSettled(connection, a))
          ELSE [connection EXCEPT !.pc[a] = "register", !.held.local = a, !.open = @ \cup {<<"local", a>>}]

\* The registration is answered, over a transport that is still open.
EndpointRegistered(a) ==
    /\ connection.pc[a] = "register" /\ <<"local", a>> \in connection.open
    /\ connection' = [connection EXCEPT !.pc[a] = "relaying", !.state = "running"]

\* One of the awaits rejects.  A transport that closes rejects no registration.
AttemptRejected(a) ==
    /\ connection.pc[a] \in {"target", "socket", "local", "register"}
    /\ connection.pc[a] = "register" => <<"local", a>> \in connection.open
    /\ connection' = connectionFailed(connection, a)

\* One of the two relayed transports has closed.
DisconnectSeen(a) ==
    /\ connection.pc[a] = "relaying"
    /\ ~({<<"target", a>>, <<"local", a>>} \subseteq connection.open)
    /\ connection' = connectionFailed(connection, a)

RetryDue ==
    /\ connection.timer # 0 /\ connection.made < MaxAttempt
    /\ LET c == [connection EXCEPT !.timer = 0]
       IN  connection' = IF connection.timer = connection.generation
                         THEN attemptStarted(c, connection.generation) ELSE c

\* The far end or the hub closes a transport.
ConnectionTransportCloses(part, a) ==
    /\ part \in {"target", "local"} /\ <<part, a>> \in connection.open
    /\ connection' = [connection EXCEPT !.open = @ \ {<<part, a>>}]

-----------------------------------------------------------------------------
\* sync() of a service that is enabled: a connection that is on its way is left alone.
connectionSync(c) ==
    IF c.state \in {"running", "starting", "backoff"} THEN c ELSE attemptStarted(c, c.generation + 1)

\* The manager awaits the attempt that its sync() started.
synced(m) ==
    LET c == connectionSync(connection)
    IN  [c EXCEPT !.caller[m] = "sync", !.waits[m] = IF c.made = connection.made THEN 0 ELSE c.pending]

\* dispose() up to its await.
disposed(m, method) ==
    [connectionCleanup(connection) EXCEPT
        !.generation = @ + 1, !.timer = 0, !.caller[m] = method, !.waits[m] = connection.pending]

\* A service is added, or updated to be enabled.
Syncs(m) ==
    /\ m = Reloader /\ connection.caller[m] = "idle" /\ ~connection.removed
    /\ connection.commands < MaxCommands /\ connection.made < MaxAttempt
    /\ connection' = [synced(m) EXCEPT !.commands = @ + 1, !.enabled = TRUE]

\* dispose() for an update that disables the service; at the start of restart(); and for a
\* service that the configuration no longer has, which the daemon forgets first, or has
\* otherwise, which it forgets afterwards ("replace").
Disposes(m, method) ==
    /\ connection.caller[m] = "idle" /\ ~connection.removed
    /\ IF method = "restart" THEN connection.enabled ELSE m = Reloader
    /\ connection.commands < MaxCommands
    /\ connection' = [disposed(m, method) EXCEPT
          !.removed = method = "remove", !.enabled = @ /\ method # "dispose", !.commands = @ + 1]

\* Mutant: dispose() does not wait for the attempt in progress.
managerWaited_not(m) == TRUE

\* The promise a manager awaits is settled.
managerWaited(m) == connection.waits[m] # 0 => connection.pc[connection.waits[m]] \in {"over", "relaying"}

\* The rest of it, whatever was started meanwhile; restart() goes on with sync().
ManagerResumes(m) ==
    /\ connection.caller[m] \in {"dispose", "restart", "remove", "replace"} /\ managerWaited(m)
    /\ connection' = [connection EXCEPT
          !.state = "stopped", !.waits[m] = 0,
          !.overtaken = @ \/ connection.pending # connection.waits[m],
          !.removed = @ \/ connection.caller[m] = "replace",
          !.caller[m] = [dispose |-> "idle", restart |-> "resync", remove |-> "gone", replace |-> "gone"][@]]

\* A service that was disabled meanwhile is disposed again, one that was removed is not noticed.
Resyncs(m) ==
    /\ connection.caller[m] = "resync"
    /\ \/ ~connection.enabled /\ connection' = disposed(m, "dispose")
       \/ /\ connection.enabled /\ connection.made < MaxAttempt
          /\ connection' = [synced(m) EXCEPT !.revived = @ \/ connection.removed]

SyncReturns(m) ==
    /\ connection.caller[m] = "sync" /\ managerWaited(m)
    /\ connection' = [connection EXCEPT !.caller[m] = "idle", !.waits[m] = 0]

AttemptStep(a) ==
    \/ TargetOpened(a)
    \/ SocketAssigned(a)
    \/ LocalOpened(a)
    \/ EndpointRegistered(a)
    \/ AttemptRejected(a)
    \/ DisconnectSeen(a)

ManagerStep(m) == ManagerResumes(m) \/ Resyncs(m) \/ SyncReturns(m)

ConnectionNext ==
    \/ \E a \in ConnectionAttempt : AttemptStep(a)
    \/ RetryDue
    \/ \E part \in ConnectionPart, a \in ConnectionAttempt : ConnectionTransportCloses(part, a)
    \/ \E m \in Manager : Syncs(m)
    \/ \E m \in Manager, method \in {"dispose", "restart", "remove", "replace"} : Disposes(m, method)
    \/ \E m \in Manager : ManagerStep(m)

ConnectionSpec == ConnectionInit /\ [][ConnectionNext]_connection

-----------------------------------------------------------------------------
attemptAtWork(a) == connection.pc[a] \in {"target", "socket", "local", "register"}

\* What is open belongs to the current connection or to an attempt that will still look
\* at its generation: disposing while a transport or the hub's socket is being opened
\* leaves none of them behind, and a retry starts with nothing.
NothingStaysOpen ==
    /\ \A o \in connection.open : connection.held[o[1]] = o[2]
    /\ connection.state # "running" /\ (\A a \in ConnectionAttempt : ~attemptAtWork(a)) => connection.open = {}

\* At most one attempt is at work, and it is the one a manager would wait for.
OneAttempt == \A a \in ConnectionAttempt : attemptAtWork(a) => a = connection.pending

\* "Stop removed services first: a renamed service must release its resources ... before
\* its successor starts" (daemon.ts): a removed service that was disposed stays down,
\* whatever was under way when it was removed, unless a restart() that was under way too
\* went on to connect it.
RemovedStaysDown ==
    \A m \in Manager : connection.caller[m] = "gone" /\ ~connection.revived =>
        connection.open = {} /\ \A a \in ConnectionAttempt : ~attemptAtWork(a)

\* An endpoint's connection is under control: one attempt at a time, nothing open that
\* nobody holds, nothing at all once it is removed.  The exception is what dispose() does
\* not guard against: it sets the state to "stopped" after its await also when another
\* call has started a newer attempt, which nobody waits for from then on.
ConnectionIsContained == connection.overtaken \/ (NothingStaysOpen /\ OneAttempt /\ RemovedStaysDown)
=============================================================================
