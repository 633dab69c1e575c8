------------------------- MODULE SingleInstanceLock --------------------------
(***************************************************************************)
(* The mutex of the hub daemon (linkrpc-hub-daemon, singleInstance.ts): a  *)
(* bound Unix socket.  Several processes acquire it at the same time; each *)
(* step below is one system call, and they interleave between processes.   *)
(***************************************************************************)
EXTENDS Naturals, FiniteSets

CONSTANTS
    Daemon,    \* the processes
    NoSocket,  \* there is no file at the endpoint
    Stale      \* the file of a process that has died

VARIABLE lock

(***************************************************************************)
(* path is what the file leads to: a process that listens, or Stale.       *)
(***************************************************************************)
LockType ==
    [path : Daemon \cup {NoSocket, Stale},
     pc : [Daemon -> {"listen", "probe", "remove", "relisten", "held", "closing", "refused", "gone"}]]

\* A crash may have left a file behind.
LockInit ==
    \E path \in {NoSocket, Stale} :
        lock = [path |-> path, pc |-> [d \in Daemon |-> "listen"]]

-----------------------------------------------------------------------------
\* _listen binds the endpoint if there is no file, whoever the file belongs to.
Listens(d, place, inUse) ==
    /\ lock.pc[d] = place
    /\ lock' = IF lock.path = NoSocket
               THEN [lock EXCEPT !.path = d, !.pc[d] = "held"]
               ELSE [lock EXCEPT !.pc[d] = inUse]

\* _isAlive: somebody accepts at the endpoint.
ProbesLock(d) ==
    /\ lock.pc[d] = "probe"
    /\ lock' = [lock EXCEPT !.pc[d] = IF lock.path \in Daemon THEN "refused" ELSE "remove"]

RemovesSocket(d) ==
    /\ lock.pc[d] = "remove"
    /\ lock' = [lock EXCEPT !.path = NoSocket, !.pc[d] = "relisten"]

\* dispose: closing a server unlinks its path, and the file is removed once more.
ReleasesLock(d) ==
    /\ lock.pc[d] = "held"
    /\ lock' = [lock EXCEPT !.path = NoSocket, !.pc[d] = "closing"]

RemovesReleased(d) ==
    /\ lock.pc[d] = "closing"
    /\ lock' = [lock EXCEPT !.path = NoSocket, !.pc[d] = "gone"]

DaemonCrashes(d) ==
    /\ lock.pc[d] = "held"
    /\ lock' = [lock EXCEPT !.path = IF @ = d THEN Stale ELSE @, !.pc[d] = "gone"]

LockNext ==
    \E d \in Daemon :
        \/ Listens(d, "listen", "probe")
        \/ ProbesLock(d)
        \/ RemovesSocket(d)
        \/ Listens(d, "relisten", "refused")
        \/ ReleasesLock(d)
        \/ RemovesReleased(d)
        \/ DaemonCrashes(d)

LockSpec == LockInit /\ [][LockNext]_lock

-----------------------------------------------------------------------------
\* "Process-lifetime mutex: a bound local socket." (singleInstance.ts): at most one
\* process holds it.
OneDaemon == Cardinality({d \in Daemon : lock.pc[d] = "held"}) <= 1
=============================================================================
