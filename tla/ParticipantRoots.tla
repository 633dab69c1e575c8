-------------------------- MODULE ParticipantRoots --------------------------
(***************************************************************************)
(* Watching the roots of all participants of a hub (linkrpc-hub,           *)
(* hub/server/routing/participantRoots.ts, watch()).                       *)
(*                                                                         *)
(* watch() keeps one watch per participant link.  A link that leaves and   *)
(* comes back gets a new ParticipantWatchState; the settle callback of a   *)
(* watch is deferred to a microtask and may find its state replaced.       *)
(***************************************************************************)
EXTENDS Naturals, FiniteSets

CONSTANTS
    RootLink,       \* the links that may own a prefix
    MaxWatchState,  \* bound: states made by one watch()
    RetryMin,       \* the first retry delay
    RetryMax        \* its cap

ASSUME RetryAssumption ==
    /\ MaxWatchState \in Nat
    /\ RetryMin \in Nat \ {0}
    /\ RetryMax \in Nat
    /\ RetryMin <= RetryMax

VARIABLE roots

WatchState == 1..MaxWatchState

(***************************************************************************)
(* A watch state is a number; entry 0 stands for no entry.  live holds the *)
(* states whose hub-side watch is active, settled those whose deferred     *)
(* settle callback is queued.                                              *)
(***************************************************************************)
RootsType ==
    [links    : SUBSET RootLink,                        \* _participantLinks()
     disposed : BOOLEAN,
     watches  : [RootLink -> {0} \cup WatchState],
     made     : {0} \cup WatchState,                    \* states made so far
     of       : [WatchState -> {0} \cup RootLink],      \* the link a state was made for
     live     : SUBSET WatchState,
     settled  : SUBSET WatchState,
     retry    : SUBSET WatchState,                      \* states whose retry timer is armed
     delay    : [WatchState -> RetryMin..RetryMax]]

RootsInit ==
    roots = [links |-> {}, disposed |-> FALSE, watches |-> [l \in RootLink |-> 0], made |-> 0,
             of |-> [s \in WatchState |-> 0], live |-> {}, settled |-> {}, retry |-> {},
             delay |-> [s \in WatchState |-> RetryMin]]

-----------------------------------------------------------------------------
\* start: a watch whose request cannot be sent settles before watchOnLink returns.
watchStarted(r, s, sent) ==
    IF r.disposed \/ r.of[s] \notin r.links THEN r
    ELSE IF sent THEN [r EXCEPT !.live = @ \cup {s}]
    ELSE [r EXCEPT !.settled = @ \cup {s}]

\* Mutant: the armed retry is forgotten.
watchStopped_keepsRetry(r, s) == [r EXCEPT !.live = @ \ {s}]

\* stopState: disposing a hub-side watch cancels it without a settle callback.
watchStopped(r, s) == [r EXCEPT !.live = @ \ {s}, !.retry = @ \ {s}]

\* reconcile, for the one link that a routing change adds or removes.
RootAdded(l, sent) ==
    /\ l \notin roots.links
    /\ roots.made < MaxWatchState
    /\ LET s == roots.made + 1
           r == [roots EXCEPT !.links = @ \cup {l}]
       IN  roots' = IF roots.disposed THEN r
                    ELSE watchStarted([r EXCEPT !.watches[l] = s, !.made = s, !.of[s] = l], s, sent)

\* A detached link also settles the watch the hub had on it; a released prefix does not.
RootRemoved(l, detached) ==
    /\ l \in roots.links
    /\ LET s == roots.watches[l]
           r == [roots EXCEPT !.links = @ \ {l}, !.watches[l] = 0,
                              !.settled = IF detached THEN @ \cup ({s} \cap roots.live) ELSE @]
       IN  roots' = IF s = 0 THEN r ELSE watchStopped(r, s)

\* The response of a watch, its idle timeout or a failed write: onSettled.
WatchSettled(s) ==
    /\ s \in roots.live
    /\ roots' = [roots EXCEPT !.live = @ \ {s}, !.settled = @ \cup {s}]

\* Mutant: a watch that has settled is not retried.
SettledSeen_noRetry(s) ==
    /\ s \in roots.settled
    /\ roots' = [roots EXCEPT !.settled = @ \ {s}]

\* The microtask of onSettled.
SettledSeen(s) ==
    /\ s \in roots.settled
    /\ roots' = IF roots.disposed \/ roots.watches[roots.of[s]] # s
                THEN [roots EXCEPT !.settled = @ \ {s}]
                ELSE [roots EXCEPT
                        !.settled = @ \ {s}, !.retry = @ \cup {s},
                        !.delay[s] = IF 2 * @ < RetryMax THEN 2 * @ ELSE RetryMax]

RetryFires(s, sent) ==
    /\ s \in roots.retry
    /\ roots' = watchStarted([roots EXCEPT !.retry = @ \ {s}], s, sent)

WatchEstablished(s) ==
    /\ s \in roots.live
    /\ roots' = [roots EXCEPT !.delay[s] = RetryMin]

RootsDispose ==
    /\ ~roots.disposed
    /\ roots' = [roots EXCEPT
          !.disposed = TRUE, !.watches = [l \in RootLink |-> 0], !.live = {}, !.retry = {}]

RootsNext ==
    \/ \E l \in RootLink, sent \in BOOLEAN : RootAdded(l, sent)
    \/ \E l \in RootLink, detached \in BOOLEAN : RootRemoved(l, detached)
    \/ \E s \in WatchState : WatchSettled(s)
    \/ \E s \in WatchState : SettledSeen(s)
    \/ \E s \in WatchState, sent \in BOOLEAN : RetryFires(s, sent)
    \/ \E s \in WatchState : WatchEstablished(s)
    \/ RootsDispose

RootsSpec == RootsInit /\ [][RootsNext]_roots

-----------------------------------------------------------------------------
RootsTypeOK == roots \in RootsType

\* Every participant link is watched, about to be retried, or has its settle callback
\* queued: no order of detach, re-attach, settle and retry leaves a root unwatched.
RootsWatched ==
    ~roots.disposed =>
        \A l \in roots.links :
            /\ roots.watches[l] # 0
            /\ roots.watches[l] \in roots.live \cup roots.retry \cup roots.settled

\* ... and by one watch: what a departed link or a disposed watch() had is not running
\* and will not start again.
RootsWatchedOnce ==
    \A s \in roots.live \cup roots.retry :
        ~roots.disposed /\ roots.watches[roots.of[s]] = s /\ s \notin roots.live \cap roots.retry

\* Watching the roots works: a participant link is watched, and by one watch, through
\* every order of its leaving and coming back, of settling watches and of retries.
RootsCovered == RootsTypeOK /\ RootsWatched /\ RootsWatchedOnce
=============================================================================
