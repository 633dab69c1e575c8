------------------------- MODULE TrafficSubscription -------------------------
(***************************************************************************)
(* BoundedTrafficSubscription (linkrpc,                                    *)
(* inspection/boundedTrafficSubscription.ts): a queue of bounded length    *)
(* between the traffic of a hub and one watcher, pumped while a send may   *)
(* take any time or fail.  The events that pass the filter are numbered.   *)
(***************************************************************************)
EXTENDS Naturals, Sequences

CONSTANTS
    QueueLimit,  \* _queueLimit
    MaxTraffic   \* bound: events

ASSUME TrafficAssumption == {QueueLimit, MaxTraffic} \subseteq Nat /\ QueueLimit > 0

VARIABLE traffic

(***************************************************************************)
(* pump is what _pump is doing: "idle", "scheduled" or the send it awaits; *)
(* sending is the event, or the number of drops, that is on its way.       *)
(* seen are the events the watcher got, told the drops it was told of.     *)
(***************************************************************************)
TrafficInit ==
    traffic = [made |-> 0, queue |-> << >>, active |-> TRUE, pump |-> "idle", sending |-> 0,
               overflow |-> 0, delivered |-> 0, dropped |-> 0, seen |-> << >>, told |-> 0, lost |-> 0,
               completed |-> 0, result |-> 0]

completed(t) == [t EXCEPT !.completed = @ + 1, !.result = t.delivered + t.dropped]

\* Mutant: what is queued is forgotten.
trafficDisposed_uncounted(t) == [t EXCEPT !.active = FALSE, !.queue = << >>, !.overflow = 0]

\* dispose, for an active subscription.
trafficDisposed(t) ==
    [t EXCEPT !.active = FALSE, !.dropped = @ + Len(t.queue), !.queue = << >>, !.overflow = 0]

\* Mutant: closed is not resolved when the pump was running.
pumpEnds_silent(t) ==
    [t EXCEPT !.pump = IF t.active /\ (t.queue # << >> \/ t.overflow > 0) THEN "scheduled" ELSE "idle"]

\* The finally block of _pump.
pumpEnds(t) ==
    IF ~t.active THEN completed([t EXCEPT !.pump = "idle"])
    ELSE [t EXCEPT !.pump = IF t.queue # << >> \/ t.overflow > 0 THEN "scheduled" ELSE "idle"]

\* Mutant: the next event goes before the report of what was dropped.
pumped_eventFirst(t) ==
    IF t.active /\ t.queue # << >> THEN [t EXCEPT !.pump = "event", !.sending = Head(t.queue), !.queue = Tail(@)]
    ELSE IF t.active /\ t.overflow > 0 THEN [t EXCEPT !.pump = "overflow", !.sending = t.overflow, !.overflow = 0]
    ELSE pumpEnds(t)

\* The loop of _pump, up to its next await or its end.
pumped(t) ==
    IF t.active /\ t.overflow > 0 THEN [t EXCEPT !.pump = "overflow", !.sending = t.overflow, !.overflow = 0]
    ELSE IF t.active /\ t.queue # << >> THEN [t EXCEPT !.pump = "event", !.sending = Head(t.queue), !.queue = Tail(@)]
    ELSE pumpEnds(t)

-----------------------------------------------------------------------------
Enqueues ==
    /\ traffic.active /\ traffic.made < MaxTraffic
    /\ LET m == traffic.made + 1
           t == IF Len(traffic.queue) >= QueueLimit
                THEN [traffic EXCEPT !.queue = Tail(@), !.dropped = @ + 1, !.overflow = @ + 1]
                ELSE traffic
       IN  traffic' = [t EXCEPT !.made = m, !.queue = Append(@, m),
                                !.pump = IF @ = "idle" THEN "scheduled" ELSE @]

PumpRuns ==
    /\ traffic.pump = "scheduled"
    /\ traffic' = pumped(traffic)

EventSent ==
    /\ traffic.pump = "event"
    /\ traffic' = pumped([traffic EXCEPT !.delivered = @ + 1, !.seen = Append(@, traffic.sending), !.sending = 0])

OverflowSent ==
    /\ traffic.pump = "overflow"
    /\ traffic' = pumped([traffic EXCEPT !.told = @ + traffic.sending, !.sending = 0])

\* A send is rejected: the subscription ends.
TrafficSendFails ==
    /\ traffic.pump \in {"event", "overflow"}
    /\ LET t == [traffic EXCEPT !.sending = 0, !.lost = IF traffic.pump = "event" THEN 1 ELSE 0]
       IN  traffic' = pumpEnds(IF t.active THEN trafficDisposed(t) ELSE t)

TrafficDispose ==
    /\ traffic.active
    /\ traffic' = LET t == trafficDisposed(traffic) IN IF t.pump = "idle" THEN completed(t) ELSE t

TrafficPump == PumpRuns \/ EventSent \/ OverflowSent \/ TrafficSendFails

TrafficNext == Enqueues \/ TrafficPump \/ TrafficDispose

TrafficSpec == TrafficInit /\ [][TrafficNext]_traffic

\* Microtasks run, and a send is answered or rejected.
TrafficLiveSpec == TrafficSpec /\ WF_traffic(TrafficPump)

-----------------------------------------------------------------------------
\* A watcher can tell exactly where events are missing: the event on its way is the
\* one after all that it got or was told to be dropped, and the queue goes on after
\* that one and the drops still to be told.
GapsReported ==
    traffic.active =>
        LET known == Len(traffic.seen) + traffic.told
            onItsWay == CASE traffic.pump = "event" -> 1
                          [] traffic.pump = "overflow" -> traffic.sending
                          [] OTHER -> 0
        IN  /\ traffic.pump = "event" => traffic.sending = known + 1
            /\ \A n \in 1..Len(traffic.queue) : traffic.queue[n] = known + onItsWay + traffic.overflow + n

\* The result of the watch accounts for every event, except the one whose send failed,
\* and closed is resolved once.
WatchResult ==
    /\ traffic.completed <= 1
    /\ traffic.completed = 1 => traffic.result + traffic.lost = traffic.made

\* The watch ends once it is disposed of, also in the middle of a send.
TrafficWatchEnds == ~traffic.active ~> traffic.completed = 1

\* A watcher can account for every event, also for those it did not get, and its watch
\* ends.
TrafficIsAccounted == [](GapsReported /\ WatchResult) /\ TrafficWatchEnds
=============================================================================
