----------------------------- MODULE JsonRpcPeer ----------------------------
(***************************************************************************)
(* The peer of the JSON-RPC bridge (json-rpc/jsonRpcPeer.ts), which makes  *)
(* a foreign JSON-RPC server usable by polling clients: requests of the    *)
(* server are kept under a token until a client responds, a timer rejects  *)
(* them or the ring of events overflows; clients read the ring from a      *)
(* cursor and may wait; calls to the server are settled by the response,   *)
(* an abort, a failed write or the close.                                  *)
(***************************************************************************)
EXTENDS Naturals, Sequences, FiniteSets, SequencesExt

CONSTANTS ReverseRequest,   \* requests of the server
          BridgeCall,       \* requests of the clients
          BridgeReader,     \* clients that read events
          EventLimit,       \* options.eventLimit
          MaxBridgeEvents   \* bound on events

ASSUME BridgeAssumption == {EventLimit, MaxBridgeEvents} \subseteq Nat

VARIABLE bridge

Notified == "notification"

BridgeTypeOK ==
    /\ bridge.policy \in {"queue", "reject"}
    /\ bridge.link \in {"open", "closing", "closed"} /\ bridge.closed \in BOOLEAN
    /\ bridge.events \in Seq([sequence : 1..MaxBridgeEvents, about : ReverseRequest \cup {Notified}])
    /\ bridge.sequence \in 1..MaxBridgeEvents + 1
    /\ bridge.arrived \subseteq ReverseRequest /\ bridge.pendingReverse \subseteq ReverseRequest
    /\ bridge.timers \subseteq ReverseRequest /\ bridge.writing \subseteq ReverseRequest
    /\ bridge.answers \in [ReverseRequest -> Nat]
    /\ bridge.pending \subseteq BridgeCall
    /\ bridge.outcome \in [BridgeCall -> {"none", "waiting", "settled"}]
    /\ bridge.waiting \subseteq BridgeReader
    /\ bridge.after \in [BridgeReader -> 0..MaxBridgeEvents]
    /\ bridge.misreported \in [BridgeReader -> SUBSET (1..MaxBridgeEvents)]

\* answers: frames handed to the transport for a request of the server.  writing: those
\* whose failure would finish the peer.  misreported: events a reader passed over without
\* being told that they are gone, or was told so although it got them.
BridgeInit ==
    \E policy \in {"queue", "reject"} :
        bridge = [policy |-> policy, link |-> "open", closed |-> FALSE, events |-> << >>, sequence |-> 1,
                  arrived |-> {}, pendingReverse |-> {}, timers |-> {}, writing |-> {},
                  answers |-> [r \in ReverseRequest |-> 0], pending |-> {},
                  outcome |-> [c \in BridgeCall |-> "none"], waiting |-> {},
                  after |-> [k \in BridgeReader |-> 0], misreported |-> [k \in BridgeReader |-> {}]]

-----------------------------------------------------------------------------
(* Reading events.                                                         *)

\* Mutant: the batch says what was dropped by the newest event.
droppedBefore_last(s) == IF s.events = << >> THEN s.sequence ELSE Last(s.events).sequence + 1

\* _collectEvents: the oldest event that is still there.
droppedBefore(s) == IF s.events = << >> THEN s.sequence ELSE Head(s.events).sequence

readBy(s, k) ==
    LET batch == {e.sequence : e \in {e \in Range(s.events) : e.sequence > s.after[k]}}
        next == IF batch = {} THEN s.after[k] ELSE Last(s.events).sequence
        passed == s.after[k] + 1..next
    IN [s EXCEPT !.waiting = @ \ {k}, !.after[k] = next,
                 !.misreported[k] = @ \cup {n \in passed \ batch : n >= droppedBefore(s)}
                                 \cup {n \in batch : n < droppedBefore(s)}]

\* _settleWaiter of several waiters, which read different cursors.
settledWaiters(s, ks) ==
    [s EXCEPT !.waiting = @ \ ks,
              !.after = [k \in BridgeReader |-> IF k \in ks THEN readBy(s, k).after[k] ELSE @[k]],
              !.misreported = [k \in BridgeReader |-> IF k \in ks THEN readBy(s, k).misreported[k] ELSE @[k]]]

\* readEvents: at once if there is something or nothing will come, else a waiter.
ReadEvents(k) ==
    /\ k \notin bridge.waiting
    /\ LET s == readBy(bridge, k)
       IN bridge' = IF s.after[k] # bridge.after[k] \/ bridge.closed THEN s
                    ELSE [bridge EXCEPT !.waiting = @ \cup {k}]

\* The waiter's timer, or its signal.
WaitOver(k) ==
    /\ k \in bridge.waiting
    /\ bridge' = settledWaiters(bridge, {k})

-----------------------------------------------------------------------------
(* The end of the peer, and frames to the server.                          *)

\* Mutant: the waiters are left.
finishedPeer_waiters(s) ==
    [s EXCEPT !.closed = TRUE, !.pendingReverse = {}, !.timers = {}, !.pending = {},
              !.outcome = [c \in BridgeCall |-> IF c \in s.pending THEN "settled" ELSE @[c]]]

\* _finish
finishedPeer(s) ==
    IF s.closed THEN s
    ELSE settledWaiters(
            [s EXCEPT !.closed = TRUE, !.pendingReverse = {}, !.timers = {}, !.pending = {},
                      !.outcome = [c \in BridgeCall |-> IF c \in s.pending THEN "settled" ELSE @[c]]],
            s.waiting)

\* _sendErrorOrClose: the frame is handed over; that it was not written turns out later.
refusedReverse(s, r) == [s EXCEPT !.answers[r] = @ + 1, !.writing = @ \cup {r}]

AnswerWritten(r) ==
    /\ r \in bridge.writing
    /\ bridge' = [bridge EXCEPT !.writing = @ \ {r}]

AnswerFails(r) ==
    /\ r \in bridge.writing /\ bridge.link = "closed"
    /\ bridge' = finishedPeer([bridge EXCEPT !.writing = @ \ {r}])

\* The transport fails, and reports it later; what is handed to it meanwhile is not written.
LinkFails ==
    /\ bridge.link = "open"
    /\ bridge' = [bridge EXCEPT !.link = "closed"]

LinkCloseReported ==
    /\ bridge.link = "closed" /\ ~bridge.closed
    /\ bridge' = finishedPeer(bridge)

\* close(): the requests of the server that are kept are rejected, after _finish.
ClosePeer ==
    /\ ~bridge.closed
    /\ LET kept == bridge.pendingReverse
       IN bridge' = [finishedPeer(bridge) EXCEPT
                       !.link = IF @ = "open" THEN "closing" ELSE @,
                       !.answers = [r \in ReverseRequest |-> IF r \in kept THEN @[r] + 1 ELSE @[r]]]

\* ... and the transport is closed when these were written.
ClosePeerEnds ==
    /\ bridge.link = "closing"
    /\ bridge' = [bridge EXCEPT !.link = "closed"]

-----------------------------------------------------------------------------
(* What the server sends.                                                  *)

listens == bridge.link = "open" /\ ~bridge.closed

\* Mutant: a request that is dropped from the ring stays pending.
overflowed_silently(s) ==
    IF Len(s.events) <= EventLimit THEN s ELSE [s EXCEPT !.events = Tail(@)]

\* The loop of _appendEvent: at most one event is dropped for the one that was added.
overflowed(s) ==
    IF Len(s.events) <= EventLimit THEN s
    ELSE LET r == Head(s.events).about
             t == [s EXCEPT !.events = Tail(@)]
         IN IF r \in s.pendingReverse
            THEN refusedReverse([t EXCEPT !.pendingReverse = @ \ {r}, !.timers = @ \ {r}], r)
            ELSE t

\* Mutant: waiters are not told.
appended_untold(s, about) ==
    overflowed([s EXCEPT !.events = Append(@, [sequence |-> s.sequence, about |-> about]), !.sequence = @ + 1])

\* _appendEvent
appended(s, about) ==
    LET t == overflowed([s EXCEPT !.events = Append(@, [sequence |-> s.sequence, about |-> about]), !.sequence = @ + 1])
    IN settledWaiters(t, {k \in s.waiting : s.sequence > s.after[k]})

NotificationArrives ==
    /\ listens /\ bridge.sequence <= MaxBridgeEvents
    /\ bridge' = appended(bridge, Notified)

\* _handleReverseRequest
ReverseArrives(r) ==
    /\ listens /\ r \notin bridge.arrived /\ bridge.sequence <= MaxBridgeEvents
    /\ LET s == [bridge EXCEPT !.arrived = @ \cup {r}]
       IN bridge' = IF bridge.policy = "reject" THEN refusedReverse(s, r)
                    ELSE appended([s EXCEPT !.pendingReverse = @ \cup {r}, !.timers = @ \cup {r}], r)

\* Mutant: the timer of a request that was answered still rejects it.
ReverseTimesOut_unchecked(r) ==
    /\ r \in bridge.arrived /\ bridge.answers[r] < 2 /\ bridge.policy = "queue"
    /\ bridge' = refusedReverse([bridge EXCEPT !.timers = @ \ {r}, !.pendingReverse = @ \ {r}], r)

ReverseTimesOut(r) ==
    /\ r \in bridge.timers
    /\ LET s == [bridge EXCEPT !.timers = @ \ {r}, !.pendingReverse = @ \ {r}]
       IN bridge' = IF r \in bridge.pendingReverse THEN refusedReverse(s, r) ELSE s

\* Mutant: the token is kept until the response was written.
RespondReverse_keeps(r) ==
    /\ ~bridge.closed /\ r \in bridge.pendingReverse
    /\ bridge.answers[r] < 2
    /\ bridge' = [bridge EXCEPT !.answers[r] = @ + 1]

\* respond(): the token is used up before the response is written; a failure is the client's.
RespondReverse(r) ==
    /\ ~bridge.closed /\ r \in bridge.pendingReverse
    /\ bridge' = [bridge EXCEPT !.answers[r] = @ + 1, !.pendingReverse = @ \ {r}, !.timers = @ \ {r}]

-----------------------------------------------------------------------------
(* Calls to the server.                                                    *)

BridgeCalls(c) ==
    /\ ~bridge.closed /\ bridge.outcome[c] = "none"
    /\ bridge' = [bridge EXCEPT !.pending = @ \cup {c}, !.outcome[c] = "waiting"]

\* The response, the signal, or the write that failed: whichever finds it pending.
BridgeCallSettles(c) ==
    /\ c \in bridge.pending
    /\ bridge' = [bridge EXCEPT !.pending = @ \ {c}, !.outcome[c] = "settled"]

BridgeNext ==
    \/ \E k \in BridgeReader : ReadEvents(k) \/ WaitOver(k)
    \/ \E r \in ReverseRequest :
        \/ AnswerWritten(r) \/ AnswerFails(r) \/ ReverseArrives(r) \/ ReverseTimesOut(r) \/ RespondReverse(r)
    \/ \E c \in BridgeCall : BridgeCalls(c) \/ BridgeCallSettles(c)
    \/ LinkFails \/ LinkCloseReported \/ ClosePeer \/ ClosePeerEnds \/ NotificationArrives

-----------------------------------------------------------------------------
\* A response, the timer, an overflow of the ring and the close compete for a request of the
\* server: it gets one answer.  Until then a client can still find it, in the ring, and its
\* timer runs; only when the connection fails is it given up.
ReverseAnsweredOnce ==
    /\ \A r \in ReverseRequest : bridge.answers[r] <= 1
    /\ bridge.timers = bridge.pendingReverse
    /\ \A r \in bridge.pendingReverse : \E e \in Range(bridge.events) : e.about = r
    /\ ~bridge.closed => bridge.arrived = bridge.pendingReverse \cup {r \in ReverseRequest : bridge.answers[r] = 1}

\* A reader that follows `next` sees every event or is told by droppedBefore that some are
\* gone, and it never waits for an event that is there or for a peer that has ended.
ReadersAreServed ==
    \A k \in BridgeReader :
        /\ bridge.misreported[k] = {}
        /\ k \in bridge.waiting => ~bridge.closed /\ \A e \in Range(bridge.events) : e.sequence <= bridge.after[k]

\* A call that waits is pending: the end of the peer leaves none behind.
CallsAreSettled ==
    bridge.pending = {c \in BridgeCall : bridge.outcome[c] = "waiting"} /\ (bridge.closed => bridge.pending = {})

\* Whatever end comes first, requests, readers and calls of the bridge are settled once.
BridgeIsSettled == BridgeTypeOK /\ ReverseAnsweredOnce /\ ReadersAreServed /\ CallsAreSettled
=============================================================================
