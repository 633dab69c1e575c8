-------------------------- MODULE MessageTransports --------------------------
(***************************************************************************)
(* The receiving half of the message transports (linkrpc): TransportPair   *)
(* ("memory"), NdjsonTransport, WebSocketTransport,                        *)
(* HeaderDelimitedTransport, a channel of MultiplexedTransport ("mux") and *)
(* WindowMessageTransport.  All buffer what arrives while there is no      *)
(* listener and drain the buffer when one is set; they differ in what an   *)
(* event carries, in what dispose() clears and in what still arrives after *)
(* it.                                                                     *)
(*                                                                         *)
(* A listener runs to completion, but may set or remove the listener or    *)
(* dispose the transport, inside the loop that called it.  frames is the   *)
(* stack of these activations.  Messages are numbered as they arrive.      *)
(***************************************************************************)
EXTENDS Naturals, Sequences

CONSTANTS
    TransportKind,  \* the kinds of transport under consideration
    MaxMessages,    \* bound: messages received
    MaxChunk,       \* bound: messages in one event of a byte stream
    MaxDepth,     \* bound: nested activations
    MaxPending      \* maxPendingMessages of the header-delimited transport

ASSUME TransportAssumption ==
    /\ TransportKind \subseteq {"memory", "ndjson", "websocket", "header", "mux", "window"}
    /\ {MaxMessages, MaxChunk, MaxDepth, MaxPending} \subseteq Nat

VARIABLE transport

TransportInit ==
    \E kind \in TransportKind :
        transport = [kind |-> kind, listener |-> FALSE, closed |-> FALSE, closes |-> 0,
                     buffer |-> << >>, wire |-> << >>, delivered |-> << >>, frames |-> << >>,
                     received |-> 0]

transportIs(kinds) == transport.kind \in kinds

topFrame == IF transport.frames = << >> THEN "none" ELSE Head(transport.frames)

\* Code of the application runs: outside of any listener, or in one.
applicationRuns == topFrame \in {"none", "listener"}

pushFrame(t, frame) == [t EXCEPT !.frames = <<frame>> \o @]

popFrame(t) == [t EXCEPT !.frames = Tail(@)]

\* Mutant: onClose is called by every dispose.
transportDisposed_repeats(t) ==
    CASE t.kind = "ndjson" ->
           [t EXCEPT !.closed = TRUE, !.listener = FALSE, !.buffer = << >>, !.wire = << >>, !.closes = @ + 1]
      [] t.kind \in {"websocket", "header"} -> [t EXCEPT !.closed = TRUE, !.closes = @ + 1]
      [] t.kind = "mux" -> [t EXCEPT !.closed = TRUE, !.listener = FALSE, !.buffer = << >>]
      [] t.kind \in {"memory", "window"} -> [t EXCEPT !.closed = TRUE]

\* Mutant: dispose leaves the listener in place.
transportDisposed_keepsListener(t) ==
    IF t.closed THEN t ELSE [t EXCEPT !.closed = TRUE, !.closes = 1]

\* dispose(), and the end of the underlying stream.
transportDisposed(t) ==
    CASE t.closed -> t
      [] ~t.closed /\ t.kind = "ndjson" ->
           [t EXCEPT !.closed = TRUE, !.listener = FALSE, !.buffer = << >>, !.wire = << >>, !.closes = @ + 1]
      [] ~t.closed /\ t.kind \in {"websocket", "header"} -> [t EXCEPT !.closed = TRUE, !.closes = @ + 1]
      [] ~t.closed /\ t.kind = "mux" -> [t EXCEPT !.closed = TRUE, !.listener = FALSE, !.buffer = << >>]
      [] ~t.closed /\ t.kind \in {"memory", "window"} -> [t EXCEPT !.closed = TRUE]

\* _deliver
deliverMessage(t, m) ==
    IF t.kind = "mux" /\ t.closed THEN t
    ELSE IF t.listener THEN pushFrame([t EXCEPT !.delivered = Append(@, m)], "listener")
    ELSE IF t.kind = "header" /\ Len(t.buffer) >= MaxPending THEN transportDisposed(t)
    ELSE [t EXCEPT !.buffer = Append(@, m)]

-----------------------------------------------------------------------------
\* The peer of an in-memory transport sends; it may do so while a listener runs.
MemorySends ==
    /\ transportIs({"memory"}) /\ ~transport.closed /\ applicationRuns
    /\ transport.received < MaxMessages /\ Len(transport.frames) < MaxDepth
    /\ transport' = deliverMessage([transport EXCEPT !.received = @ + 1], transport.received + 1)

\* An event of the socket, stream, window or base transport, with n messages.  A web
\* socket may have events after dispose(), until the closing handshake is over.
EventArrives(n) ==
    /\ ~transportIs({"memory"}) /\ topFrame = "none"
    /\ transport.closed => transportIs({"websocket", "mux"})
    /\ n = 1 \/ transportIs({"ndjson", "websocket", "header"})
    /\ transport.received + n <= MaxMessages
    /\ transport' = pushFrame([transport EXCEPT
          !.wire = [i \in 1..n |-> transport.received + i], !.received = @ + n], "event")

\* The loop over the messages of an event.
EventLoop ==
    /\ topFrame = "event"
    /\ transport' =
          IF transport.wire = << >> \/ (transportIs({"header"}) /\ transport.closed)
          THEN [popFrame(transport) EXCEPT !.wire = << >>]
          ELSE deliverMessage([transport EXCEPT !.wire = Tail(@)], Head(transport.wire))

\* setListener.
SetListener(listener) ==
    /\ applicationRuns /\ Len(transport.frames) < MaxDepth
    /\ LET t == [transport EXCEPT !.listener = listener]
       IN  transport' = IF listener THEN pushFrame(t, "drain") ELSE t

\* Mutant: the drain goes on after its listener was removed.
DrainLoop_unguarded ==
    /\ topFrame = "drain"
    /\ transport' =
          IF transport.buffer = << >> THEN popFrame(transport)
          ELSE pushFrame([transport EXCEPT !.buffer = Tail(@),
                        !.delivered = IF transport.listener THEN Append(@, Head(transport.buffer)) ELSE @],
                    "listener")

\* Mutant: the drain takes the newest message first.
DrainLoop_newestFirst ==
    /\ topFrame = "drain"
    /\ transport' =
          IF transport.buffer = << >> \/ ~transport.listener THEN popFrame(transport)
          ELSE LET n == Len(transport.buffer)
               IN  deliverMessage([transport EXCEPT !.buffer = SubSeq(@, 1, n - 1)], transport.buffer[n])

\* The loop of setListener over the buffer, as long as there is a listener.
DrainLoop ==
    /\ topFrame = "drain"
    /\ transport' =
          IF transport.buffer = << >> \/ ~transport.listener THEN popFrame(transport)
          ELSE deliverMessage([transport EXCEPT !.buffer = Tail(@)], Head(transport.buffer))

ListenerReturns ==
    /\ topFrame = "listener"
    /\ transport' = popFrame(transport)

TransportDispose ==
    /\ applicationRuns
    /\ transport' = transportDisposed(transport)

TransportNext ==
    \/ MemorySends
    \/ \E n \in 1..MaxChunk : EventArrives(n)
    \/ EventLoop
    \/ \E listener \in BOOLEAN : SetListener(listener)
    \/ DrainLoop
    \/ ListenerReturns
    \/ TransportDispose

TransportSpec == TransportInit /\ [][TransportNext]_transport

-----------------------------------------------------------------------------
isAscending(s) == \A i, j \in 1..Len(s) : i < j => s[i] < s[j]

\* Until the transport is closed, what has arrived was delivered once or is still
\* buffered, whatever the listeners do to the transport; and when nothing runs and a
\* listener is set the buffer is empty.
NothingSwallowed ==
    ~transport.closed =>
        LET kept == transport.delivered \o transport.buffer \o transport.wire
        IN  /\ \A m \in 1..transport.received : \E i \in 1..Len(kept) : kept[i] = m
            /\ Len(kept) = transport.received
            /\ topFrame = "none" /\ transport.listener => transport.buffer = << >>

\* Messages are delivered in the order of their arrival, by every transport whose events
\* do not come in the middle of a listener.
DeliveredInOrder == ~transportIs({"memory"}) => isAscending(transport.delivered \o transport.buffer)

\* onClose is called when the transport closes, and once ("a peer close / error fires
\* `onClose` exactly once", webSocketTransport.ts).
ClosesOnce ==
    transportIs({"ndjson", "websocket", "header"}) => transport.closes = IF transport.closed THEN 1 ELSE 0

\* A line transport and a multiplexed channel deliver nothing once disposed: neither the
\* rest of the event their listener was called for, nor what was buffered, also when a
\* listener is set later.
DisposedIsSilent ==
    [][transportIs({"ndjson", "mux"}) /\ transport.closed => transport'.delivered = transport.delivered]_transport

\* What a channel relies on: everything arrives, in order, until the close, which is
\* reported once and ends the deliveries.
TransportIsFaithful == [](NothingSwallowed /\ DeliveredInOrder /\ ClosesOnce) /\ DisposedIsSilent
=============================================================================
