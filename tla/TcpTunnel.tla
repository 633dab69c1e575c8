------------------------------ MODULE TcpTunnel -----------------------------
(***************************************************************************)
(* Many TCP connections through one streaming call: the client             *)
(* (http-export/tcpMultiplexer.ts) hands out at most as many sockets as    *)
(* the compute node admits, the node (compute-node/node.ts) connects each  *)
(* to its target, and credits keep both from overrunning each other.       *)
(* Sockets are destroyed on either side at any time, acknowledgements may  *)
(* be late, and the call may end under all of them.                        *)
(***************************************************************************)
EXTENDS Naturals, Sequences, FiniteSets, SequencesExt, FiniteSetsExt

CONSTANTS TunnelConn,      \* calls of openSocket
          MaxConnections,  \* MAX_MULTIPLEXED_TCP_CONNECTIONS
          TunnelWindow,    \* MULTIPLEXED_TCP_WINDOW_BYTES
          FrameLimit,      \* MAX_TCP_FRAME_BYTES
          HighWater,       \* highWaterMark of the client's Duplex
          MaxTunnelBytes   \* bound on what either side sends in a connection

ASSUME TunnelAssumption ==
    /\ MaxConnections \in Nat \ {0} /\ TunnelWindow \in Nat \ {0}
    /\ FrameLimit \in Nat \ {0} /\ HighWater \in Nat \ {0} /\ MaxTunnelBytes \in Nat

VARIABLE tunnel

TunnelFrame == [type : {"open", "opened", "data", "credit", "end", "close", "closed"}, conn : TunnelConn, bytes : 0..TunnelWindow]

TunnelTypeOK ==
    /\ tunnel.up \in Seq(TunnelFrame) /\ tunnel.down \in Seq(TunnelFrame)
    /\ \A f \in {"ready", "over", "aborted", "late"} : tunnel[f] \in BOOLEAN
    /\ tunnel.opener \in [TunnelConn -> {"none", "waiting", "granted", "opening", "done", "failed"}]
    /\ tunnel.waiters \in Seq(TunnelConn) /\ tunnel.slots \in 0..MaxConnections
    /\ \A f \in {"sockets", "destroyed", "remoteClosed", "acking", "ended", "remoteEnded", "backpressured",
                 "conns", "connected", "nodeDestroyed", "accused", "refused"} : tunnel[f] \subseteq TunnelConn
    /\ \A f \in {"sendCredit", "recvCredit", "withheld", "outCredit", "inCredit"} :
        tunnel[f] \in [TunnelConn -> 0..TunnelWindow]
    /\ \A f \in {"writing", "unwritten", "chunk", "unread"} : tunnel[f] \in [TunnelConn -> 0..MaxTunnelBytes]
    /\ \A c \in TunnelConn :
        tunnel.pending[c] \in Seq(1..FrameLimit) /\ tunnel.input[c] \in Seq(0..FrameLimit) /\ tunnel.buffer[c] \in Nat

\* unwritten and unread: what the two applications will still send.
TunnelInit ==
    LET none == [c \in TunnelConn |-> 0]
        empty == [c \in TunnelConn |-> << >>]
    IN \E bytesUp, bytesDown \in {0, MaxTunnelBytes} :
        tunnel = [up |-> << >>, down |-> << >>, ready |-> FALSE, over |-> FALSE, aborted |-> FALSE, late |-> FALSE,
                  opener |-> [c \in TunnelConn |-> "none"], waiters |-> << >>, slots |-> 0, sockets |-> {},
                  destroyed |-> {}, remoteClosed |-> {}, acking |-> {}, ended |-> {}, remoteEnded |-> {},
                  backpressured |-> {}, sendCredit |-> none, recvCredit |-> none, withheld |-> none,
                  pending |-> empty, buffer |-> none, writing |-> none,
                  unwritten |-> [c \in TunnelConn |-> bytesUp], unread |-> [c \in TunnelConn |-> bytesDown],
                  conns |-> {}, connected |-> {}, nodeDestroyed |-> {}, outCredit |-> none, inCredit |-> none,
                  input |-> empty, chunk |-> none, accused |-> {}, refused |-> {}]

frame(type, c, n) == [type |-> type, conn |-> c, bytes |-> n]

toNode(s, f) == IF s.over THEN s ELSE [s EXCEPT !.up = Append(@, f)]

toClient(s, f) == IF s.aborted THEN s ELSE [s EXCEPT !.down = Append(@, f)]

-----------------------------------------------------------------------------
(* Slots and sockets of the client.                                        *)

\* Mutant: a slot that is given back is not passed on.
slotReleased_keeps(s) == [s EXCEPT !.slots = @ - 1]

\* _releaseSlot
slotReleased(s) ==
    IF s.waiters = << >> THEN [s EXCEPT !.slots = @ - 1]
    ELSE [s EXCEPT !.waiters = Tail(@), !.opener[Head(s.waiters)] = "granted"]

\* Mutant: the slot is given back although the socket was detached before.
detached_twice(s, c) == IF s.slots = 0 THEN s ELSE slotReleased([s EXCEPT !.sockets = @ \ {c}])

detached(s, c) == IF c \in s.sockets THEN slotReleased([s EXCEPT !.sockets = @ \ {c}]) ELSE s

\* _destroy: the slot is kept until the node has confirmed, or the timer fires.
socketDestroyed(s, c) ==
    LET t == [s EXCEPT !.destroyed = @ \cup {c}]
    IN IF c \in s.destroyed THEN s
       ELSE IF c \in s.remoteClosed \/ s.over THEN detached(t, c)
       ELSE toNode([t EXCEPT !.acking = @ \cup {c}], frame("close", c, 0))

OpenSocket(c) ==
    /\ (tunnel.ready \/ tunnel.over) /\ tunnel.opener[c] = "none"
    /\ tunnel' = IF tunnel.over THEN [tunnel EXCEPT !.opener[c] = "failed"]
                 ELSE IF tunnel.slots < MaxConnections
                 THEN [tunnel EXCEPT !.opener[c] = "granted", !.slots = @ + 1]
                 ELSE [tunnel EXCEPT !.opener[c] = "waiting", !.waiters = Append(@, c)]

\* openSocket has a slot.
SocketMade(c) ==
    /\ tunnel.opener[c] = "granted"
    /\ tunnel' = IF tunnel.over THEN [slotReleased(tunnel) EXCEPT !.opener[c] = "failed"]
                 ELSE toNode([tunnel EXCEPT !.sockets = @ \cup {c}, !.opener[c] = "opening",
                                            !.recvCredit[c] = TunnelWindow], frame("open", c, 0))

AckTimerFires(c) ==
    /\ c \in tunnel.acking
    /\ tunnel' = [detached(tunnel, c) EXCEPT !.acking = @ \ {c}, !.late = TRUE]

\* The user of a socket is done with it.
SocketAbandoned(c) ==
    /\ c \in tunnel.sockets /\ tunnel.opener[c] = "done" /\ c \notin tunnel.destroyed
    /\ tunnel' = socketDestroyed(tunnel, c)

\* Mutant: those who wait for a slot are forgotten.
sessionFinished_waiters(s) ==
    [s EXCEPT !.over = TRUE, !.slots = @ - Cardinality(s.sockets), !.sockets = {}, !.acking = {},
              !.remoteClosed = @ \cup s.sockets, !.destroyed = @ \cup s.sockets,
              !.opener = [c \in TunnelConn |-> IF @[c] = "opening" THEN "failed" ELSE @[c]]]

\* _finish and handleSessionClosed of every socket.
sessionFinished(s) ==
    [s EXCEPT !.over = TRUE, !.waiters = << >>, !.slots = @ - Cardinality(s.sockets), !.sockets = {}, !.acking = {},
              !.remoteClosed = @ \cup s.sockets, !.destroyed = @ \cup s.sockets,
              !.opener = [c \in TunnelConn |-> IF @[c] \in {"waiting", "opening"} THEN "failed" ELSE @[c]]]

\* The call has ended, a frame could not be sent, readiness timed out, or dispose().
SessionEnds ==
    /\ ~tunnel.over
    /\ tunnel' = sessionFinished(tunnel)

-----------------------------------------------------------------------------
(* What the client receives.                                               *)

\* _grantReceiveCredit
granted(s, c, n) == toNode([s EXCEPT !.recvCredit[c] = @ + n], frame("credit", c, n))

\* push(): the credit of what fills the buffer is withheld.
pushed(s, c, n) ==
    LET t == [s EXCEPT !.buffer[c] = @ + n]
    IN IF t.buffer[c] < HighWater THEN granted(t, c, n)
       ELSE [t EXCEPT !.backpressured = @ \cup {c}, !.withheld[c] = @ + n]

\* _receive
received(s, c, n) ==
    IF c \notin s.backpressured /\ s.pending[c] = << >> THEN pushed(s, c, n)
    ELSE [s EXCEPT !.pending[c] = Append(@, n)]

\* One chunk after the other; those that no longer fit stay pending.
allReceived(s, c, chunks) ==
    LET upTo[i \in 0..Len(chunks)] == IF i = 0 THEN s ELSE received(upTo[i - 1], c, chunks[i])
    IN upTo[Len(chunks)]

\* Mutant: credit that was withheld is forgotten.
readMore_forgets(s, c) ==
    allReceived([s EXCEPT !.backpressured = @ \ {c}, !.withheld[c] = 0, !.pending[c] = << >>], c, s.pending[c])

\* _read: what was withheld is granted, and pending data pushed until the buffer is full.
readMore(s, c) ==
    LET t == [s EXCEPT !.backpressured = @ \ {c}, !.withheld[c] = 0, !.pending[c] = << >>]
    IN allReceived(IF s.withheld[c] > 0 THEN granted(t, c, s.withheld[c]) ELSE t, c, s.pending[c])

ConsumerReads(c) ==
    /\ c \in tunnel.sockets \ tunnel.destroyed /\ tunnel.buffer[c] > 0
    /\ tunnel' = readMore([tunnel EXCEPT !.buffer[c] = 0], c)

accused(s, c) == socketDestroyed([s EXCEPT !.accused = @ \cup {c}], c)

\* Mutant: the socket stays in the table until it is destroyed by its user.
remotelyClosed_attached(s, c) ==
    [s EXCEPT !.remoteClosed = @ \cup {c}, !.acking = @ \ {c}, !.destroyed = @ \cup {c},
              !.opener[c] = IF @ = "opening" THEN "failed" ELSE @]

\* handleClosed detaches the socket, and so does the destroy() it ends with.
remotelyClosed(s, c) ==
    socketDestroyed([detached(s, c) EXCEPT !.remoteClosed = @ \cup {c}, !.acking = @ \ {c},
                                           !.opener[c] = IF @ = "opening" THEN "failed" ELSE @], c)

ReadyArrives ==
    /\ ~tunnel.ready /\ ~tunnel.over
    /\ tunnel' = [tunnel EXCEPT !.ready = TRUE]

\* _handleMessage
ClientReceives ==
    /\ tunnel.down # << >>
    /\ LET f == Head(tunnel.down)
           c == f.conn
           s == [tunnel EXCEPT !.down = Tail(@)]
       IN tunnel' =
            IF tunnel.over \/ c \notin tunnel.sockets THEN s
            ELSE CASE f.type = "opened" ->
                        IF c \in tunnel.destroyed THEN s
                        ELSE [s EXCEPT !.opener[c] = "done", !.sendCredit[c] = TunnelWindow]
                   [] f.type = "data" ->
                        IF c \in tunnel.destroyed \cup tunnel.remoteEnded THEN s
                        ELSE IF f.bytes > tunnel.recvCredit[c] THEN accused(s, c)
                        ELSE received([s EXCEPT !.recvCredit[c] = @ - f.bytes], c, f.bytes)
                   [] f.type = "credit" ->
                        IF c \in tunnel.destroyed THEN s
                        ELSE IF tunnel.sendCredit[c] + f.bytes > TunnelWindow THEN accused(s, c)
                        ELSE [s EXCEPT !.sendCredit[c] = @ + f.bytes]
                   [] f.type = "end" -> [s EXCEPT !.remoteEnded = @ \cup {c}]
                   [] f.type = "closed" -> remotelyClosed(s, c)

-----------------------------------------------------------------------------
(* What the client sends.                                                  *)

\* The user writes; _write of the next chunk follows the callback of the last.
ClientWrites(c) ==
    /\ c \in tunnel.sockets \ (tunnel.destroyed \cup tunnel.ended) /\ tunnel.opener[c] = "done"
    /\ tunnel.writing[c] = 0 /\ tunnel.unwritten[c] > 0
    /\ tunnel' = [tunnel EXCEPT !.writing[c] = tunnel.unwritten[c], !.unwritten[c] = 0]

\* Mutant: a frame may be larger than the credit.
taken_all(rest, credit) == Min({FrameLimit, rest})

\* ByteCredit.take, once there is credit.
taken(rest, credit) == Min({FrameLimit, rest, credit})

\* One turn of _sendData.  A socket that is destroyed goes on while it has credit.
ClientSendsData(c) ==
    /\ tunnel.writing[c] > 0 /\ tunnel.sendCredit[c] > 0 /\ ~tunnel.over
    /\ LET n == taken(tunnel.writing[c], tunnel.sendCredit[c])
       IN tunnel' = toNode([tunnel EXCEPT !.writing[c] = @ - n, !.sendCredit[c] = IF n > @ THEN 0 ELSE @ - n],
                           frame("data", c, n))

\* _final
ClientEndsSocket(c) ==
    /\ c \in tunnel.sockets \ (tunnel.destroyed \cup tunnel.ended) /\ tunnel.opener[c] = "done"
    /\ tunnel.writing[c] = 0
    /\ tunnel' = toNode([tunnel EXCEPT !.ended = @ \cup {c}], frame("end", c, 0))

-----------------------------------------------------------------------------
(* The node.                                                               *)

\* failProtocol
nodeAccuses(s, c) == [s EXCEPT !.accused = @ \cup {c}, !.nodeDestroyed = @ \cup {c}]

\* MultiplexedTcpSession._handleFrame for `open`
connectionOpened(s, c) ==
    IF c \in s.conns THEN nodeAccuses(s, c)
    ELSE IF Cardinality(s.conns) >= MaxConnections
    THEN toClient([s EXCEPT !.refused = @ \cup {c}], frame("closed", c, 0))
    ELSE [s EXCEPT !.conns = @ \cup {c}, !.outCredit[c] = TunnelWindow, !.inCredit[c] = TunnelWindow]

\* ... and the rest of it, with handleFrame of the connection.
NodeReceives ==
    /\ tunnel.up # << >>
    /\ LET f == Head(tunnel.up)
           c == f.conn
           s == [tunnel EXCEPT !.up = Tail(@)]
       IN tunnel' =
            IF tunnel.aborted THEN s
            ELSE IF f.type = "open" THEN connectionOpened(s, c)
            ELSE IF c \notin tunnel.conns
            THEN IF f.type = "close" THEN s ELSE toClient(s, frame("closed", c, 0))
            ELSE CASE f.type = "credit" ->
                        IF tunnel.outCredit[c] + f.bytes > TunnelWindow THEN nodeAccuses(s, c)
                        ELSE [s EXCEPT !.outCredit[c] = @ + f.bytes]
                   [] f.type = "close" -> [s EXCEPT !.nodeDestroyed = @ \cup {c}]
                   [] f.type = "end" -> [s EXCEPT !.input[c] = Append(@, 0)]
                   [] f.type = "data" ->
                        IF f.bytes > tunnel.inCredit[c] THEN nodeAccuses(s, c)
                        ELSE [s EXCEPT !.inCredit[c] = @ - f.bytes, !.input[c] = Append(@, f.bytes)]

nodeSocket(c) == c \in tunnel.conns /\ c \notin tunnel.nodeDestroyed

\* The target has accepted; `opened` is sent.
NodeConnects(c) ==
    /\ nodeSocket(c) /\ c \notin tunnel.connected
    /\ tunnel' = toClient([tunnel EXCEPT !.connected = @ \cup {c}], frame("opened", c, 0))

\* Mutant: credit is given for the frame and again when it was drained.
NodeWrites_credit(c) ==
    /\ nodeSocket(c) /\ c \in tunnel.connected /\ tunnel.input[c] # << >>
    /\ LET n == Head(tunnel.input[c])
           s == [tunnel EXCEPT !.input[c] = Tail(@), !.inCredit[c] = TunnelWindow]
       IN tunnel' = IF n = 0 THEN s ELSE toClient(s, frame("credit", c, TunnelWindow))

\* An action of _appendInput is over: the data was written to the target, or its end.
NodeWrites(c) ==
    /\ nodeSocket(c) /\ c \in tunnel.connected /\ tunnel.input[c] # << >>
    /\ LET n == Head(tunnel.input[c])
           s == [tunnel EXCEPT !.input[c] = Tail(@), !.inCredit[c] = @ + n]
       IN tunnel' = IF n = 0 THEN s ELSE toClient(s, frame("credit", c, n))

\* The loop of _run reads a chunk ...
NodeReads(c) ==
    /\ nodeSocket(c) /\ c \in tunnel.connected
    /\ tunnel.chunk[c] = 0 /\ tunnel.unread[c] > 0
    /\ tunnel' = [tunnel EXCEPT !.chunk[c] = tunnel.unread[c], !.unread[c] = 0]

\* ... and sends it as far as there is credit, also when the socket was destroyed meanwhile.
NodeSendsData(c) ==
    /\ tunnel.chunk[c] > 0 /\ tunnel.outCredit[c] > 0 /\ ~tunnel.aborted
    /\ LET n == taken(tunnel.chunk[c], tunnel.outCredit[c])
       IN tunnel' = toClient([tunnel EXCEPT !.chunk[c] = @ - n, !.outCredit[c] = IF n > @ THEN 0 ELSE @ - n],
                             frame("data", c, n))

\* The target has ended; the socket is destroyed when the loop is left.
NodeReadsEnd(c) ==
    /\ nodeSocket(c) /\ c \in tunnel.connected /\ tunnel.chunk[c] = 0
    /\ tunnel' = toClient([tunnel EXCEPT !.nodeDestroyed = @ \cup {c}], frame("end", c, 0))

\* The target is not there, or the connection to it fails.
NodeSocketFails(c) ==
    /\ nodeSocket(c)
    /\ tunnel' = [tunnel EXCEPT !.nodeDestroyed = @ \cup {c}]

\* Mutant: the connection stays in the table of the session.
NodeSocketClosed_keeps(c) ==
    /\ c \in tunnel.conns \cap tunnel.nodeDestroyed
    /\ tunnel' = toClient([tunnel EXCEPT !.nodeDestroyed = @ \ {c}], frame("closed", c, 0))

\* The close event: _finish of the connection.
NodeSocketClosed(c) ==
    /\ c \in tunnel.conns \cap tunnel.nodeDestroyed
    /\ tunnel' = toClient([tunnel EXCEPT !.conns = @ \ {c}], frame("closed", c, 0))

\* The call is cancelled or its peer is gone: run() disposes of the connections.
NodeAborted ==
    /\ ~tunnel.aborted
    /\ tunnel' = [tunnel EXCEPT !.aborted = TRUE, !.nodeDestroyed = @ \cup tunnel.conns, !.conns = {}]

TunnelNext ==
    \/ \E c \in TunnelConn :
        \/ OpenSocket(c) \/ SocketMade(c) \/ AckTimerFires(c) \/ SocketAbandoned(c) \/ ConsumerReads(c)
        \/ ClientWrites(c) \/ ClientSendsData(c) \/ ClientEndsSocket(c)
        \/ NodeConnects(c) \/ NodeWrites(c) \/ NodeReads(c) \/ NodeSendsData(c) \/ NodeReadsEnd(c)
        \/ NodeSocketFails(c) \/ NodeSocketClosed(c)
    \/ ReadyArrives \/ SessionEnds \/ ClientReceives \/ NodeReceives \/ NodeAborted

-----------------------------------------------------------------------------
total(bytes) ==
    LET upTo[i \in 0..Len(bytes)] == IF i = 0 THEN 0 ELSE upTo[i - 1] + bytes[i]
    IN upTo[Len(bytes)]

inFrames(wire, type, c) ==
    total([i \in 1..Len(wire) |-> IF wire[i].type = type /\ wire[i].conn = c THEN wire[i].bytes ELSE 0])

onWire(wire, type, c) == \E i \in DOMAIN wire : wire[i].type = type /\ wire[i].conn = c

\* Credit is neither lost nor made: as long as both ends of a connection are up, the window is
\* what the sender may send, what is on its way, what the receiver has not given back yet, and
\* the credit on its way.  So a reader that reads is never starved, and correct ends never take
\* each other for one that exceeds its window - whoever is destroyed, and when.
CreditIsConserved ==
    /\ tunnel.accused = {}
    /\ ~tunnel.over /\ ~tunnel.aborted =>
        \A c \in tunnel.sockets \cap tunnel.conns :
            c \notin tunnel.destroyed \cup tunnel.nodeDestroyed =>
            /\ tunnel.outCredit[c] + inFrames(tunnel.down, "data", c) + total(tunnel.pending[c])
               + tunnel.withheld[c] + inFrames(tunnel.up, "credit", c) = TunnelWindow
            /\ tunnel.opener[c] = "done" =>
                tunnel.sendCredit[c] + inFrames(tunnel.up, "data", c) + total(tunnel.input[c])
                + inFrames(tunnel.down, "credit", c) = TunnelWindow

\* Slots: as many are in use as there are sockets, nobody waits while one is free, and the end
\* of the session leaves neither sockets nor callers of openSocket behind.
SlotsAreReturned ==
    /\ tunnel.slots = Cardinality(tunnel.sockets) + Cardinality({c \in TunnelConn : tunnel.opener[c] = "granted"})
    /\ tunnel.waiters # << >> => tunnel.slots = MaxConnections
    /\ Range(tunnel.waiters) = {c \in TunnelConn : tunnel.opener[c] = "waiting"}
    /\ tunnel.over => tunnel.sockets = {} /\ \A c \in TunnelConn : tunnel.opener[c] \notin {"waiting", "opening"}

\* Each end hears of what the other has closed: a connection of the node without a socket is
\* being closed, a socket without a connection is about to be told, and the node refuses a
\* connection for want of room only if an acknowledgement took longer than the timer.
EndsAgree ==
    /\ ~tunnel.over /\ ~tunnel.aborted =>
        /\ \A c \in tunnel.conns \ tunnel.sockets : c \in tunnel.nodeDestroyed \/ onWire(tunnel.up, "close", c)
        /\ \A c \in tunnel.sockets \ tunnel.conns : onWire(tunnel.up, "open", c) \/ onWire(tunnel.down, "closed", c)
    /\ tunnel.refused = {} \/ tunnel.late

\* Credits and slots of a tunnel are neither lost nor made, and its ends agree in the end.
TunnelIsFair == TunnelTypeOK /\ CreditIsConserved /\ SlotsAreReturned /\ EndsAgree
=============================================================================
