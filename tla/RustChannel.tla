---------------------------- MODULE RustChannel -----------------------------
(***************************************************************************)
(* The channel of the Rust implementation (connection/channel.rs and       *)
(* connection/streaming.rs).  Unlike the TypeScript channel it is used     *)
(* from several threads: the read loop `run` is one task, in which the     *)
(* handlers are polled as well; callers, and whoever was given a           *)
(* StreamSender, are others.  Every step is one critical section, or what  *)
(* lies between two awaits of the read loop's task.                        *)
(***************************************************************************)
EXTENDS Naturals, Sequences, FiniteSets

CONSTANTS InRequest,     \* requests of the peer
          StreamCall,    \* calls by call_stream
          PlainCall,     \* calls by call
          StreamBuffer,  \* STREAM_BUFFER_CAPACITY
          MaxRustFrames  \* bound on what is sent for a request

ASSUME RustAssumption == {StreamBuffer, MaxRustFrames} \subseteq Nat

VARIABLE rust

RustCall == StreamCall \cup PlainCall

RustTypeOK ==
    /\ rust.loop \in {"running", "failing", "ended"}
    /\ rust.open \in BOOLEAN /\ rust.halfOpen \in BOOLEAN
    /\ rust.inbound \subseteq InRequest
    /\ rust.handler \in [InRequest -> {"none", "running", "returned", "over"}]
    /\ rust.terminal \in [InRequest -> {"none", "queued", "over"}]
    /\ rust.gate \in [InRequest -> {"free", "response", "terminal", "frame"}]
    /\ \A f \in {"inSettled", "claimed", "failed", "cancelled", "waiting"} : rust[f] \subseteq InRequest
    /\ rust.buffered \in [InRequest \cup StreamCall -> 0..StreamBuffer]
    /\ \A r \in InRequest : rust.sent[r] \in Seq({"frame", "result", "error"})
    /\ rust.call \in [RustCall -> {"none", "sending", "written", "open", "over"}]
    /\ rust.outbound \subseteq RustCall /\ rust.asked \subseteq RustCall
    /\ rust.doomed \subseteq StreamCall /\ rust.pinging \subseteq StreamCall
    /\ rust.result \in [RustCall -> {"waiting", "remote", "local", "closed"}]

\* halfOpen: a transport whose read side may end while writes still succeed, as with a
\* socket that is closed in one direction or NDJSON after a line it cannot parse.
RustInit ==
    /\ \E half \in BOOLEAN :
        rust = [loop |-> "running", open |-> TRUE, halfOpen |-> half, inbound |-> {},
                handler |-> [r \in InRequest |-> "none"], terminal |-> [r \in InRequest |-> "none"],
                gate |-> [r \in InRequest |-> "free"], inSettled |-> {}, claimed |-> {}, failed |-> {},
                cancelled |-> {}, waiting |-> {}, buffered |-> [c \in InRequest \cup StreamCall |-> 0],
                sent |-> [r \in InRequest |-> << >>], call |-> [c \in RustCall |-> "none"],
                outbound |-> {}, asked |-> {}, doomed |-> {}, pinging |-> {},
                result |-> [c \in RustCall |-> "waiting"]]

polled == rust.loop = "running"

-----------------------------------------------------------------------------
(* Requests of the peer.                                                   *)

\* Mutant: the waiters of cancelled() are not woken.
inSettledBy_waiters(s, rs) == [s EXCEPT !.inSettled = @ \cup rs, !.inbound = @ \ rs]

\* settle/disconnect of inbound states, and their removal from inbound_streams.
inSettledBy(s, rs) ==
    [s EXCEPT !.inSettled = @ \cup rs, !.inbound = @ \ rs, !.waiting = @ \ rs]

AcceptRequest(r) ==
    /\ polled
    /\ rust.handler[r] = "none"
    /\ rust' = [rust EXCEPT !.handler[r] = "running", !.inbound = @ \cup {r}]

\* ctx.cancelled(): returns at once if there is nothing to wait for.
AwaitsCancellation(r) ==
    /\ polled
    /\ rust.handler[r] = "running"
    /\ r \notin rust.cancelled \cup rust.inSettled
    /\ rust' = [rust EXCEPT !.waiting = @ \cup {r}]

HandlerReads(r) ==
    /\ polled
    /\ rust.handler[r] = "running"
    /\ rust.buffered[r] > 0
    /\ rust' = [rust EXCEPT !.buffered[r] = @ - 1]

HandlerReturns(r) ==
    /\ polled
    /\ rust.handler[r] = "running" /\ r \notin rust.waiting
    /\ rust' = [rust EXCEPT !.handler[r] = "returned"]

\* Mutant: the response is not claimed.
answersInbound_unclaimed(s, r, who) == [inSettledBy(s, {r}) EXCEPT !.gate[r] = who]

\* What both answers of a request do once they have the gate and the claim.
answersInbound(s, r, who) ==
    [inSettledBy(s, {r}) EXCEPT !.gate[r] = who, !.claimed = @ \cup {r}]

\* The end of dispatch_request: the gate, then claim_response.
ResponseGate(r) ==
    /\ polled
    /\ rust.handler[r] = "returned" /\ rust.gate[r] = "free"
    /\ rust' = IF r \in rust.claimed
               THEN [rust EXCEPT !.handler[r] = "over"]
               ELSE answersInbound(rust, r, "response")

written(s, r, message) == [s EXCEPT !.gate[r] = "free", !.sent[r] = IF s.open THEN Append(@, message) ELSE @]

ResponseSent(r) ==
    /\ polled
    /\ rust.gate[r] = "response"
    /\ rust' = [written(rust, r, IF r \in rust.failed THEN "error" ELSE "result") EXCEPT !.handler[r] = "over"]

\* send_inbound_terminal_error
TerminalGate(r) ==
    /\ polled
    /\ rust.terminal[r] = "queued" /\ rust.gate[r] = "free"
    /\ rust' = IF r \in rust.claimed
               THEN [rust EXCEPT !.terminal[r] = "over"]
               ELSE answersInbound(rust, r, "terminal")

TerminalSent(r) ==
    /\ polled
    /\ rust.gate[r] = "terminal"
    /\ rust' = [written(rust, r, "error") EXCEPT !.terminal[r] = "over"]

\* Mutant: whether the call is active is not looked at.
FrameGate_inactive(r) ==
    /\ rust.handler[r] # "none"
    /\ Len(rust.sent[r]) < MaxRustFrames
    /\ rust.gate[r] = "free"
    /\ rust' = [rust EXCEPT !.gate[r] = "frame"]

\* send_stream_payload and send_stream_control of an inbound state: a StreamSender, which
\* the handler may have passed on to another task, a ping, and the pong of the loop.
FrameGate(r) ==
    /\ rust.handler[r] # "none"
    /\ Len(rust.sent[r]) < MaxRustFrames
    /\ rust.gate[r] = "free" /\ r \notin rust.inSettled
    /\ rust' = [rust EXCEPT !.gate[r] = "frame"]

FrameSent(r) ==
    /\ rust.gate[r] = "frame"
    /\ rust' = IF rust.open THEN written(rust, r, "frame")
               ELSE [inSettledBy(rust, {r}) EXCEPT !.gate[r] = "free"]

CancelArrives(r) ==
    /\ polled
    /\ r \in rust.inbound
    /\ rust' = [rust EXCEPT !.cancelled = @ \cup {r}, !.waiting = @ \ {r}]

\* push_payload of an inbound state: at the capacity the request fails.
PayloadArrives(r) ==
    /\ polled
    /\ r \in rust.inbound
    /\ rust' = IF rust.buffered[r] >= StreamBuffer
               THEN [inSettledBy(rust, {r}) EXCEPT !.failed = @ \cup {r}, !.terminal[r] = "queued"]
               ELSE [rust EXCEPT !.buffered[r] = @ + 1]

-----------------------------------------------------------------------------
(* Calls of this side.                                                     *)

\* Mutant: the waiters of pings are forgotten.
outSettledBy_pings(s, cs, why) ==
    [s EXCEPT !.outbound = @ \ cs,
              !.result = [c \in RustCall |-> IF c \in cs /\ @[c] = "waiting" THEN why ELSE @[c]]]

\* settle, disconnect or dispose of calls, and their removal from the map that holds them.
outSettledBy(s, cs, why) ==
    [s EXCEPT !.outbound = @ \ cs, !.pinging = @ \ cs,
              !.result = [c \in RustCall |-> IF c \in cs /\ @[c] = "waiting" THEN why ELSE @[c]]]

\* Registered first, then sent: the response may come before send has returned.
CallStarts(c) ==
    /\ rust.call[c] = "none"
    /\ rust' = [rust EXCEPT !.call[c] = "sending", !.outbound = @ \cup {c}]

RequestWritten(c) ==
    /\ rust.call[c] = "sending" /\ rust.open
    /\ rust' = [rust EXCEPT !.call[c] = "written", !.asked = @ \cup {c}]

SendReturns(c) ==
    /\ rust.call[c] = "written"
    /\ rust' = [rust EXCEPT !.call[c] = "open"]

\* Mutant: a call that was not sent stays registered.
SendFails_registered(c) ==
    /\ rust.call[c] = "sending" /\ ~rust.open
    /\ rust' = [rust EXCEPT !.call[c] = "over", !.result[c] = "local"]

\* call removes its entry; call_stream drops its StreamRegistration.
SendFails(c) ==
    /\ rust.call[c] = "sending" /\ ~rust.open
    /\ rust' = [outSettledBy(rust, {c}, IF c \in PlainCall THEN "local" ELSE "closed") EXCEPT !.call[c] = "over"]

\* The caller drops its future before it has the handles.  A plain call's entry stays
\* until the response or the end of the loop.
CallAbandoned(c) ==
    /\ rust.call[c] \in {"sending", "written"} \cup (IF c \in PlainCall THEN {"open"} ELSE {})
    /\ rust' = [(IF c \in StreamCall THEN outSettledBy(rust, {c}, "local") ELSE rust) EXCEPT !.call[c] = "over"]

\* CallControl::dispose; the handles live on.
CallDisposed(c) ==
    /\ c \in StreamCall /\ rust.call[c] = "open"
    /\ rust' = outSettledBy(rust, {c}, "local")

\* OutboundLifetime::drop, with the last handle.
HandlesDropped(c) ==
    /\ c \in StreamCall /\ rust.call[c] = "open"
    /\ rust' = [outSettledBy(rust, {c}, "local") EXCEPT !.call[c] = "over"]

ResponseArrives(c) ==
    /\ polled
    /\ c \in rust.asked
    /\ rust' = [(IF c \in rust.outbound THEN outSettledBy(rust, {c}, "remote") ELSE rust) EXCEPT !.asked = @ \ {c}]

\* push_payload of an outbound state.
CallPayloadArrives(c) ==
    /\ polled
    /\ c \in StreamCall \cap rust.outbound \cap rust.asked
    /\ rust' = IF rust.buffered[c] >= StreamBuffer
               THEN outSettledBy(rust, {c}, "local")
               ELSE [rust EXCEPT !.buffered[c] = @ + 1]

CallerReads(c) ==
    /\ c \in StreamCall /\ rust.call[c] = "open" /\ rust.buffered[c] > 0
    /\ rust' = [rust EXCEPT !.buffered[c] = @ - 1]

\* A frame, a cancel or a ping of the caller that cannot be written disconnects the call.
CallFrameFails(c) ==
    /\ c \in StreamCall /\ rust.call[c] = "open" /\ ~rust.open
    /\ rust.result[c] = "waiting"
    /\ rust' = outSettledBy(rust, {c}, "closed")

\* Mutant: a ping is added although the call has ended.
PingAdded_settled(c) ==
    /\ c \in StreamCall /\ rust.call[c] = "open"
    /\ rust' = [rust EXCEPT !.pinging = @ \cup {c}]

\* add_ping
PingAdded(c) ==
    /\ c \in StreamCall /\ rust.call[c] = "open"
    /\ rust.result[c] = "waiting"
    /\ rust' = [rust EXCEPT !.pinging = @ \cup {c}]

PongArrives(c) ==
    /\ polled
    /\ c \in rust.pinging /\ c \in rust.outbound
    /\ rust' = [rust EXCEPT !.pinging = @ \ {c}]

-----------------------------------------------------------------------------
(* The end.                                                                *)

TransportCloses ==
    /\ rust.open
    /\ rust' = [rust EXCEPT !.open = FALSE]

\* recv yields None.  fail_all_pending drains the plain calls and copies the list of the
\* streaming ones.
LoopEnds ==
    /\ polled
    /\ ~rust.open \/ rust.halfOpen
    /\ rust' = [outSettledBy(rust, PlainCall \cap rust.outbound, "closed") EXCEPT
                  !.loop = "failing", !.doomed = rust.outbound \cap StreamCall]

\* Mutant: the map is cleared without telling the calls.
LoopFails_silently ==
    /\ rust.loop = "failing"
    /\ rust' = [inSettledBy(rust, rust.inbound) EXCEPT
                  !.loop = "ended", !.doomed = {}, !.outbound = @ \ StreamCall]

\* ... then it disconnects those, clears the map, cancels and disconnects the requests of
\* the peer; the handlers are dropped with the loop.
LoopFails ==
    /\ rust.loop = "failing"
    /\ rust' = [inSettledBy(outSettledBy(rust, rust.doomed, "closed"), rust.inbound) EXCEPT
                  !.loop = "ended", !.doomed = {}, !.outbound = @ \ StreamCall,
                  !.cancelled = @ \cup rust.inbound,
                  !.handler = [r \in InRequest |-> IF @[r] = "none" THEN "none" ELSE "over"],
                  !.terminal = [r \in InRequest |-> "over"],
                  !.gate = [r \in InRequest |-> IF @[r] = "frame" THEN "frame" ELSE "free"]]

InboundSteps(r) ==
    \/ ResponseGate(r) \/ ResponseSent(r)
    \/ TerminalGate(r) \/ TerminalSent(r)
    \/ FrameSent(r)

CallSteps(c) == SendReturns(c) \/ SendFails(c)

RustNext ==
    \/ \E r \in InRequest :
        \/ AcceptRequest(r) \/ AwaitsCancellation(r) \/ HandlerReads(r) \/ HandlerReturns(r)
        \/ InboundSteps(r) \/ FrameGate(r) \/ CancelArrives(r) \/ PayloadArrives(r)
    \/ \E c \in RustCall :
        \/ CallStarts(c) \/ RequestWritten(c) \/ CallSteps(c) \/ CallAbandoned(c)
        \/ CallDisposed(c) \/ HandlesDropped(c) \/ ResponseArrives(c)
        \/ CallPayloadArrives(c) \/ CallerReads(c) \/ CallFrameFails(c)
        \/ PingAdded(c) \/ PongArrives(c)
    \/ TransportCloses \/ LoopEnds \/ LoopFails

\* The end of the read side is seen, and tasks that can go on do.
RustLoopEnd == (~rust.open /\ LoopEnds) \/ LoopFails

RustLiveSpec ==
    /\ RustInit /\ [][RustNext]_rust
    /\ WF_rust(RustLoopEnd)
    /\ \A r \in InRequest : WF_rust(InboundSteps(r))
    /\ \A c \in RustCall : WF_rust(CallSteps(c))

-----------------------------------------------------------------------------
answersOf(r) == {i \in DOMAIN rust.sent[r] : rust.sent[r][i] # "frame"}

\* A handler that returns, a buffer that overflows and senders in other tasks compete for
\* the stream of a request: it gets one response, nothing follows it, and once the buffer
\* has overflowed it is the error.
OneAnswerEach ==
    \A r \in InRequest : \A i \in answersOf(r) :
        i = Len(rust.sent[r]) /\ (r \in rust.failed => rust.sent[r][i] = "error")

\* Nobody waits for something that has happened: for a cancellation or a pong of a call
\* that is over.
WaitersAreTold ==
    /\ rust.waiting \cap (rust.cancelled \cup rust.inSettled) = {}
    /\ \A c \in rust.pinging : rust.result[c] = "waiting"

\* "outbound_registration_lives_exactly_as_long_as_user_handles" (channel.rs, tests): only
\* calls that wait are registered, and streaming ones only as long as somebody has them.
RegisteredIsWaiting ==
    \A c \in rust.outbound :
        rust.result[c] = "waiting" /\ (c \in StreamCall => rust.call[c] \notin {"none", "over"})

\* When the transport is closed every call ends, wherever it was: not yet sent, sent, with
\* its handles, or registered while fail_all_pending was at work.  (The transport must keep
\* the contract of MessageTransport, by which nothing can be sent once recv has ended.)
ClosedCallsEnd ==
    \A c \in RustCall :
        ~rust.halfOpen /\ ~rust.open /\ rust.call[c] # "none" ~> rust.call[c] = "over" \/ rust.result[c] # "waiting"

\* A handler that returned has its response written, unless the transport or the loop ends.
ResponsesAreWritten ==
    \A r \in InRequest :
        rust.handler[r] = "returned" ~> answersOf(r) # {} \/ ~rust.open \/ rust.loop # "running"

\* The Rust channel keeps what the protocol promises to both sides.
RustChannelKeepsPromises ==
    [](RustTypeOK /\ OneAnswerEach /\ WaitersAreTold /\ RegisteredIsWaiting) /\ ClosedCallsEnd /\ ResponsesAreWritten
=============================================================================
