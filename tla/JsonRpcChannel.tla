--------------------------- MODULE JsonRpcChannel ----------------------------
(***************************************************************************)
(* Two JSON-RPC channels joined by a transport (linkrpc,                   *)
(* connection/jsonRpcChannel.ts).                                          *)
(*                                                                         *)
(* Each channel numbers its own requests from 1, keeps a promise per       *)
(* outgoing request (_pending), and for streaming a payload callback       *)
(* (_streamListeners) and a control callback (_streamControl) per request  *)
(* id.  The two callback maps serve outgoing and incoming requests alike:  *)
(* an entry here is "out" or "in" after the request that registered it.    *)
(* A channel may start deferring: incoming requests and their input        *)
(* streams are queued until resumeRequests.  The transport keeps the order *)
(* of each direction.                                                      *)
(***************************************************************************)
EXTENDS Naturals, Sequences

CONSTANTS
    Peer,        \* the two channels
    Caller,      \* those of them that make requests
    Deferring,   \* those of them created with deferRequests
    LatePing,    \* whether ping() may be called on a request that has settled
    MaxCalls,    \* bound: requests per caller
    MaxFrames    \* bound: stream frames (pongs included)

ASSUME ChannelAssumption ==
    /\ \A e \in Peer : \E f \in Peer : Peer = {e, f} /\ e # f
    /\ Caller \subseteq Peer
    /\ Deferring \subseteq Peer
    /\ LatePing \in BOOLEAN
    /\ MaxCalls \in Nat
    /\ MaxFrames \in Nat

RequestId == 1..MaxCalls

Other(e) == CHOOSE f \in Peer : f # e

(***************************************************************************)
(* Messages.  A request of a set-up method can be resumed by name; stream  *)
(* frames say which way they travel.                                       *)
(***************************************************************************)
request(id, kind) == [kind |-> kind, id |-> id, dir |-> "none"]
response(id) == [kind |-> "response", id |-> id, dir |-> "none"]
frame(id, dir, kind) == [kind |-> kind, id |-> id, dir |-> dir]

RequestKind == {"app", "setup"}
FrameKind == {"payload", "cancel", "ping", "pong"}

Message ==
    [kind : RequestKind \cup {"response"} \cup FrameKind,
     id : RequestId,
     dir : {"none", "toCaller", "toCallee"}]

VARIABLES      \* of each channel
    nextId,    \* _nextId
    pending,   \* _pending: ids of outgoing requests without a result
    listener,  \* _streamListeners, per id: "none", "out" or "in"
    control,   \* _streamControl, per id
    aborts,    \* _incomingAborts
    deferred,  \* _deferredMessages
    deferring, \* _requestsDeferred
    resumed,   \* whether _resumedMethods holds the set-up method
    draining,  \* inside the loop of resumeRequests: "no", "all" or "setup"
    closed     \* _closeError is set

VARIABLES      \* around them
    wire,      \* messages on their way to a channel
    call,      \* per outgoing id: its promise, "none", "open" or "settled"
    mode,      \* per outgoing id: "plain", or "stream" with a payload listener
    handler,   \* per incoming id: "none", "running", "aborted" or "done"
    stopping,  \* ids whose result.then(stopPing) is queued as a microtask
    failing,   \* ids whose write will be reported as failed
    probes,    \* outstanding ping() promises, <<role, id>>
    premature, \* ids whose input frame overtook the request
    frames     \* number of frames sent

chanVars == <<nextId, pending, listener, control, aborts, deferred, deferring,
              resumed, draining, closed>>
envVars == <<wire, call, mode, handler, stopping, failing, probes, premature, frames>>
vars == <<chanVars, envVars>>

Init ==
    /\ nextId = [e \in Peer |-> 1]
    /\ pending = [e \in Peer |-> {}]
    /\ listener = [e \in Peer |-> [i \in RequestId |-> "none"]]
    /\ control = [e \in Peer |-> [i \in RequestId |-> "none"]]
    /\ aborts = [e \in Peer |-> {}]
    /\ deferred = [e \in Peer |-> << >>]
    /\ deferring = [e \in Peer |-> e \in Deferring]
    /\ resumed = [e \in Peer |-> FALSE]
    /\ draining = [e \in Peer |-> "no"]
    /\ closed = [e \in Peer |-> FALSE]
    /\ wire = [e \in Peer |-> << >>]
    /\ call = [e \in Peer |-> [i \in RequestId |-> "none"]]
    /\ mode = [e \in Peer |-> [i \in RequestId |-> "plain"]]
    /\ handler = [e \in Peer |-> [i \in RequestId |-> "none"]]
    /\ stopping = [e \in Peer |-> {}]
    /\ failing = [e \in Peer |-> {}]
    /\ probes = [e \in Peer |-> {}]
    /\ premature = [e \in Peer |-> {}]
    /\ frames = 0

\* The wires after e has written m; a disposed transport drops it.
post(w, e, m) ==
    IF closed[e] \/ closed[Other(e)] THEN w ELSE [w EXCEPT ![Other(e)] = Append(@, m)]

-----------------------------------------------------------------------------
(***************************************************************************)
(* Outgoing requests                                                       *)
(***************************************************************************)

\* sendRequest and sendRequestWithStream.
SendRequest(e, md, kind, fails) ==
    LET id == nextId[e]
    IN  /\ e \in Caller
        /\ ~closed[e]
        /\ id <= MaxCalls
        /\ nextId' = [nextId EXCEPT ![e] = id + 1]
        /\ pending' = [pending EXCEPT ![e] = @ \cup {id}]
        /\ call' = [call EXCEPT ![e][id] = "open"]
        /\ mode' = [mode EXCEPT ![e][id] = md]
        /\ listener' = IF md = "stream" THEN [listener EXCEPT ![e][id] = "out"] ELSE listener
        /\ control' = IF md = "stream" THEN [control EXCEPT ![e][id] = "out"] ELSE control
        /\ failing' = IF fails THEN [failing EXCEPT ![e] = @ \cup {id}] ELSE failing
        /\ wire' = IF fails THEN wire ELSE post(wire, e, request(id, kind))
        /\ UNCHANGED <<aborts, deferred, deferring, resumed, draining, closed,
                       handler, stopping, probes, premature, frames>>

\* Mutant: promises are forgotten instead of settled.
settled_never(e, ids) == call

\* The settling of promises: ids leave the open state, and the ones of streaming
\* calls queue their stopPing.
settled(e, ids) ==
    [call EXCEPT ![e] = [i \in RequestId |-> IF i \in ids THEN "settled" ELSE @[i]]]

stopQueued(e, ids) ==
    [stopping EXCEPT ![e] = @ \cup {i \in ids : mode[e][i] = "stream"}]

\* Mutant: callbacks stay registered.
dropEntry_keeps(f, e, id) == f

dropEntry(f, e, id) == [f EXCEPT ![e][id] = "none"]

\* Mutant: outstanding probes are not rejected.
withoutProbes_keeps(e, role, ids) == probes

withoutProbes(e, role, ids) == [probes EXCEPT ![e] = {q \in @ : ~(q[1] = role /\ q[2] \in ids)}]

\* stopPing: clears the keepalive, rejects the probes, drops the control entry.
StopPing(e, id) ==
    /\ id \in stopping[e]
    /\ stopping' = [stopping EXCEPT ![e] = @ \ {id}]
    /\ control' = dropEntry(control, e, id)
    /\ probes' = withoutProbes(e, "out", {id})
    /\ UNCHANGED <<nextId, pending, listener, aborts, deferred, deferring, resumed, draining,
                   closed, wire, call, mode, handler, failing, premature, frames>>

\* Mutant: a failed write is swallowed.
SendFailure_swallowed(e, id) ==
    /\ id \in failing[e]
    /\ failing' = [failing EXCEPT ![e] = @ \ {id}]
    /\ UNCHANGED <<chanVars, wire, call, mode, handler, stopping, probes, premature, frames>>

\* The write of a request failed: its bookkeeping goes and its promise rejects.
SendFailure(e, id) ==
    LET open == pending[e] \cap {id}
    IN  /\ id \in failing[e]
        /\ failing' = [failing EXCEPT ![e] = @ \ {id}]
        /\ pending' = [pending EXCEPT ![e] = @ \ {id}]
        /\ call' = settled(e, open)
        /\ IF mode[e][id] = "stream"
           THEN /\ listener' = dropEntry(listener, e, id)
                /\ control' = dropEntry(control, e, id)
                /\ probes' = withoutProbes(e, "out", {id})
           ELSE UNCHANGED <<listener, control, probes>>
        /\ stopping' = stopQueued(e, open)
        /\ UNCHANGED <<nextId, aborts, deferred, deferring, resumed, draining, closed,
                       wire, mode, handler, premature, frames>>

\* RawStreamingCall.dispose: forget the request locally, without telling the callee.
Dispose(e, id) ==
    /\ id \in pending[e]
    /\ mode[e][id] = "stream"
    /\ pending' = [pending EXCEPT ![e] = @ \ {id}]
    /\ listener' = dropEntry(listener, e, id)
    /\ control' = dropEntry(control, e, id)
    /\ probes' = withoutProbes(e, "out", {id})
    /\ call' = settled(e, {id})
    /\ stopping' = stopQueued(e, {id})
    /\ UNCHANGED <<nextId, aborts, deferred, deferring, resumed, draining, closed,
                   wire, mode, handler, failing, premature, frames>>

-----------------------------------------------------------------------------
(***************************************************************************)
(* Stream frames                                                           *)
(***************************************************************************)

\* _sendStream by the holder of an outgoing call: send, cancel or keepalive ping.
CallerSends(e, id, kind) ==
    /\ call[e][id] # "none"
    /\ mode[e][id] = "stream"
    /\ ~closed[e]
    /\ frames < MaxFrames
    /\ frames' = frames + 1
    /\ wire' = post(wire, e, frame(id, "toCallee", kind))
    /\ UNCHANGED <<chanVars, call, mode, handler, stopping, failing, probes, premature>>

\* _sendStream by a running handler.
HandlerSends(e, id) ==
    /\ handler[e][id] \in {"running", "aborted"}
    /\ ~closed[e]
    /\ frames < MaxFrames
    /\ frames' = frames + 1
    /\ wire' = post(wire, e, frame(id, "toCaller", "payload"))
    /\ UNCHANGED <<chanVars, call, mode, handler, stopping, failing, probes, premature>>

\* ping() of either side: a probe that waits for its pong.
Ping(e, role, id) ==
    /\ \/ role = "out" /\ mode[e][id] = "stream" /\ call[e][id] # "none"
                       /\ (LatePing \/ call[e][id] = "open")
       \/ role = "in" /\ handler[e][id] \in {"running", "aborted"}
    /\ ~closed[e]
    /\ frames < MaxFrames
    /\ frames' = frames + 1
    /\ probes' = [probes EXCEPT ![e] = @ \cup {<<role, id>>}]
    /\ wire' = post(wire, e, frame(id, IF role = "out" THEN "toCallee" ELSE "toCaller", "ping"))
    /\ UNCHANGED <<chanVars, call, mode, handler, stopping, failing, premature>>

-----------------------------------------------------------------------------
(***************************************************************************)
(* Incoming messages.  w and d are the wires and deferred queues without   *)
(* the message.                                                            *)
(***************************************************************************)

\* _dispatchMessage, response: settle the promise, drop the payload listener.
DispatchResponse(e, m, w, d) ==
    LET open == pending[e] \cap {m.id}
    IN  /\ m.kind = "response"
        /\ pending' = [pending EXCEPT ![e] = @ \ {m.id}]
        /\ listener' = IF open = {} THEN listener ELSE dropEntry(listener, e, m.id)
        /\ call' = settled(e, open)
        /\ stopping' = stopQueued(e, open)
        /\ wire' = w
        /\ deferred' = d
        /\ UNCHANGED <<control, aborts, handler, probes, premature, frames>>

\* Mutant: the handler's abort controller is not registered.
DispatchRequest_noAbort(e, m, w, d) ==
    /\ m.kind \in RequestKind
    /\ handler' = [handler EXCEPT ![e][m.id] = "running"]
    /\ control' = [control EXCEPT ![e][m.id] = "in"]
    /\ wire' = w
    /\ deferred' = d
    /\ UNCHANGED <<aborts, pending, listener, call, stopping, probes, premature, frames>>

\* _handleRequest up to the handler's first await.
DispatchRequest(e, m, w, d) ==
    /\ m.kind \in RequestKind
    /\ handler' = [handler EXCEPT ![e][m.id] = "running"]
    /\ control' = [control EXCEPT ![e][m.id] = "in"]
    /\ aborts' = [aborts EXCEPT ![e] = @ \cup {m.id}]
    /\ wire' = w
    /\ deferred' = d
    /\ UNCHANGED <<pending, listener, call, stopping, probes, premature, frames>>

\* Whether the request with this id is still somewhere in queue q.
requestIn(q, id) == \E k \in DOMAIN q : q[k].kind \in RequestKind /\ q[k].id = id

\* An input frame that is dispatched ahead of its request is lost on it.
prematureAfter(e, m, w, d) ==
    IF m.dir = "toCallee" /\ (requestIn(w[e], m.id) \/ requestIn(d[e], m.id))
    THEN [premature EXCEPT ![e] = @ \cup {m.id}]
    ELSE premature

\* _handleStreamNotification, payload: to whoever is registered under the id.
DispatchPayload(e, m, w, d) ==
    /\ m.kind = "payload"
    /\ premature' = prematureAfter(e, m, w, d)
    /\ wire' = w
    /\ deferred' = d
    /\ UNCHANGED <<pending, listener, control, aborts, call, handler, stopping, probes, frames>>

\* _handleStreamNotification, control: the entry under the id aborts its handler,
\* answers a ping, or resolves a probe, whichever direction the frame has.
DispatchControl(e, m, w, d) ==
    LET owner == control[e][m.id]
        back  == IF owner = "out" THEN "toCallee" ELSE "toCaller"
    IN  /\ m.kind \in {"cancel", "ping", "pong"}
        /\ premature' = prematureAfter(e, m, w, d)
        /\ handler' = IF m.kind = "cancel" /\ owner = "in" /\ handler[e][m.id] = "running"
                      THEN [handler EXCEPT ![e][m.id] = "aborted"]
                      ELSE handler
        /\ IF m.kind = "ping" /\ owner # "none" /\ frames < MaxFrames
           THEN /\ wire' = post(w, e, frame(m.id, back, "pong"))
                /\ frames' = frames + 1
           ELSE /\ wire' = w
                /\ UNCHANGED frames
        /\ probes' = IF m.kind = "pong" /\ owner # "none"
                     THEN withoutProbes(e, owner, {m.id})
                     ELSE probes
        /\ deferred' = d
        /\ UNCHANGED <<pending, listener, control, aborts, call, stopping>>

\* _dispatchMessage.
Dispatch(e, m, w, d) ==
    /\ \/ DispatchResponse(e, m, w, d)
       \/ DispatchRequest(e, m, w, d)
       \/ DispatchPayload(e, m, w, d)
       \/ DispatchControl(e, m, w, d)
    /\ UNCHANGED <<nextId, closed, mode, failing>>

\* Mutant: responses are queued like requests.
mustDefer_responses(e, m) == deferring[e] /\ ~(m.kind = "setup" /\ resumed[e]) /\ m.dir # "toCaller"

\* _onMessage's condition for queueing a message.
mustDefer(e, m) ==
    /\ deferring[e]
    /\ m.kind # "response"
    /\ ~(m.kind = "setup" /\ resumed[e])
    /\ m.dir # "toCaller"

taken(e) == [wire EXCEPT ![e] = Tail(@)]

Defer(e) ==
    /\ wire[e] # << >>
    /\ mustDefer(e, Head(wire[e]))
    /\ deferred' = [deferred EXCEPT ![e] = Append(@, Head(wire[e]))]
    /\ wire' = taken(e)
    /\ UNCHANGED <<nextId, pending, listener, control, aborts, deferring, resumed, draining, closed,
                   call, mode, handler, stopping, failing, probes, premature, frames>>

Receive(e) ==
    /\ wire[e] # << >>
    /\ ~mustDefer(e, Head(wire[e]))
    /\ Dispatch(e, Head(wire[e]), taken(e), deferred)
    /\ UNCHANGED <<deferring, resumed, draining>>

\* Mutant: deferring ends before the queue is drained.
Resume_stopsDeferring(e) ==
    /\ deferring[e]
    /\ draining[e] = "no"
    /\ draining' = [draining EXCEPT ![e] = "all"]
    /\ deferring' = [deferring EXCEPT ![e] = FALSE]
    /\ UNCHANGED <<nextId, pending, listener, control, aborts, deferred, resumed, closed, envVars>>

\* resumeRequests: the loop dispatches while more messages may still arrive.  The
\* queue is in force until it is empty.
Resume(e) ==
    /\ deferring[e]
    /\ draining[e] = "no"
    /\ draining' = [draining EXCEPT ![e] = "all"]
    /\ UNCHANGED <<nextId, pending, listener, control, aborts, deferred, deferring, resumed,
                   closed, envVars>>

Drain(e) ==
    /\ draining[e] = "all"
    /\ deferred[e] # << >>
    /\ Dispatch(e, Head(deferred[e]), wire, [deferred EXCEPT ![e] = Tail(@)])
    /\ UNCHANGED <<deferring, resumed, draining>>

Drained(e) ==
    /\ draining[e] = "all"
    /\ deferred[e] = << >>
    /\ deferring' = [deferring EXCEPT ![e] = FALSE]
    /\ draining' = [draining EXCEPT ![e] = "no"]
    /\ UNCHANGED <<nextId, pending, listener, control, aborts, deferred, resumed, closed, envVars>>

\* resumeRequests(methods): only requests of the named method leave the queue.
\* (Naming it again finds none of them deferred.)
ResumeMethod(e) ==
    /\ deferring[e]
    /\ ~resumed[e]
    /\ draining[e] = "no"
    /\ resumed' = [resumed EXCEPT ![e] = TRUE]
    /\ draining' = [draining EXCEPT ![e] = "setup"]
    /\ UNCHANGED <<nextId, pending, listener, control, aborts, deferred, deferring, closed, envVars>>

setupPositions(e) == {k \in DOMAIN deferred[e] : deferred[e][k].kind = "setup"}

removeAt(s, k) == SubSeq(s, 1, k - 1) \o SubSeq(s, k + 1, Len(s))

DrainMethod(e) ==
    /\ draining[e] = "setup"
    /\ \E k \in setupPositions(e) :
          /\ \A j \in setupPositions(e) : k <= j
          /\ Dispatch(e, deferred[e][k], wire, [deferred EXCEPT ![e] = removeAt(@, k)])
    /\ UNCHANGED <<deferring, resumed, draining>>

DrainedMethod(e) ==
    /\ draining[e] = "setup"
    /\ setupPositions(e) = {}
    /\ draining' = [draining EXCEPT ![e] = "no"]
    /\ UNCHANGED <<nextId, pending, listener, control, aborts, deferred, deferring, resumed,
                   closed, envVars>>

-----------------------------------------------------------------------------
(***************************************************************************)
(* Handlers                                                                *)
(***************************************************************************)

\* IncomingStream.onMessage.
OnMessage(e, id) ==
    /\ handler[e][id] \in {"running", "aborted"}
    /\ listener' = [listener EXCEPT ![e][id] = "in"]
    /\ UNCHANGED <<nextId, pending, control, aborts, deferred, deferring, resumed, draining, closed,
                   envVars>>

\* The rest of _handleRequest: the handler is done; clean up, then respond.
Finish(e, id) ==
    /\ handler[e][id] \in {"running", "aborted"}
    /\ handler' = [handler EXCEPT ![e][id] = "done"]
    /\ listener' = dropEntry(listener, e, id)
    /\ control' = dropEntry(control, e, id)
    /\ aborts' = [aborts EXCEPT ![e] = @ \ {id}]
    /\ probes' = withoutProbes(e, "in", {id})
    /\ wire' = post(wire, e, response(id))
    /\ UNCHANGED <<nextId, pending, deferred, deferring, resumed, draining, closed,
                   call, mode, stopping, failing, premature, frames>>

\* close: by the user, after a failed stream write, or when the transport closes.
Close(e) ==
    /\ ~closed[e]
    /\ closed' = [closed EXCEPT ![e] = TRUE]
    /\ deferred' = [deferred EXCEPT ![e] = << >>]
    /\ handler' = [handler EXCEPT ![e] =
                      [i \in RequestId |-> IF @[i] = "running" /\ i \in aborts[e] THEN "aborted" ELSE @[i]]]
    /\ aborts' = [aborts EXCEPT ![e] = {}]
    /\ call' = settled(e, pending[e])
    /\ stopping' = stopQueued(e, pending[e])
    /\ pending' = [pending EXCEPT ![e] = {}]
    /\ listener' = [listener EXCEPT ![e] = [i \in RequestId |-> "none"]]
    /\ control' = [control EXCEPT ![e] = [i \in RequestId |-> "none"]]
    /\ wire' = [wire EXCEPT ![e] = << >>]
    /\ UNCHANGED <<nextId, deferring, resumed, draining, mode, failing, probes, premature, frames>>

Next ==
    \E e \in Peer :
        \/ \E md \in {"plain", "stream"}, kind \in RequestKind, fails \in BOOLEAN :
              SendRequest(e, md, kind, fails)
        \/ \E id \in RequestId :
              \/ StopPing(e, id)
              \/ SendFailure(e, id)
              \/ Dispose(e, id)
              \/ \E kind \in {"payload", "cancel"} : CallerSends(e, id, kind)
              \/ HandlerSends(e, id)
              \/ \E role \in {"out", "in"} : Ping(e, role, id)
              \/ OnMessage(e, id)
              \/ Finish(e, id)
        \/ Defer(e)
        \/ Receive(e)
        \/ Resume(e)
        \/ Drain(e)
        \/ Drained(e)
        \/ ResumeMethod(e)
        \/ DrainMethod(e)
        \/ DrainedMethod(e)
        \/ Close(e)

Spec == Init /\ [][Next]_vars

\* endpoint.ts resumes a channel when onConnection has returned.  That may await calls
\* of the channel's own: only when none is open is the set-up certain to be over.
SetUp(e) == pending[e] = {} /\ Resume(e)

\* Messages arrive, queues drain, handlers finish, failed writes are reported, a
\* deferring channel is resumed once set up, and a channel whose transport was closed
\* by the other side is closed.
Fairness ==
    \A e \in Peer :
        /\ WF_vars(Receive(e) \/ Defer(e))
        /\ WF_vars(SetUp(e))
        /\ WF_vars(Drain(e) \/ Drained(e))
        /\ WF_vars(DrainMethod(e) \/ DrainedMethod(e))
        /\ WF_vars(closed[Other(e)] /\ Close(e))
        /\ \A id \in RequestId : WF_vars(Finish(e, id)) /\ WF_vars(SendFailure(e, id))

LiveSpec == Spec /\ Fairness

-----------------------------------------------------------------------------
Entry == {"none", "out", "in"}

TypeOK ==
    /\ nextId \in [Peer -> 1..(MaxCalls + 1)]
    /\ pending \in [Peer -> SUBSET RequestId]
    /\ listener \in [Peer -> [RequestId -> Entry]]
    /\ control \in [Peer -> [RequestId -> Entry]]
    /\ aborts \in [Peer -> SUBSET RequestId]
    /\ deferred \in [Peer -> Seq(Message)]
    /\ deferring \in [Peer -> BOOLEAN]
    /\ resumed \in [Peer -> BOOLEAN]
    /\ draining \in [Peer -> {"no", "all", "setup"}]
    /\ closed \in [Peer -> BOOLEAN]
    /\ wire \in [Peer -> Seq(Message)]
    /\ call \in [Peer -> [RequestId -> {"none", "open", "settled"}]]
    /\ mode \in [Peer -> [RequestId -> {"plain", "stream"}]]
    /\ handler \in [Peer -> [RequestId -> {"none", "running", "aborted", "done"}]]
    /\ stopping \in [Peer -> SUBSET RequestId]
    /\ failing \in [Peer -> SUBSET RequestId]
    /\ probes \in [Peer -> SUBSET ({"out", "in"} \X RequestId)]
    /\ premature \in [Peer -> SUBSET RequestId]
    /\ frames \in 0..MaxFrames

active(e, id) == handler[e][id] \in {"running", "aborted"}

\* No promise hangs: an unsettled call is in _pending, whatever removed entries
\* (response, failed write, dispose, close), and _pending holds nothing else.
CallTracked ==
    \A e \in Peer, id \in RequestId : call[e][id] = "open" <=> id \in pending[e]

\* "Entries are removed when the corresponding request completes": no stream
\* callback outlives the request that registered it (the control entry of a call
\* lives until its queued stopPing), unless a handler outlives its channel.
EntryScope ==
    \A e \in Peer, id \in RequestId :
        /\ listener[e][id] = "out" => call[e][id] = "open"
        /\ control[e][id] = "out" => call[e][id] = "open" \/ id \in stopping[e]
        /\ "in" \in {listener[e][id], control[e][id]} => active(e, id)

\* ... and not before: the payload listener of a streaming call is registered until
\* its response has arrived.
ListenerKept ==
    \A e \in Peer, id \in RequestId :
        call[e][id] = "open" /\ mode[e][id] = "stream" => listener[e][id] = "out"

\* While a request is in progress its callbacks are its own: the listener and the
\* control entry of an open streaming call, and the control entry and the abort
\* controller through which a cancel reaches a handler.
EntryKept ==
    /\ ListenerKept
    /\ \A e \in Peer, id \in RequestId :
          /\ call[e][id] = "open" /\ mode[e][id] = "stream" => control[e][id] = "out"
          /\ active(e, id) /\ ~closed[e] => control[e][id] = "in" /\ id \in aborts[e]

\* Deferral keeps input frames behind their request, also while the queue drains
\* and messages keep arriving: a cancel is never dropped for being early.
InputAfterRequest == \A e \in Peer : premature[e] = {}

\* A stream has what it needs from the request on to the response: its entry is kept, and
\* nothing is taken for it before the request has been.
StreamHasItsEntry == EntryKept /\ InputAfterRequest

\* ping() "rejects if the request settles first" (channel.ts): no probe is left
\* outstanding on a request that is over.
ProbeScope ==
    \A e \in Peer, id \in RequestId :
        /\ <<"out", id>> \in probes[e] => call[e][id] = "open" \/ id \in stopping[e]
        /\ <<"in", id>> \in probes[e] => active(e, id)

\* After close no call waits, nothing is queued, and no handler runs unaware of it.
CloseIsFinal ==
    \A e \in Peer :
        closed[e] =>
            /\ pending[e] = {}
            /\ deferred[e] = << >>
            /\ \A id \in RequestId : handler[e][id] # "running"

(***************************************************************************)
(* The inductive invariant behind CallTracked, EntryScope, ProbeScope and  *)
(* CloseIsFinal.                                                           *)
(***************************************************************************)

\* Ids are used once, and only streaming calls own "out" entries and probes.
CallsKnown ==
    \A e \in Peer, id \in RequestId :
        /\ call[e][id] # "none" => id < nextId[e]
        /\ id \in stopping[e] => call[e][id] # "none"
        /\ "out" \in {listener[e][id], control[e][id]} \/ <<"out", id>> \in probes[e] =>
              mode[e][id] = "stream" /\ call[e][id] # "none"

\* close can abort every handler that runs, and nothing reaches a closed channel.
HandlersAbortable ==
    \A e \in Peer, id \in RequestId : handler[e][id] = "running" => id \in aborts[e] /\ ~closed[e]

ClosedQuiet ==
    \A e \in Peer : closed[e] => wire[e] = << >> /\ deferred[e] = << >> /\ pending[e] = {}

IInv ==
    /\ TypeOK
    /\ CallTracked
    /\ EntryScope
    /\ LatePing \/ ProbeScope
    /\ CallsKnown
    /\ HandlersAbortable
    /\ ClosedQuiet

\* Each side is still being set up and has an open call in the other's queue.
CircularWait ==
    \A e \in Peer : deferring[e] /\ \E id \in pending[e] : requestIn(deferred[Other(e)], id)

\* Every call settles, although either set-up may await calls that the other side
\* answers, unless both sides defer and their set-ups wait for each other for ever
\* (which resuming the method one of them waits for would end).
EveryCallSettles ==
    <>[]CircularWait \/ \A e \in Peer, id \in RequestId : call[e][id] = "open" ~> call[e][id] = "settled"
=============================================================================
