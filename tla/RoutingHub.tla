----------------------------- MODULE RoutingHub -----------------------------
(***************************************************************************)
(* The routing core of a LinkRPC hub (linkrpc-hub,                         *)
(* hub/server/routing/routingHub.ts, class Hub).                           *)
(*                                                                         *)
(* A hub owns a set of links (message transports).  A request that arrives *)
(* on one link is resolved to another (root handler, longest claimed       *)
(* prefix, uplink), gets a hub-local id and is parked in _pending until    *)
(* the target answers, detaches, goes idle or cannot be written to.        *)
(* JavaScript handlers run to completion, so one handler is one action;    *)
(* the interleaving is that of the messages, timers and disposals between  *)
(* the handlers.  Peers are not trusted to behave: any attached link may   *)
(* send a response or a stream frame with any id, at any time.             *)
(***************************************************************************)
EXTENDS ForwardingTable, FiniteSets

CONSTANTS
    Self,        \* the hub as the caller of its own requests, and as the author of errors
    Watcher,     \* the hub as the caller of its watches
    Id,          \* the request ids callers use
    Malformed,   \* a method name that does not parse
    Root,        \* a root-form method name (no service id)
    NodeId,      \* the method getNodeId, which the hub answers itself
    IdleEnabled, \* idleTimeoutMs > 0
    MaxHubId,    \* bound: requests the hub forwards or originates
    MaxOwn,      \* bound: requests and watches of the hub itself
    MaxFrames    \* bound: stream frames the hub forwards

ASSUME HubAssumption ==
    /\ {Self, Watcher} \cap Link = {}
    /\ None \notin {Self, Watcher} /\ Self # Watcher
    /\ IdleEnabled \in BOOLEAN
    /\ MaxHubId \in Nat
    /\ MaxOwn \in Nat
    /\ MaxFrames \in Nat

Address == ServiceId \cup {Root, Malformed, NodeId}

(***************************************************************************)
(* The hub's state.  A pending record is an entry of _pending; its idle    *)
(* timer is running iff its hubId is in armed.                             *)
(***************************************************************************)
VARIABLES
    links,     \* _links
    uplink,    \* _uplink
    loopback,  \* _loopback
    pending,   \* _pending
    armed,     \* hub ids whose idle timer is running
    nextId     \* _nextId

(***************************************************************************)
(* The world around the hub, and the history the properties speak of.      *)
(***************************************************************************)
VARIABLES
    gone,      \* links whose attachment was disposed: their connection has ended
    waiting,   \* calls <<caller, id>> still without a response
    replies,   \* responses delivered to callers
    routed,    \* every pending record there has ever been
    work,      \* pending records whose callee has the request, unanswered and uncancelled
    failing,   \* pending records with a write that will be reported as failed
    cut,       \* watches with a callee at work, one of whose control frames was not written
    stream,    \* the last stream frame the hub forwarded
    frames     \* how many it forwarded

hubVars == <<links, table, uplink, loopback, pending, armed, nextId>>
envVars == <<gone, waiting, replies, routed, work, failing, cut, stream, frames>>
vars == <<hubVars, envVars>>

Caller == Link \cup {Self, Watcher}

PendingType ==
    [hubId : 1..MaxHubId, origin : Caller, originalId : Id \cup (1..MaxHubId), target : Link]

ReplyType ==
    [to : Caller, id : Id \cup (1..MaxHubId), by : Caller, hubId : 0..MaxHubId, fresh : BOOLEAN]

NoFrame == [from |-> None, to |-> None, requestId |-> 0]

call(p) == <<p.origin, p.originalId>>

isWatch(p) == p.origin = Watcher

ownCalls == Cardinality({p \in routed : p.origin \notin Link})

hubIds(ps) == {p.hubId : p \in ps}

\* The response a caller sees: who wrote it, and for which forwarded request.
\* It is fresh if the call was still open when it arrived.
reply(p, by) ==
    [to |-> p.origin, id |-> p.originalId, by |-> by, hubId |-> p.hubId,
     fresh |-> call(p) \in waiting]

-----------------------------------------------------------------------------
Init ==
    /\ links = {}
    /\ table = EmptyTable
    /\ uplink = None
    /\ loopback = None
    /\ pending = {}
    /\ armed = {}
    /\ nextId = 1
    /\ gone = {}
    /\ waiting = {}
    /\ replies = {}
    /\ routed = {}
    /\ work = {}
    /\ failing = {}
    /\ cut = {}
    /\ stream = NoFrame
    /\ frames = 0

(***************************************************************************)
(* Topology                                                                *)
(***************************************************************************)

claimAll(t, prefixes, l) ==
    [entries |-> [p \in ServiceId |-> IF p \in prefixes THEN l ELSE t.entries[p]],
     byValue |-> [t.byValue EXCEPT ![l] = @ \cup prefixes]]

\* Mutant: a claim does not look whether the prefix is taken.
claimable_always(prefix) == TRUE

\* _validatePrefixClaim: claim-once.
claimable(prefix) == ~has(table, prefix)

\* attach and claimPrefix: everything is validated before anything changes.
Attach(l, prefixes, rootHandler) ==
    /\ l \notin gone
    /\ \A p \in prefixes : claimable(p)
    /\ rootHandler => loopback \in {None, l}
    /\ links' = links \cup {l}
    /\ loopback' = IF rootHandler THEN l ELSE loopback
    /\ table' = claimAll(table, prefixes, l)
    /\ UNCHANGED <<uplink, pending, armed, nextId, envVars>>

\* setUplink: a new default route is attached; the previous one stays attached.
SetUplink(l) ==
    /\ l \notin gone
    /\ uplink' = l
    /\ links' = links \cup ({l} \ {None})
    /\ UNCHANGED <<table, loopback, pending, armed, nextId, envVars>>

\* setLoopback(undefined).
ClearLoopback ==
    /\ loopback # None
    /\ loopback' = None
    /\ UNCHANGED <<links, table, uplink, pending, armed, nextId, envVars>>

ReleasePrefix(p) ==
    /\ table' = delete(table, p)
    /\ UNCHANGED <<links, uplink, loopback, pending, armed, nextId, envVars>>

\* Mutant: the entry stays in _pending after its response.
Settle_keepsPending(done, by) ==
    /\ replies' = replies \cup {reply(p, by) : p \in done}
    /\ waiting' = waiting \ {call(p) : p \in done}
    /\ UNCHANGED <<pending, armed>>

\* Mutant: the entry is deleted without telling the caller.
Settle_noReply(done, by) ==
    /\ pending' = pending \ done
    /\ armed' = armed \ hubIds(done)
    /\ UNCHANGED <<replies, waiting>>

\* Mutant: _deletePending forgets clearTimeout.
Settle_keepsTimer(done, by) ==
    /\ pending' = pending \ done
    /\ replies' = replies \cup {reply(p, by) : p \in done}
    /\ waiting' = waiting \ {call(p) : p \in done}
    /\ UNCHANGED armed

\* _deletePending for each record, and a response to each of their callers.
Settle(done, by) ==
    /\ pending' = pending \ done
    /\ armed' = armed \ hubIds(done)
    /\ replies' = replies \cup {reply(p, by) : p \in done}
    /\ waiting' = waiting \ {call(p) : p \in done}

\* Mutant: the cancel is not sent.
cancelled_none(ps) == work

\* _injectCancel: the callees of ps are told to stop.
cancelled(ps) == work \ ps

\* Mutant: entries of a detached caller stay in _pending.
callsOf_none(l) == {}

\* The requests in flight that link l made.
callsOf(l) == {p \in pending : p.origin = l}

\* _detach: calls of the link are cancelled at their callees, calls to it fail.
Detach(l) ==
    LET orphaned == callsOf(l)
        failed   == {p \in pending : p.origin # l /\ p.target = l}
    IN  /\ l \in links
        /\ links' = links \ {l}
        /\ table' = deleteByValue(table, l)
        /\ uplink' = IF uplink = l THEN None ELSE uplink
        /\ loopback' = IF loopback = l THEN None ELSE loopback
        /\ pending' = pending \ (orphaned \cup failed)
        /\ armed' = armed \ hubIds(orphaned \cup failed)
        /\ replies' = replies \cup {reply(p, Self) : p \in failed}
        /\ waiting' = {w \in waiting : w[1] # l} \ {call(p) : p \in failed}
        /\ work' = {p \in cancelled(orphaned) : p.target # l}
        /\ gone' = gone \cup {l}
        /\ UNCHANGED <<nextId, routed, failing, cut, stream, frames>>

\* The registry (hubRegister.ts): a hub-hosted handler looks up the link its
\* request came from (getSourceTransport) and claims the prefix for that link.
RegisterServiceId(p, prefix) ==
    /\ p \in pending
    /\ p.origin \in Link
    /\ claimable(prefix)
    /\ links' = links \cup {p.origin}
    /\ table' = setEntry(table, prefix, p.origin)
    /\ UNCHANGED <<uplink, loopback, pending, armed, nextId, envVars>>

(***************************************************************************)
(* Requests                                                                *)
(***************************************************************************)

\* _resolve: root-form stays local; no fallback to the uplink a message came from.
resolve(address, from) ==
    CASE address \in {Malformed, NodeId} -> None
      [] address = Root -> loopback
      [] address \in ServiceId ->
            IF OwnerOf(table, address) # None THEN OwnerOf(table, address)
            ELSE IF uplink = from THEN None ELSE uplink

\* A caller numbers its requests itself and does not reuse an id.
IdUnused(l, i) ==
    /\ <<l, i>> \notin waiting
    /\ \A r \in replies : <<r.to, r.id>> # <<l, i>>

\* The hub answers itself: getNodeId, or an error for a request without a target.
AnswerDirectly(l, i, address) ==
    /\ l \in links
    /\ IdUnused(l, i)
    /\ resolve(address, l) = None
    /\ replies' = replies \cup {[to |-> l, id |-> i, by |-> Self, hubId |-> 0, fresh |-> TRUE]}
    /\ UNCHANGED <<hubVars, gone, waiting, routed, work, failing, cut, stream, frames>>

\* Mutant: the idle timer is never armed.
armIdle_never(ids) == armed

\* _armIdle and _resetIdle: a no-op when idle timeouts are disabled.
armIdle(ids) == IF IdleEnabled THEN armed \cup ids ELSE armed

\* How writing the request to the target turns out: the callee gets it, the
\* transport drops it without a word (it is closing), or the write is reported
\* as failed, by a rejected promise or by an exception.
SendOutcome == {"delivered", "lost", "rejected"}

\* Park a request in _pending under a fresh hub id, arm its timer and write it.
Forward(origin, id, target, outcome) ==
    LET p == [hubId |-> nextId, origin |-> origin, originalId |-> id, target |-> target]
    IN  /\ nextId <= MaxHubId
        /\ nextId' = nextId + 1
        /\ pending' = pending \cup {p}
        /\ armed' = armIdle({nextId})
        /\ waiting' = waiting \cup {<<origin, id>>}
        /\ routed' = routed \cup {p}
        /\ work' = IF outcome = "delivered" THEN work \cup {p} ELSE work
        /\ failing' = IF outcome = "rejected" THEN failing \cup {p} ELSE failing
        /\ UNCHANGED <<links, table, uplink, loopback, gone, replies, cut, stream, frames>>

\* _routeRequest for a request with a target.
RouteRequest(l, i, address, outcome) ==
    /\ l \in links
    /\ IdUnused(l, i)
    /\ resolve(address, l) # None
    /\ Forward(l, i, resolve(address, l), outcome)

\* Mutant: caller and callee of a hub request are swapped in the entry.
HubRequest_swapped(l, outcome) ==
    /\ l \in links \cup gone
    /\ Forward(l, nextId, Self, outcome)

\* _requestOnLink: the hub itself calls a participant.  A handle may be used after
\* its link was detached.
HubRequest(l, outcome) ==
    /\ l \in links \cup gone
    /\ ownCalls < MaxOwn
    /\ Forward(Self, nextId, l, outcome)

\* _watchOnLink: the hub opens a stream of ticks at a participant.
HubWatch(l, outcome) ==
    /\ l \in links \cup gone
    /\ ownCalls < MaxOwn
    /\ Forward(Watcher, nextId, l, outcome)

\* Mutant: a control frame that could not be written is not noticed as such.
WatchControl_unmarked(p, outcome) ==
    /\ p \in pending
    /\ isWatch(p)
    /\ armed' = armIdle({p.hubId})
    /\ failing' = IF outcome = "rejected" THEN failing \cup {p} ELSE failing
    /\ UNCHANGED <<links, table, uplink, loopback, pending, nextId,
                   gone, waiting, replies, routed, work, cut, stream, frames>>

\* sendControl of a watch: the ping of its interval timer, or the pong for a ping
\* of the callee; both come with a restart of the idle timer (_resetIdle).
WatchControl(p, outcome) ==
    /\ p \in pending
    /\ isWatch(p)
    /\ armed' = armIdle({p.hubId})
    /\ IF outcome = "rejected"
       THEN failing' = failing \cup {p} /\ cut' = cut \cup ({p} \cap work)
       ELSE UNCHANGED <<failing, cut>>
    /\ UNCHANGED <<links, table, uplink, loopback, pending, nextId,
                   gone, waiting, replies, routed, work, stream, frames>>

\* A write for p failed: onSendError of a request or of a forwarded call, stop(false)
\* of a watch, unless p was settled in the meantime.  The callee is not told: it never
\* got the request, or it is that of a watch whose control frame was not written.
SendError(p) ==
    /\ p \in failing
    /\ failing' = failing \ {p}
    /\ Settle({p} \cap pending, Self)
    /\ UNCHANGED <<links, table, uplink, loopback, nextId, gone, routed, work, cut, stream, frames>>

\* Mutant: any link may answer any hub id.
Respond_anyLink(l, h) ==
    /\ l \in links
    /\ Settle({p \in pending : p.hubId = h}, l)
    /\ work' = {p \in work : p.hubId # h}
    /\ UNCHANGED <<links, table, uplink, loopback, nextId, gone, routed, failing, cut, stream, frames>>

\* _demux: a response with id h arrives from l.  Unknown and foreign ids are dropped.
Respond(l, h) ==
    LET answered == {p \in pending : p.hubId = h /\ p.target = l}
    IN  /\ l \in links
        /\ Settle(answered, l)
        /\ work' = {p \in work : ~(p.hubId = h /\ p.target = l)}
        /\ UNCHANGED <<links, table, uplink, loopback, nextId, gone, routed, failing, cut, stream, frames>>

\* _onIdleTimeout: cancel at the callee, fail the caller, drop the entry.  The timer
\* of a watch never gets so far: three pings restart it in its time.
IdleTimeout(h) ==
    LET idle == {p \in pending : p.hubId = h}
    IN  /\ h \in armed
        /\ \A p \in idle : ~isWatch(p)
        /\ Settle(idle, Self)
        /\ work' = cancelled(idle)
        /\ UNCHANGED <<links, table, uplink, loopback, nextId, gone, routed, failing, cut, stream, frames>>

\* The timeout of _requestOnLink: cancel at the callee and fail the hub's own request.
Abandon(p) ==
    /\ p \in pending
    /\ p.origin = Self
    /\ Settle({p}, Self)
    /\ work' = cancelled({p})
    /\ UNCHANGED <<links, table, uplink, loopback, nextId, gone, routed, failing, cut, stream, frames>>

\* A watch is disposed: stop(true) cancels at the callee and calls nobody back.
DisposeWatch(p) ==
    /\ p \in pending
    /\ isWatch(p)
    /\ pending' = pending \ {p}
    /\ armed' = armed \ {p.hubId}
    /\ waiting' = waiting \ {call(p)}
    /\ work' = cancelled({p})
    /\ UNCHANGED <<links, table, uplink, loopback, nextId, gone, replies, routed,
                   failing, cut, stream, frames>>

(***************************************************************************)
(* Streams: correlated to the pending request, never routed by name.       *)
(***************************************************************************)
ForwardFrame(from, to, requestId, h) ==
    /\ frames < MaxFrames
    /\ frames' = frames + 1
    /\ stream' = [from |-> from, to |-> to, requestId |-> requestId]
    /\ armed' = armIdle({h})
    /\ UNCHANGED <<links, table, uplink, loopback, pending, nextId,
                   gone, waiting, replies, routed, work, failing, cut>>

\* Mutant: any link may stream on any hub id.
StreamToCaller_anyLink(l, h) ==
    /\ l \in links
    /\ \E p \in pending : p.hubId = h /\ ForwardFrame(l, p.origin, p.originalId, h)

\* _routeStream, toCaller: by hub id, and only from the link that has the request.
StreamToCaller(l, h) ==
    /\ l \in links
    /\ \E p \in pending :
          /\ p.hubId = h
          /\ p.target = l
          /\ ForwardFrame(l, p.origin, p.originalId, h)

\* _routeStream, toCallee: by the caller's id, and only from the caller's link.
StreamToCallee(l, i) ==
    /\ l \in links
    /\ \E p \in pending :
          /\ call(p) = <<l, i>>
          /\ ForwardFrame(l, p.target, p.hubId, p.hubId)

Next ==
    \/ \E l \in Link, ps \in SUBSET ServiceId, rootHandler \in BOOLEAN : Attach(l, ps, rootHandler)
    \/ \E l \in Link \cup {None} : SetUplink(l)
    \/ ClearLoopback
    \/ \E p \in ServiceId : ReleasePrefix(p)
    \/ \E l \in Link : Detach(l)
    \/ \E p \in pending, prefix \in ServiceId : RegisterServiceId(p, prefix)
    \/ \E l \in Link, i \in Id, a \in Address : AnswerDirectly(l, i, a)
    \/ \E l \in Link, i \in Id, a \in Address, o \in SendOutcome : RouteRequest(l, i, a, o)
    \/ \E l \in Link, o \in SendOutcome : HubRequest(l, o)
    \/ \E l \in Link, o \in SendOutcome : HubWatch(l, o)
    \/ \E p \in pending, o \in SendOutcome : WatchControl(p, o)
    \/ \E p \in failing : SendError(p)
    \/ \E l \in Link, h \in 1..MaxHubId : Respond(l, h)
    \/ \E h \in 1..MaxHubId : IdleTimeout(h)
    \/ \E p \in pending : Abandon(p)
    \/ \E p \in pending : DisposeWatch(p)
    \/ \E l \in Link, h \in 1..MaxHubId : StreamToCaller(l, h)
    \/ \E l \in Link, i \in Id : StreamToCallee(l, i)

Spec == Init /\ [][Next]_vars

\* Idle timers of in-flight requests fire (setTimeout), unless a frame restarts
\* them; the number of frames is bounded by MaxFrames.  Those of watches do not.
Fairness == \A h \in 1..MaxHubId : WF_vars(IdleTimeout(h))

LiveSpec == Spec /\ Fairness

-----------------------------------------------------------------------------
TypeOK ==
    /\ table \in TableType
    /\ links \in SUBSET Link
    /\ uplink \in Link \cup {None}
    /\ loopback \in Link \cup {None}
    /\ pending \in SUBSET PendingType
    /\ armed \in SUBSET (1..MaxHubId)
    /\ nextId \in 1..(MaxHubId + 1)
    /\ gone \in SUBSET Link
    /\ waiting \in SUBSET (Caller \X (Id \cup (1..MaxHubId)))
    /\ replies \in SUBSET ReplyType
    /\ routed \in SUBSET PendingType
    /\ work \in SUBSET PendingType
    /\ failing \in SUBSET PendingType
    /\ cut \in SUBSET PendingType
    /\ frames \in 0..MaxFrames

\* A call gets at most one response: whatever races (answer, idle timeout, failed
\* write, detach, a forged or repeated answer), no second response reaches the
\* caller.
OneReply == \A r \in replies : r.fresh

\* A response that a peer wrote reaches a caller only if that peer is the one the
\* caller's request was forwarded to, and under the hub id it was given for it.
OwnAnswer ==
    \A r \in replies :
        r.by # Self =>
            \E p \in routed :
                /\ call(p) = <<r.to, r.id>>
                /\ p.target = r.by
                /\ p.hubId = r.hubId

\* A call without a response is still held by the hub: no path drops an entry of
\* _pending without answering its caller.
NoLostCall == \A w \in waiting : \E p \in pending : call(p) = w

\* Routes, slots and in-flight requests only ever name attached links: a detached
\* link leaves nothing behind.
RoutesAttached ==
    /\ \A p \in ServiceId : table.entries[p] # None => table.entries[p] \in links
    /\ uplink # None => uplink \in links
    /\ loopback # None => loopback \in links
    /\ \A p \in pending : p.origin \in Link => {p.origin, p.target} \subseteq links

\* A link whose connection has ended is not attached again by a claim that was
\* still in progress for it (claimPrefix attaches the link it is given).
NoZombie == links \cap gone = {}

\* A detach is complete and final.
DetachIsClean == RoutesAttached /\ NoZombie

\* A callee that still works on a request can be reached by a cancel: its pending
\* entry is there, or it has been told to stop.  The one exception is a watch that
\* ended because a ping or a pong could not be written: stop(false) drops the entry
\* without a cancel, and the callee goes on.
NoOrphanedWork == work \subseteq pending \cup cut

\* An idle timer runs only for a request that is in flight.
NoTimerLeak == armed \subseteq hubIds(pending)

\* The end of a request, on whichever path, ends everything that was kept for it.
EndIsClean == NoOrphanedWork /\ NoTimerLeak

(***************************************************************************)
(* The inductive invariant: the properties above and the correlation facts *)
(* they rest on.                                                           *)
(***************************************************************************)

\* Hub ids are handed out once, and an entry of _pending is found by its id.
HubIdsUnique ==
    /\ pending \subseteq routed
    /\ \A p \in routed : p.hubId < nextId
    /\ \A p, q \in pending : p.hubId = q.hubId => p = q

\* A caller's id names one entry of _pending, which holds an open call.
CallsUnique ==
    /\ \A p \in pending : call(p) \in waiting
    /\ \A p, q \in pending : call(p) = call(q) => p = q
    /\ \A p \in pending : p.origin \notin Link => p.originalId = p.hubId

\* A request whose write fails never reached its callee; only the control frames of
\* a watch can fail later.
FailedUndelivered ==
    /\ failing \subseteq routed
    /\ failing \cap work \subseteq cut
    /\ cut \subseteq {p \in routed : isWatch(p)}

IInv ==
    /\ TypeOK
    /\ IndexInLockStep
    /\ RoutesAttached
    /\ NoZombie
    /\ HubIdsUnique
    /\ CallsUnique
    /\ NoLostCall
    /\ FailedUndelivered
    /\ NoOrphanedWork
    /\ NoTimerLeak
    /\ OneReply
    /\ OwnAnswer

\* A claimed prefix never passes from one link to another: it has to be released
\* (or its link detached) first.
ClaimOnce ==
    [][\A p \in ServiceId :
          has(table, p) => table'.entries[p] \in {table.entries[p], None}]_vars

\* A stream frame is delivered only on the path of a call that is still open:
\* from its callee to its caller under the caller's id, or from its caller to its
\* callee under the hub's id; never after the response.
StreamFollowsCall ==
    [][frames' # frames =>
          \E p \in routed :
              /\ call(p) \in waiting
              /\ \/ stream' = [from |-> p.target, to |-> p.origin, requestId |-> p.originalId]
                 \/ stream' = [from |-> p.origin, to |-> p.target, requestId |-> p.hubId]]_vars

\* Every call ends: with a response, or with the end of its caller's connection.  A
\* watch need not: that of a silent peer is kept by its pings until somebody ends it.
EveryCallSettles ==
    \A c \in Caller \ {Watcher}, i \in Id \cup (1..MaxHubId) :
        <<c, i>> \in waiting ~> <<c, i>> \notin waiting
=============================================================================
