----------------------------- MODULE GraphClient -----------------------------
(***************************************************************************)
(* The client of a remote immutable graph (linkrpc-infra, graph/client.ts).*)
(*                                                                         *)
(* Acquired objects are pinned with a watch at the server, then fetched in *)
(* batches, one batch at a time; the root is watched, and its offers are   *)
(* applied once the pins of the visible objects are settled.  The          *)
(* connection may be swapped at any time: an epoch number tells late       *)
(* answers from current ones.                                              *)
(*                                                                         *)
(* The byte and count budgets of the cache are abstracted: an eviction     *)
(* drops the idle objects that are not ready and any of those that are.    *)
(***************************************************************************)
EXTENDS Naturals, FiniteSets

CONSTANTS
    GraphRef,
    MaxBatch,      \* options.maxBatchObjects
    MaxEpoch,      \* bound: connections, and their ends
    MaxVersion,    \* bound: roots offered by a watch
    MaxDemand      \* bound: calls of acquire and retry

ASSUME GraphAssumption == {MaxBatch, MaxEpoch, MaxVersion, MaxDemand} \subseteq Nat /\ MaxBatch > 0 /\ MaxEpoch > 0

VARIABLE graph

Epoch == 1..MaxEpoch

(***************************************************************************)
(* Of an object: known tells whether it has an entry, users counts its     *)
(* handles, state and error are what they show, branch is                  *)
(* retainsDescendants, pin the state of the current pin.  Of the fetches:  *)
(* pending, inFlight (the epoch, or 0), scheduled, running (_runningEpoch) *)
(* and per epoch the batch that _flush awaits.  Of the root: offers that   *)
(* wait for pins, the version applied and the version shown.               *)
(***************************************************************************)
GraphInit ==
    graph = [connected |-> FALSE, disposed |-> FALSE, epoch |-> 1, demands |-> 0,
             known |-> {}, users |-> [r \in GraphRef |-> 0], state |-> [r \in GraphRef |-> "loading"],
             error |-> {}, branch |-> GraphRef, pin |-> [r \in GraphRef |-> "none"],
             pending |-> {}, inFlight |-> [r \in GraphRef |-> 0], scheduled |-> FALSE, running |-> 0,
             batch |-> [e \in Epoch |-> {}],
             offered |-> 0, offers |-> {}, applied |-> 0, root |-> "loading"]

inUse(g) == {r \in GraphRef : g.users[r] > 0}

\* The promise of a pin is settled: no offer waits for it any more.
pinSettled(g, refs) == [g EXCEPT !.offers = {[o EXCEPT !.waits = @ \ refs] : o \in g.offers}]

pinDisposed(g, refs) ==
    pinSettled([g EXCEPT !.pin = [r \in GraphRef |-> IF r \in refs THEN "none" ELSE @[r]]], refs)

\* _failEntry
entriesFailed(g, refs) ==
    [g EXCEPT !.error = @ \cup refs,
              !.state = [r \in GraphRef |-> IF r \in refs /\ @[r] # "ready" THEN "error" ELSE @[r]]]

\* The objects that _pin watches: a cached leaf needs no lease.
pinned(g, refs) ==
    [g EXCEPT !.pin = [r \in GraphRef |->
        IF r \in refs /\ (r \in g.branch \/ g.state[r] # "ready") THEN "asking" ELSE @[r]]]

\* _evict drops idle entries; choice are those of them that exceed the budgets.
entriesEvicted(g, choice) ==
    LET idle == {r \in g.known \ inUse(g) : g.inFlight[r] = 0}
        gone == {r \in idle : g.state[r] # "ready" \/ r \in choice}
    IN  [g EXCEPT !.known = @ \ gone, !.error = @ \ gone, !.branch = @ \cup gone,
                  !.state = [r \in GraphRef |-> IF r \in gone THEN "loading" ELSE @[r]]]

flushScheduled(g) == [g EXCEPT !.scheduled = @ \/ (g.running # g.epoch /\ ~g.disposed)]

\* Mutant: _detach does not tell the fetches of the former connection from later ones.
graphDetached_keepsFlight(g) ==
    entriesEvicted([pinDisposed(g, GraphRef) EXCEPT
        !.epoch = @ + 1, !.connected = FALSE, !.pending = {}, !.offers = {}, !.offered = 0, !.applied = 0], {})

\* _detach
graphDetached(g) ==
    entriesEvicted([pinDisposed(g, GraphRef) EXCEPT
        !.epoch = @ + 1, !.connected = FALSE, !.pending = {}, !.inFlight = [r \in GraphRef |-> 0],
        !.offers = {}, !.offered = 0, !.applied = 0], {})

-----------------------------------------------------------------------------
\* acquire
Acquire(r) ==
    /\ ~graph.disposed /\ graph.demands < MaxDemand
    /\ LET g == [graph EXCEPT !.demands = @ + 1, !.known = @ \cup {r}, !.users[r] = @ + 1]
       IN  graph' = IF g.pin[r] = "none" /\ g.connected THEN pinned(g, {r}) ELSE g

\* Mutant: an object whose last handle goes stays in the queue of fetches.
HandleDisposed_keepsPending(r, choice) ==
    /\ graph.users[r] > 0
    /\ LET g == [graph EXCEPT !.users[r] = @ - 1]
       IN  graph' = entriesEvicted(IF g.users[r] = 0 THEN pinDisposed(g, {r}) ELSE g, choice)

\* dispose() of a handle.
HandleDisposed(r, choice) ==
    /\ graph.users[r] > 0
    /\ LET g == [graph EXCEPT !.users[r] = @ - 1]
       IN  graph' = entriesEvicted(
                        IF g.users[r] = 0 THEN [pinDisposed(g, {r}) EXCEPT !.pending = @ \ {r}] ELSE g, choice)

\* retry
RetryObject(r) ==
    /\ ~graph.disposed /\ graph.users[r] > 0 /\ r \in graph.error /\ graph.demands < MaxDemand
    /\ LET g == [pinDisposed(graph, {r}) EXCEPT
                    !.demands = @ + 1, !.error = @ \ {r}, !.state[r] = IF @ = "ready" THEN @ ELSE "loading"]
       IN  graph' = IF g.connected THEN pinned(g, {r}) ELSE g

\* The watch of retryRoot() begins.
rootWatched(g) == [g EXCEPT !.root = IF @ = "ready" THEN @ ELSE "loading",
                            !.offered = 0, !.offers = {}, !.applied = 0]

\* setConnection with a connection.
SetConnection ==
    /\ ~graph.disposed /\ graph.epoch < MaxEpoch
    /\ LET g == graphDetached(graph)
           shown == inUse(g)
           fresh == [g EXCEPT !.connected = TRUE, !.error = @ \ shown,
                              !.state = [r \in GraphRef |-> IF r \in shown /\ @[r] # "ready" THEN "loading" ELSE @[r]]]
       IN  graph' = rootWatched(pinned(fresh, shown))

\* setConnection without one.
UnsetConnection ==
    /\ ~graph.disposed /\ graph.connected /\ graph.epoch < MaxEpoch
    /\ graph' = graphDetached(graph)

\* retryRoot(), asked for by the user.
RetryRoot ==
    /\ ~graph.disposed /\ graph.connected
    /\ graph' = rootWatched(graph)

\* The connection closes: _failConnection.
GraphConnectionCloses ==
    /\ graph.connected /\ graph.epoch < MaxEpoch
    /\ LET lost == {r \in inUse(graph) : r \in graph.branch \/ graph.state[r] # "ready"}
           g == [entriesFailed(graph, lost) EXCEPT !.root = IF @ = "ready" THEN @ ELSE "error"]
       IN  graph' = graphDetached(g)

\* The watch of the root ends or fails.
RootWatchEnds ==
    /\ graph.connected
    /\ graph' = [graph EXCEPT !.root = IF @ = "ready" THEN @ ELSE "error"]

GraphDispose ==
    /\ ~graph.disposed /\ graph.epoch < MaxEpoch
    /\ graph' = [graphDetached(graph) EXCEPT !.disposed = TRUE, !.known = {}]

-----------------------------------------------------------------------------
\* The server offers the pinned object, the offer is accepted in a microtask.
PinOffered(r) ==
    /\ graph.pin[r] = "asking"
    /\ graph' = [graph EXCEPT !.pin[r] = "accepting"]

\* The accept is sent: the object is leased and may be fetched.
PinReady(r) ==
    /\ graph.pin[r] = "accepting"
    /\ LET g == pinSettled([graph EXCEPT !.pin[r] = "live", !.error = @ \ {r}], {r})
       IN  graph' = IF g.state[r] = "loading" /\ g.inFlight[r] = 0
                    THEN flushScheduled([g EXCEPT !.pending = @ \cup {r}]) ELSE g

\* The watch ends or fails, or offers another object.
PinFails(r) ==
    /\ graph.pin[r] \in {"asking", "accepting", "live"}
    /\ graph' = entriesFailed(pinSettled([graph EXCEPT !.pin[r] = "failed"], {r}), {r})

\* The server offers a root: it has to wait for the pins of what is visible.
RootOffered ==
    /\ graph.connected /\ graph.offered < MaxVersion
    /\ LET waits == {r \in inUse(graph) : graph.pin[r] \in {"asking", "accepting"}}
       IN  graph' = [graph EXCEPT !.offered = @ + 1, !.offers = @ \cup {[version |-> graph.offered + 1, waits |-> waits]}]

\* Mutant: an offer is applied whatever was applied before it.
OfferApplied_unordered(o) ==
    /\ o \in graph.offers /\ o.waits = {}
    /\ graph' = [graph EXCEPT !.offers = @ \ {o}, !.applied = o.version, !.root = "ready"]

OfferApplied(o) ==
    /\ o \in graph.offers /\ o.waits = {}
    /\ LET g == [graph EXCEPT !.offers = @ \ {o}]
       IN  graph' = IF o.version <= graph.applied THEN g
                    ELSE [g EXCEPT !.applied = o.version, !.root = "ready"]

-----------------------------------------------------------------------------
\* The loop of _flush(): the next batch of epoch e, or its end.
flushLoops(g, e) ==
    LET idle == [g EXCEPT !.batch[e] = {}]
        wanted == g.pending \cap inUse(g)
    IN  IF g.disposed \/ e # g.epoch \/ wanted = {}
        THEN LET over == [idle EXCEPT !.running = IF @ = e THEN 0 ELSE @]
             IN  {IF over.pending # {} THEN flushScheduled(over) ELSE over}
        ELSE {[g EXCEPT !.batch[e] = b, !.pending = @ \ b,
                        !.inFlight = [r \in GraphRef |-> IF r \in b THEN e ELSE @[r]]] :
              b \in {b \in SUBSET wanted : Cardinality(b) = MaxBatch \/ (b = wanted /\ Cardinality(b) < MaxBatch)}}

\* The microtask of _schedule().
Flush ==
    /\ graph.scheduled
    /\ LET g == [graph EXCEPT !.scheduled = FALSE]
       IN  IF g.running = g.epoch \/ g.disposed THEN graph' = g
           ELSE graph' \in flushLoops([g EXCEPT !.running = g.epoch], g.epoch)

\* The finally block of a batch.
batchOver(g, e) == [g EXCEPT !.inFlight = [r \in GraphRef |-> IF r \in g.batch[e] /\ @[r] = e THEN 0 ELSE @[r]]]

\* The response to a batch: objects, some of them leaves, missing ones, and whether the
\* response is complete.
BatchAnswered(e, got, leaves, missing, complete, choice) ==
    /\ graph.batch[e] # {} /\ e = graph.epoch
    /\ got \cap missing = {}
    /\ LET rest == graph.batch[e] \ (got \cup missing)
           again == IF ~complete /\ got \cup missing # {} THEN rest ELSE {}
           ready == [graph EXCEPT !.state = [r \in GraphRef |-> IF r \in got THEN "ready" ELSE @[r]],
                                  !.error = @ \ got, !.branch = (@ \ leaves) \cup (got \ leaves)]
           failed == entriesFailed(pinDisposed(ready, leaves), missing \cup (rest \ again))
           queued == [failed EXCEPT !.pending = @ \cup (again \cap inUse(graph))]
       IN  graph' \in flushLoops(entriesEvicted(batchOver(queued, e), choice), e)

BatchFails(e, choice) ==
    /\ graph.batch[e] # {} /\ e = graph.epoch
    /\ graph' \in flushLoops(entriesEvicted(batchOver(entriesFailed(graph, graph.batch[e]), e), choice), e)

\* The answer to a batch of a former connection, or of a disposed client; an error is
\* followed by an eviction.
BatchIgnored(e, choice) ==
    /\ graph.batch[e] # {} /\ e # graph.epoch
    /\ LET g == batchOver(graph, e)
       IN  graph' \in flushLoops(g, e) \cup flushLoops(entriesEvicted(g, choice), e)

PinStep(r) == PinOffered(r) \/ PinReady(r) \/ PinFails(r)

\* The idle objects, of which an eviction takes some.
evictable == SUBSET (graph.known \ inUse(graph))

BatchStep ==
    \E e \in Epoch, choice \in evictable :
        \/ \E got, missing \in SUBSET graph.batch[e], complete \in BOOLEAN :
               \E leaves \in SUBSET got : BatchAnswered(e, got, leaves, missing, complete, choice)
        \/ BatchFails(e, choice)

GraphNext ==
    \/ \E r \in GraphRef : Acquire(r) \/ RetryObject(r) \/ PinStep(r)
    \/ \E r \in GraphRef, choice \in SUBSET graph.known : HandleDisposed(r, choice)
    \/ SetConnection
    \/ UnsetConnection
    \/ RetryRoot
    \/ GraphConnectionCloses
    \/ RootWatchEnds
    \/ GraphDispose
    \/ RootOffered
    \/ \E o \in graph.offers : OfferApplied(o)
    \/ Flush
    \/ BatchStep
    \/ \E e \in Epoch, choice \in evictable : BatchIgnored(e, choice)

GraphSpec == GraphInit /\ [][GraphNext]_graph

-----------------------------------------------------------------------------
\* "Acquired handles are the only source of object demand" (graph/client.ts): what
\* nobody holds is neither pinned nor queued for a fetch, nor is anything pinned or
\* queued over a connection that is gone.
NoIdleDemand ==
    \A r \in GraphRef :
        graph.pin[r] # "none" \/ r \in graph.pending => graph.users[r] > 0 /\ graph.connected

\* An acquired object that loads is on its way to an answer: its pin is being set up, or
\* it is in the batch of this connection, or it is queued and a batch or a flush will
\* look at the queue - whatever connections, handles and retries came in between.
LoadingIsUnderWay ==
    \A r \in inUse(graph) :
        graph.connected /\ graph.state[r] = "loading" =>
            \/ graph.pin[r] \in {"asking", "accepting"}
            \/ r \in graph.batch[graph.epoch]
            \/ r \in graph.pending /\ (graph.scheduled \/ graph.batch[graph.epoch] # {})

\* "never regress to an older root" (graph/client.ts), although an older offer may have
\* to wait for pins longer than a newer one.
RootNeverRegresses ==
    [][graph'.applied < graph.applied => graph'.applied = 0 /\ graph'.offered = 0]_graph

\* A consumer of the graph is served: what it holds is on its way and nothing else is,
\* and the root it is shown does not go back.
GraphIsServed == [](NoIdleDemand /\ LoadingIsUnderWay) /\ RootNeverRegresses
=============================================================================
