-------------------------- MODULE DirectoryExplorer --------------------------
(***************************************************************************)
(* HubDirectoryExplorer (linkrpc, hub/common/directoryWalk.ts): listing    *)
(* the directories that are reachable from a root, and watching them.      *)
(*                                                                         *)
(* Three asynchronous activities work on the same nodes: the exploration,  *)
(* the chain of reconciliations (_work), and a call of watch() on an       *)
(* explored graph.  Between two awaits each is atomic; while one of them   *)
(* can go on, no message, timer or call comes in, but several messages may *)
(* come in at once.  A node is listed by one load at a time, whoever asks. *)
(*                                                                         *)
(* The graph is a root that refers to directories with some scopes, as its *)
(* listing says; those list services only.  What scopes and cycles come to *)
(* is DirectoryScopes'.  A second explore() is not modelled, and the       *)
(* rounds of a reconciliation have no limit.                               *)
(***************************************************************************)
EXTENDS Naturals, Sequences, FiniteSets

CONSTANTS
    ChildDir,      \* directories the root may refer to
    DirScopes,     \* scopes of a referral
    Unlisted,      \* no referral
    MaxChanges,    \* bound: changes of directories
    MaxTroubles,   \* bound: failures of lists, watches and the channel
    MaxNode,       \* bound: node objects at a time, the root's included
    MaxJobs        \* bound: reconciliations that wait for their turn

ASSUME ExplorerAssumption == {MaxChanges, MaxTroubles, MaxNode, MaxJobs} \subseteq Nat /\ MaxNode > 0

VARIABLE explorer

NodeId == 1..MaxNode
RootNode == 1
RootDir == "root"

\* Of a node: its directory ("-" if the object is free) and scopes; its watch, with the
\* scopes it was opened for, whether the server has registered it and whether a tick is on
\* its way; its load, with what was asked and answered and the loads it waits for.
noNode == [dir |-> "-", scopes |-> Unlisted, state |-> "unexplored", listing |-> 0, loaded |-> FALSE,
           watch |-> "idle", watched |-> Unlisted, registered |-> FALSE, tick |-> FALSE,
           load |-> "none", asked |-> Unlisted, behind |-> FALSE, answer |-> <<>>, reload |-> FALSE, waits |-> {}]

idleTask == [at |-> "none", waits |-> {}, computed |-> {}, again |-> FALSE]

newNode(d, s) == [noNode EXCEPT !.dir = d, !.scopes = s]

\* refers is the content of the root directory, version that of the others.
ExplorerInit ==
    \E refers \in [ChildDir -> DirScopes \cup {Unlisted}] :
        explorer = [refers |-> refers, version |-> [c \in ChildDir |-> 0], changes |-> 0, troubles |-> 0,
                    up |-> TRUE, gated |-> {}, watching |-> FALSE, disposed |-> FALSE, initialized |-> FALSE,
                    complete |-> FALSE, ticks |-> {}, jobs |-> <<>>, job |-> "none",
                    node |-> [n \in NodeId |-> IF n = RootNode THEN newNode(RootDir, Unlisted) ELSE noNode],
                    seen |-> [c \in ChildDir |-> Unlisted],
                    at |-> [c \in ChildDir |-> 0],
                    task |-> [t \in {"explore", "work", "watch"} |-> idleTask]]

\* _nodes: the nodes that are part of the graph.
inGraph(g) == {n \in NodeId : ~g.disposed /\ (n = RootNode \/ \E c \in ChildDir : g.at[c] = n)}

needsWatch(g, n) ==
    /\ g.watching /\ ~g.disposed
    /\ \/ g.node[n].watch = "idle"
       \/ g.node[n].watch = "active" /\ g.node[n].watched # g.node[n].scopes

\* _stopWatch
unwatched(me) == [me EXCEPT !.watch = "idle", !.watched = Unlisted, !.registered = FALSE, !.tick = FALSE]

\* _watchFailed
watchFailed(g, n) ==
    IF ~g.watching \/ g.disposed \/ n \notin inGraph(g) THEN g
    ELSE [g EXCEPT !.node[n] = [unwatched(@) EXCEPT !.watch = "backoff"]]

\* _startWatch: a list that is already on its way is ahead of the watch.
nodeWatched(g, n) ==
    IF ~g.up THEN watchFailed(g, n)
    ELSE [g EXCEPT !.node[n].watch = "active", !.node[n].watched = g.node[n].scopes,
                   !.node[n].registered = FALSE, !.node[n].tick = FALSE, !.node[n].behind = FALSE]

\* Mutant: the load of a node that has left the graph opens a watch, too.
listAsked_anyNode(g, n) ==
    LET h == IF needsWatch(g, n) THEN nodeWatched(g, n) ELSE g
    IN  [h EXCEPT !.node[n].load = "listing", !.node[n].asked = h.node[n].scopes, !.node[n].state = "loading",
                  !.node[n].behind = TRUE, !.node[n].answer = <<>>, !.node[n].reload = FALSE]

\* A turn of the loop of _runLoad, up to its list: the watch is opened first.
listAsked(g, n) ==
    LET h == IF n \in inGraph(g) /\ needsWatch(g, n) THEN nodeWatched(g, n) ELSE g
    IN  [h EXCEPT !.node[n].load = "listing", !.node[n].asked = h.node[n].scopes, !.node[n].state = "loading",
                  !.node[n].behind = TRUE, !.node[n].answer = <<>>, !.node[n].reload = FALSE]

\* Mutant: a request for a node that is being listed is forgotten.
nodeLoaded_once(g, n) == IF g.node[n].load # "none" THEN g ELSE listAsked(g, n)

\* _loadNode
nodeLoaded(g, n) == IF g.node[n].load # "none" THEN [g EXCEPT !.node[n].reload = TRUE] ELSE listAsked(g, n)

\* The loads that a step of h started, and its caller therefore awaits.
started(g, h) == {n \in NodeId : g.node[n].load = "none" /\ h.node[n].load # "none"}

freeNodes(g) == {n \in NodeId : g.node[n].dir = "-"}

\* The node of a referral: a new one, one whose scopes have changed, or one as it was.
referralApplied(g, c) ==
    LET s == g.seen[c]
    IN  IF s = Unlisted THEN g
        ELSE IF g.at[c] = 0
        THEN LET n == CHOOSE n \in freeNodes(g) : \A k \in freeNodes(g) : n <= k
             IN  nodeLoaded([g EXCEPT !.at[c] = n, !.node[n] = newNode(c, s)], n)
        ELSE IF g.node[g.at[c]].scopes = s THEN g
        ELSE nodeLoaded([g EXCEPT !.node[g.at[c]].scopes = s], g.at[c])

applied(g) ==
    LET apply[cs \in SUBSET ChildDir] ==
            IF cs = {} THEN g
            ELSE LET c == CHOOSE c \in cs : TRUE IN referralApplied(apply[cs \ {c}], c)
    IN  apply[ChildDir]

\* A node leaves the graph; its object stays as long as it is being loaded.
removed(g, gone) ==
    LET h == [g EXCEPT !.at = [c \in ChildDir |-> IF c \in gone THEN 0 ELSE @[c]]]
        ns == {g.at[c] : c \in gone} \ {0}
    IN  [h EXCEPT !.node = [n \in NodeId |->
            IF n \notin ns THEN @[n]
            ELSE IF @[n].load = "none" THEN noNode
            ELSE unwatched(@[n])]]

-----------------------------------------------------------------------------
\* The event loop: continuations run before the next message, and all that a chunk of
\* messages has caused before the next timer or call.  What the server does commutes with
\* the continuations, so it waits for them, too.
canContinue ==
    \/ \E t \in DOMAIN explorer.task :
           \/ explorer.task[t].at \in {"reconcile", "prune", "sync", "loop"}
           \/ explorer.task[t].at # "none" /\ explorer.task[t].waits = {}
    \/ \E n \in NodeId : explorer.node[n].load \in {"outgoing", "ending"} /\ explorer.node[n].waits = {}

\* The await of a round's relists, once they have settled, takes fewer turns of the
\* microtask queue than the way from a listing to the end of its load.
roundIsOver == \E t \in DOMAIN explorer.task : explorer.task[t].at = "relisted" /\ explorer.task[t].waits = {}

onMessage == ~canContinue

onEvent ==
    /\ ~canContinue
    /\ \A n \in NodeId : explorer.node[n].load # "arrived"
    /\ explorer.jobs = <<>> \/ explorer.task["work"].at # "none"

-----------------------------------------------------------------------------
\* The loads.

\* A load is over: whoever awaits it goes on.
loadOver(g, n) ==
    LET h == [g EXCEPT !.node[n].load = "none", !.node[n].reload = FALSE]
        freed == [h EXCEPT !.node = [k \in NodeId |->
                    LET me == IF k = n /\ n \notin inGraph(g) THEN noNode ELSE @[k]
                    IN  [me EXCEPT !.waits = @ \ {n}]]]
    IN  [freed EXCEPT !.task = [t \in DOMAIN @ |-> [@[t] EXCEPT !.waits = @ \ {n}]]]

\* The listing is in place; the root's referrals follow, and their loads are awaited.
outgoingReconciled(g, n, then) ==
    LET h == IF n = RootNode /\ g.node[n].loaded THEN applied(g) ELSE g
    IN  [h EXCEPT !.node[n] = [@ EXCEPT !.load = then, !.waits = started(g, h),
                                        !.asked = Unlisted, !.answer = <<>>, !.behind = FALSE]]

\* The server answers a list, in order with a watch that was sent before.
ListServed(n) ==
    /\ onEvent
    /\ explorer.node[n].load = "listing" /\ explorer.node[n].answer = <<>>
    /\ explorer.node[n].behind /\ explorer.node[n].watch = "active" => explorer.node[n].registered
    /\ explorer' = [explorer EXCEPT !.node[n].answer =
                        <<IF n = RootNode THEN explorer.refers ELSE explorer.version[explorer.node[n].dir]>>]

ListArrives(n) ==
    /\ onMessage
    /\ explorer.node[n].load = "listing" /\ explorer.node[n].answer # <<>>
    /\ explorer' = [explorer EXCEPT !.node[n].load = "arrived"]

ListAnswered(n) ==
    /\ explorer.node[n].load = "arrived"
    /\ LET me == explorer.node[n]
           loaded == [explorer EXCEPT !.node[n].loaded = TRUE, !.node[n].state = "loaded",
                                      !.node[n].listing = IF n = RootNode THEN 0 ELSE me.answer[1],
                                      !.seen = IF n = RootNode THEN me.answer[1] ELSE @]
       IN  explorer' = IF me.asked # me.scopes THEN listAsked(explorer, n)
                       ELSE outgoingReconciled(loaded, n, "outgoing")

\* A node that cannot be listed keeps what it had; the load ends, whatever was requested.
listFailed(g, n) == outgoingReconciled([g EXCEPT !.node[n].state = "inaccessible"], n, "ending")

ListFails(n) ==
    /\ onMessage
    /\ explorer.node[n].load = "listing"
    /\ explorer.troubles < MaxTroubles \/ ~explorer.up
    /\ explorer' = listFailed([explorer EXCEPT !.troubles = IF explorer.up THEN @ + 1 ELSE @], n)

\* A directory that needs a permission: it is asked for once.
ListRefused(n) ==
    /\ onMessage
    /\ explorer.node[n].load = "listing" /\ n # RootNode
    /\ explorer.troubles < MaxTroubles
    /\ explorer.node[n].dir \notin explorer.gated
    /\ explorer' = [explorer EXCEPT !.troubles = @ + 1, !.gated = @ \cup {explorer.node[n].dir},
                                    !.node[n].load = "unlocking"]

UnlockAnswered(n, granted) ==
    /\ onMessage
    /\ explorer.node[n].load = "unlocking"
    /\ explorer' = IF granted THEN listAsked(explorer, n) ELSE listFailed(explorer, n)

\* The loads of the referrals have settled.
LoadContinues(n) ==
    /\ ~roundIsOver
    /\ explorer.node[n].load \in {"outgoing", "ending"} /\ explorer.node[n].waits = {}
    /\ explorer' = IF explorer.node[n].load = "outgoing" /\ explorer.node[n].reload
                   THEN listAsked(explorer, n) ELSE loadOver(explorer, n)

-----------------------------------------------------------------------------
\* The watches.

WatchRegistered(n) ==
    /\ onEvent
    /\ explorer.node[n].watch = "active" /\ ~explorer.node[n].registered
    /\ explorer' = [explorer EXCEPT !.node[n].registered = TRUE]

\* A directory changes: its watches tick.
ticked(g, d) ==
    [g EXCEPT !.changes = @ + 1,
              !.node = [n \in NodeId |-> IF @[n].dir = d /\ @[n].registered THEN [@[n] EXCEPT !.tick = TRUE] ELSE @[n]]]

DirectoryChanges(c) ==
    /\ onEvent
    /\ explorer.changes < MaxChanges /\ ~explorer.disposed
    /\ explorer' = ticked([explorer EXCEPT !.version[c] = @ + 1], c)

ReferralChanges(c, s) ==
    /\ onEvent
    /\ explorer.changes < MaxChanges /\ ~explorer.disposed
    /\ s # explorer.refers[c]
    /\ explorer' = ticked([explorer EXCEPT !.refers[c] = s], RootDir)

\* _queueTick
TickDelivered(n) ==
    /\ onMessage
    /\ explorer.node[n].tick /\ Len(explorer.jobs) < MaxJobs
    /\ explorer' = [explorer EXCEPT !.node[n].tick = FALSE, !.ticks = @ \cup {explorer.node[n].dir},
                                    !.complete = FALSE, !.jobs = Append(@, "ticks")]

\* The watch ends or is refused by the directory: _onWatchEnded.
NodeWatchEnds(n) ==
    /\ onMessage
    /\ explorer.node[n].watch = "active" /\ explorer.troubles < MaxTroubles
    /\ explorer' = watchFailed([explorer EXCEPT !.troubles = @ + 1], n)

\* Mutant: a node whose backoff is over is left to the next reconciliation.
RetryWatch_waits(n) ==
    /\ onEvent
    /\ explorer.node[n].watch = "backoff" /\ Len(explorer.jobs) < MaxJobs
    /\ explorer' = [explorer EXCEPT !.node[n].watch = "idle"]

\* The timer of the backoff: _retryWatch.
RetryWatch(n) ==
    /\ onEvent
    /\ explorer.node[n].watch = "backoff" /\ Len(explorer.jobs) < MaxJobs
    /\ explorer' = [explorer EXCEPT !.node[n].watch = "idle", !.complete = FALSE, !.jobs = Append(@, "retry")]

\* The channel refuses requests for a while.
ChannelFails ==
    /\ onEvent
    /\ explorer.up /\ explorer.troubles < MaxTroubles
    /\ explorer' = [explorer EXCEPT !.up = FALSE, !.troubles = @ + 1]

ChannelBack ==
    /\ onEvent
    /\ ~explorer.up
    /\ explorer' = [explorer EXCEPT !.up = TRUE]

-----------------------------------------------------------------------------
\* The activities.

taskAt(g, t, at) == [g EXCEPT !.task[t].at = at]

\* A task ends and reports the graph as settled.
taskSettled(g, t) ==
    [g EXCEPT !.task[t] = idleTask, !.complete = TRUE, !.job = IF t = "work" THEN "none" ELSE @]

\* A round of _reconcileScopesFromRoot, up to its await: once the lists of the step before
\* have settled, or another round.
Reconcile(t) ==
    /\ explorer.task[t].at \in {"verify", "load", "reconcile"} /\ explorer.task[t].waits = {}
    /\ LET h == applied(explorer)
       IN  explorer' = [h EXCEPT !.task[t].at = "relisted", !.task[t].waits = started(explorer, h),
                                 !.task[t].computed = {c \in ChildDir : explorer.seen[c] # Unlisted},
                                 !.task[t].again = \E c \in ChildDir :
                                     /\ explorer.seen[c] # Unlisted
                                     /\ \/ explorer.at[c] = 0
                                        \/ explorer.node[explorer.at[c]].scopes # explorer.seen[c]]

\* After the await: what the round did not compute is not reachable.
Relisted(t) ==
    /\ explorer.task[t].at = "relisted" /\ explorer.task[t].waits = {}
    /\ LET h == removed(explorer, ChildDir \ explorer.task[t].computed)
       IN  explorer' = [h EXCEPT !.task[t].at = IF explorer.task[t].again THEN "reconcile" ELSE "prune",
                                 !.task[t].computed = {}, !.task[t].again = FALSE]

\* A pass of _synchronizeWatches: watch first, then list again.
watchesOpened(g) ==
    LET open[ns \in SUBSET NodeId] ==
            IF ns = {} THEN g
            ELSE LET n == CHOOSE n \in ns : \A k \in ns : n >= k
                     h == open[ns \ {n}]
                 IN  IF n \notin inGraph(h) \/ ~needsWatch(h, n) THEN h
                     ELSE IF h.up THEN nodeLoaded(nodeWatched(h, n), n) ELSE nodeWatched(h, n)
    IN  open[inGraph(g)]

\* It repeats until no node needs a watch; the task goes on to its end then.
synchronized(g, t) ==
    LET h == watchesOpened(g)
    IN  IF \E n \in inGraph(g) : needsWatch(g, n)
        THEN [h EXCEPT !.task[t] = [idleTask EXCEPT !.at = "verify", !.waits = started(g, h)]]
        ELSE IF t = "work" /\ g.job = "ticks" THEN [g EXCEPT !.task[t] = [idleTask EXCEPT !.at = "loop"]]
        ELSE taskSettled(g, t)

SynchronizeWatches(t) ==
    /\ explorer.task[t].at = "sync"
    /\ explorer' = synchronized(explorer, t)

\* _pruneUnreachable, and on to the watches; the exploration is initialized then.
Prune(t) ==
    /\ explorer.task[t].at = "prune"
    /\ LET h == removed(explorer, {c \in ChildDir : explorer.seen[c] = Unlisted})
           g == [h EXCEPT !.initialized = @ \/ t = "explore"]
       IN  explorer' = IF g.watching \/ t # "explore" THEN synchronized(g, t) ELSE taskSettled(g, t)

\* The next job of _work.
JobStarts ==
    /\ explorer.task["work"].at = "none" /\ explorer.jobs # <<>>
    /\ LET g == [explorer EXCEPT !.job = Head(explorer.jobs), !.jobs = Tail(@)]
       IN  explorer' = IF g.job = "ticks" THEN taskAt(g, "work", "loop")
                       ELSE taskAt(g, "work", "sync")

\* The loop over the pending ticks; a load that runs is awaited to its end.
TickTaken(d) ==
    /\ explorer.task["work"].at = "loop" /\ d \in explorer.ticks
    /\ LET n == IF d = RootDir THEN RootNode ELSE explorer.at[d]
           g == [explorer EXCEPT !.ticks = @ \ {d}]
           h == [nodeLoaded(g, n) EXCEPT !.task["work"].at = "load", !.task["work"].waits = {n}]
       IN  explorer' = IF n = 0 THEN g ELSE h

TicksDone ==
    /\ explorer.task["work"].at = "loop" /\ explorer.ticks = {}
    /\ explorer' = taskSettled(explorer, "work")

-----------------------------------------------------------------------------
explored(g) ==
    LET h == nodeLoaded(g, RootNode)
    IN  [h EXCEPT !.task["explore"].at = "load", !.task["explore"].waits = {RootNode}]

canExplore == ~explorer.initialized /\ explorer.task["explore"].at = "none"

Explore ==
    /\ onEvent
    /\ ~explorer.disposed /\ canExplore
    /\ explorer' = explored(explorer)

\* watch(): explores, joins the exploration, or opens the watches of what is explored.
Watch ==
    /\ onEvent
    /\ ~explorer.disposed /\ ~explorer.watching /\ explorer.task["watch"].at = "none"
    /\ LET g == [explorer EXCEPT !.watching = TRUE]
       IN  explorer' = IF canExplore THEN explored(g)
                       ELSE IF ~g.initialized THEN g
                       ELSE [g EXCEPT !.complete = FALSE, !.task["watch"].at = "sync"]

\* The last listener goes, after its watch() has resolved.
Unwatch ==
    /\ onEvent
    /\ explorer.watching /\ explorer.initialized
    /\ explorer.task["explore"].at = "none" /\ explorer.task["watch"].at = "none"
    /\ explorer' = [explorer EXCEPT !.watching = FALSE,
                        !.node = [n \in NodeId |-> unwatched(@[n])]]

\* dispose(): what is still awaited ends without an effect.
DisposeExplorer ==
    /\ onEvent
    /\ ~explorer.disposed
    /\ explorer' = [explorer EXCEPT !.disposed = TRUE, !.watching = FALSE, !.ticks = {}, !.jobs = <<>>, !.job = "none",
                        !.node = [n \in NodeId |-> noNode], !.at = [c \in ChildDir |-> 0],
                        !.task = [t \in DOMAIN @ |-> idleTask], !.initialized = FALSE]

TaskStep(t) == Reconcile(t) \/ Relisted(t) \/ Prune(t) \/ SynchronizeWatches(t)

NodeStep(n) ==
    \/ ListServed(n) \/ ListArrives(n) \/ ListAnswered(n) \/ ListFails(n) \/ ListRefused(n)
    \/ \E granted \in BOOLEAN : UnlockAnswered(n, granted)
    \/ LoadContinues(n) \/ WatchRegistered(n) \/ TickDelivered(n) \/ NodeWatchEnds(n) \/ RetryWatch(n)

ExplorerNext ==
    \/ \E n \in NodeId : NodeStep(n)
    \/ \E t \in {"explore", "work", "watch"} : TaskStep(t)
    \/ JobStarts
    \/ \E d \in ChildDir \cup {RootDir} : TickTaken(d)
    \/ TicksDone
    \/ \E c \in ChildDir : DirectoryChanges(c)
    \/ \E c \in ChildDir, s \in DirScopes \cup {Unlisted} : ReferralChanges(c, s)
    \/ ChannelFails
    \/ ChannelBack
    \/ Explore
    \/ Watch
    \/ Unwatch
    \/ DisposeExplorer

ExplorerSpec == ExplorerInit /\ [][ExplorerNext]_explorer

-----------------------------------------------------------------------------
\* Nothing is awaited, queued or being listed.
settled ==
    /\ explorer.initialized /\ explorer.jobs = <<>> /\ explorer.ticks = {}
    /\ \A t \in DOMAIN explorer.task : explorer.task[t].at = "none"
    /\ \A n \in NodeId : explorer.node[n].load = "none"

\* "While watching, every node's watch is active or in backoff after a failure"
\* (directoryWalk.ts), for its current scopes, whenever nothing is under way; and the
\* graph has been reported as complete.
WatchedOrRetrying ==
    settled => /\ explorer.complete
               /\ explorer.watching => \A n \in inGraph(explorer) : ~needsWatch(explorer, n)

\* A settled, watched graph has missed no change: a directory whose watch is open, has
\* no tick on its way and was listed last without an error is shown as it is, and the
\* root's referrals are exactly the nodes of the graph.
upToDate(n) ==
    LET me == explorer.node[n]
    IN  me.watch = "active" /\ ~me.tick /\ me.state = "loaded" =>
            IF n = RootNode
            THEN explorer.seen = explorer.refers /\ \A c \in ChildDir :
                     IF explorer.at[c] = 0 THEN explorer.seen[c] = Unlisted
                     ELSE explorer.node[explorer.at[c]].scopes = explorer.seen[c]
            ELSE me.listing = explorer.version[me.dir]

ChangesSeen == settled /\ explorer.watching => \A n \in inGraph(explorer) : upToDate(n)

\* No watch stays open that nobody would close: a node that left the graph, by whichever
\* activity, while it was being listed is not watched, nor is any after the last listener.
NoOrphanWatch ==
    \A n \in NodeId : explorer.node[n].watch # "idle" => explorer.watching /\ n \in inGraph(explorer)

\* The explorer keeps up with the directories it shows, and lets go of the others.
ExplorerKeepsUp == WatchedOrRetrying /\ ChangesSeen /\ NoOrphanWatch
=============================================================================
