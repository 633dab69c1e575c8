# LinkRPC in TLA+

A verification project for LinkRPC: TLA+ modules for the parts of the TypeScript
and Rust implementations that carry protocol state, TLC runs on small instances,
and TLAPS proofs of the most important properties for every size of the system.

Paths are relative to the repository root. `L` is `typescript/packages/linkrpc/src`,
`H` is `typescript/packages/linkrpc-hub/src/hub/server`, `E` is
`typescript/packages/linkrpc-hub/src/engine`, `D` is
`typescript/packages/linkrpc-hub-daemon/src`, `I` is
`typescript/packages/linkrpc-infra/src`, `M` is `typescript/packages/linkrpc-mcp/src`,
`R` is `rust/crates/linkrpc/src`. `PROJECT.json` maps every definition to the lines
it models.

## 1. The system

LinkRPC is JSON-RPC with services, streams and capabilities. Two *endpoints* talk
over a *transport*. On each sits a *channel* that correlates requests, responses
and stream frames, and on that a typed *connection* with a registry of the
services it offers. A *hub* joins many endpoints: participants claim service-id
prefixes, and the hub forwards each request to the owner of the longest claimed
prefix and relays what comes back. Participants keep themselves connected with
reconnect loops. A *daemon* runs a hub, supervises service processes and keeps
identities; around the hub there are directories that are walked and watched,
manifests that wait for a person's consent, and bridges to other protocols.

```
 participant A                       hub                         participant B
 LinkRpcConnection                                               LinkRpcConnection
   JsonRpcChannel  --transport--  link | Hub | link  --transport--  JsonRpcChannel
   reconnect loop                 ForwardingTable                 reconnect loop
                                  acceptor, roots, peers
                                  daemon: supervisors, endpoints, identities
                                  bridges: MCP, JSON-RPC, TCP, graphs, consoles
```

The TypeScript parts are single-threaded. A handler runs to its next `await`
without interruption, so the hard behaviours are not data races. They are

- messages, timers, disposals and failed writes arriving in any order between
  handlers, all of them competing for the same entry of a map;
- state read before an `await` and used after it (`stopped`, `current`, a
  generation, a snapshot, a link that has meanwhile been detached);
- peers that answer twice, late, never, or with ids that are not theirs;
- writes that are lost silently (a closing transport) or reported late;
- crashes between two steps of a migration, and restarts from what was saved;
- clean-up: every entry, timer, callback, lease and child process must go when
  its owner ends, on every one of the paths on which it can end.

The Rust parts run in several threads; there a step is one critical section.

### Inventory

| Component | State | Operations | What makes it correct |
|---|---|---|---|
| Forwarding table, `H/routing/forwardingTable.ts` | prefix map, reverse index per owner | `set`, `delete`, `deleteByValue`, `longestPrefixMatch` | the index is exact; the lookup finds the longest claimed prefix |
| Hub core, `H/routing/routingHub.ts`, `H/hubRegister.ts` | links, uplink and loopback slots, `_pending` with idle timers, id counter | attach, claim, release, detach, route, demultiplex, relay frames, idle timeout, own requests, registration | each call gets one response, from the link it was sent to; a detached link leaves nothing behind |
| Channel, `L/connection/jsonRpcChannel.ts` | `_pending`, `_streamListeners`, `_streamControl`, `_incomingAborts`, deferral queue, id counter | request, response, stream frames, ping, cancel, dispose, deferral, close | no promise hangs; callbacks live exactly as long as their request; input never overtakes its request |
| Connector, `L/connection/channelConnector.ts` | loop position, `stopped`, `current`, backoff | dial, adopt, onConnect, close, delay, `stop()` | no channel is leaked; nothing connects after `stop()`; the loop ends |
| Hub reconnect, `L/node/hubReconnect.ts` | the same, and the claimer's capability in memory and on disk | connect, register, obtain and persist a capability, set up, `stop()` | no old handle keeps the prefix; the capability survives; the prefix is claimed again |
| Configured participants, `E/configuredParticipants.ts` | loop position, attachment, transport, retry delay | open, attach, register remotely, claim, disconnect, `dispose()` | a failed attempt leaves nothing; a disposed participant closes its transport and ends |
| Transports, `L/transport/*` | buffer before a listener is set, re-entrancy, disposal, close | arrive, set listener, drain, dispose, close | everything arrives in order until the close, which is reported once |
| Acceptor and handshake, `H/*`, `L/transport/initialize.ts` | connections in each phase of the handshake, single-use tokens | accept, initialize, attest, redeem, attach, close, dispose | a token binds once; a closed socket leaves no link |
| Participant roots, peer discovery, `H/routing/*` | watches and states per attachment, retry timers | attach, detach, settle, retry, query with a budget | exactly one watch per link; former attachments are silent |
| Overlay splitter, `H/routing/overlaySplitter.ts` | tags on ids, ports of the participant's own requests | route requests, responses and frames in all directions | ids of the two ports are never confused |
| Typed connection, `L/connection/linkRpcConnection.ts` | services, descriptions, inspection entries, directory watchers | register, unregister, roll back, expose, close | what is served, shown and told to watchers agrees |
| Directory walk, `L/hub/common/directoryWalk.ts` | nodes with scopes and requirements, watches, retry timers, reconciliation chain | explore, list, watch, tick, reconcile, prune, dispose | the walk computes the least fixed point; changes are seen; no orphaned watch |
| Identity keystore, `H/*IdentityKeystore.ts`, `E/runHub.ts` | key row, legacy file, storage map with its write chain | resolve, import, rename, get, set, delete, crash | the principal survives migration; a finished write is on disk |
| Capabilities, `L/identity/capability.ts`, `permissionCoverage.ts`, `L/protocol/capability.ts` | signed capabilities with parents and expiries, prepared plans | permit a call, verify a chain, cover, sign, prepare, issue | authority only narrows along a chain; what is issued works until the expiry that was shown |
| Daemon supervisors, `D/supervisor.ts`, `D/connectionSupervisor.ts`, `D/singleInstance.ts` | child process, operation queue, generation, backoff timers, lock socket | sync, restart, dispose, exit, retry, acquire | one process; nothing runs that nobody wants |
| Managed endpoints, `D/managedEndpoints.ts`, `D/daemon.ts` | list of endpoints, saved list, running workloads | create, remove, run, save, reload, restart | what was acknowledged survives; nothing runs unlisted |
| Console host, `I/console/consoleHost.ts` | bounded history, attachments | output, attach, replay, exit, close | no gap between replay and live output |
| Inspection traffic, `L/inspection/boundedTrafficSubscription.ts` | bounded queue, gap counter | push, pump, send, close | every event is delivered or counted |
| Approval, `E/hubAccessManifest.ts`, `E/manifestApprover.ts`, `I/approval/*` | parked requests, ticks, cached snapshots, decisions | park, decide, follow, write, withdraw, aggregate | a decision is exclusive and reaches the consumer; no request is forgotten |
| Graph client and source, `I/graph/*` | cache with pins and epochs, root offers, leases | acquire, batch, pin, offer, evict, reconnect, publish, release | demand is always under way; the root does not go back; leases are disposed of once |
| MCP sessions, `M/hub/sessionManager.ts` | sessions, creation chain, timers | get, evict, close, dispose | within the limit; closed by its own timers only |
| JSON-RPC bridge, `I/json-rpc/jsonRpcPeer.ts` | reverse requests with tokens, ring of events, waiting readers, calls | append, overflow, poll, respond, time out, close | each reverse request is answered once; no reader hangs |
| TCP tunnel, `I/http-export/tcpMultiplexer.ts`, `I/compute-node/node.ts` | slots, sockets, credits in both directions, connections of the node | open, data, credit, end, close, acknowledge, abort | credit is conserved, slots come back, both ends agree |
| Rust channel, multiplexer, registry, `R/connection/*`, `R/transport/multiplexed.rs` | the same as above, behind locks | the same, from several threads | the same, between any two critical sections |

Not modelled are the signing queue of outgoing calls, the forwarded-call gate, hub
services and runtime, node transit, the call log, and the command line and generators (section
7 gives the reasons).

### Interactions

- Hub and table: every topology operation of the hub edits the table within the
  same handler. `RoutingHub` EXTENDS `ForwardingTable` and applies the table's
  operators inside its own actions.
- Hub and channel: a link's peer is a channel. The hub model does not trust it:
  any attached link may send any response or frame at any time, so it covers
  correct channels and broken ones. Conversely the channel model has a second
  channel as its peer; the hub in between relays in order and rewrites ids.
- Channel and transport: the channel model assumes an ordered queue that ends with
  a close. `MessageTransports` shows what six transports do about that.
- Reconnect loops and hub: the socket's close is the detach of the link. It is
  `HandleCloses` in `HubReconnect` and `Detach` in `RoutingHub`.
- Loops and their owners: `ConnectionLoop` states what an owner relies on.
  `ChannelConnector` and `ConfiguredParticipants` are both shown to implement it.
- Acceptor and hub: an accepted connection ends as an `Attach` of the hub.
- Approver and manifest: `ConsentRendezvous` composes the host that parks requests
  with the client and the approver that follow it; `AggregatingManifest` is the
  other consumer of the same ticks and snapshots.
- Graph client and source: `GraphClient` is answered by any source, `RootWatch`
  serves any client; the offers between them are the interface.
- The two ends of the TCP tunnel are composed in `TcpTunnel`.

## 2. Modules

| Module | Models | State |
|---|---|---|
| `ForwardingTable` | the table, its lookup loop, a reference definition of the lookup | `table` |
| `RoutingHub` (EXTENDS the table) | the hub core | `hubVars`, `envVars` |
| `JsonRpcChannel` | two channels and the transport between them | one variable per map |
| `ConnectionLoop` | abstract specification of a connect loop | `stopped`, `phase` |
| `ChannelConnector` | `keepConnected`; refines `ConnectionLoop` | `pc` and the loop's locals |
| `HubReconnect` | `serveOverHubWithReconnect` and the prefix claimer | `reconnect` |
| `ConfiguredParticipants` | the loop of one participant; refines `ConnectionLoop` | `participant` |
| `ParticipantRoots`, `RootsQuery` | `watch` and `query` of the roots | `roots`, `query` |
| `PeerDiscovery` | the search for a link's peer | `peer` |
| `OverlaySplitter` | id tagging between two ports | `overlay` |
| `MessageTransports` | the receiving half of six transports | `transport` |
| `ConnectionAcceptor` | from socket to link: handshake, token, attestation, attachment | `acceptor` |
| `ConnectionRegistry` | what a connection serves and shows | `registry` |
| `DirectoryScopes` | scope algebra and worklist of the walk, with the fixed point as reference | `walk` |
| `DirectoryExplorer` | the explorer's concurrent activities | `explorer` |
| `ServiceSupervisor`, `ConnectionSupervisor` | the daemon's supervisors | `service`, `connection` |
| `SingleInstanceLock` | the socket used as a mutex | `lock` |
| `ManagedEndpoints` | dynamic endpoints, reload and restart | `endpoints` |
| `IdentitySlot`, `SlotStorage` | identity and storage of a slot | `slot`, `storage` |
| `CapabilityIssuance` | permissions, chains of capabilities, issuing from them | `issuance` |
| `ConsoleHost` | history and attachments of a console | `console` |
| `TrafficSubscription` | the bounded queue of traffic events | `traffic` |
| `ConsentRendezvous` | manifest host, client and terminal approver | `consent` |
| `AggregatingManifest` | one source of the aggregate, its consumer, a decision | `merge` |
| `GraphClient`, `RootWatch` | both ends of a remote graph | `graph`, `rootWatch` |
| `McpSessions`, `JsonRpcPeer`, `TcpTunnel` | the bridges | `sessions`, `bridge`, `tunnel` |
| `RustChannel`, `RustMultiplexer`, `RustRegistry` | the Rust implementation | `rust`, `mux`, `live` |
| `MCRoutingHub` | instance of the hub | |
| `MCSafetyParts`, `MCLiveParts` | instances of the parts around hub and channel | all of the above |
| `RoutingHub_proofs` | theorems about the table and the hub | |
| `JsonRpcChannel_proofs` | about `JsonRpcChannel` and `RustChannel` | |
| `Connections_proofs` | about `ChannelConnector`, `OverlaySplitter`, `ConnectionRegistry`, `CapabilityIssuance`, `HubReconnect`, `ConfiguredParticipants`, `PeerDiscovery`, `ConnectionAcceptor`, `ServiceSupervisor`, `ConsoleHost`, `ConsentRendezvous` | |
| `Parts_proofs` | inductive invariants of slots, roots, aggregate, managed endpoints, multiplexer | |
| `Graph_proofs` | of both ends of a graph, and of `TrafficSubscription` | |
| `Bridges_proofs` | of `RustRegistry`, `McpSessions`, `JsonRpcPeer`, `MessageTransports` | |
| `TcpTunnel_proofs` | of `TcpTunnel` | |
| `MCSafetyParts_proofs` | the theorems about the last four, of the specification the run checks | |

Smaller components keep their state in one record variable, so that a handler
that calls helpers is a composition of operators on that record, in the order of
the code. An action is what runs between two awaits (TypeScript) or one critical
section (Rust).

The operators `X_something` next to an operator `X`, each commented `Mutant:`,
are plausible wrong versions of the code. No specification uses them. They are
substituted for `X` to show that the property named with them in `PROJECT.json`
can fail.

### ForwardingTable

A service id `a/b/c` is the sequence of its segments. The table is a value with
the two maps of the class; the operators are functions on that value, so that
the hub can apply several within one handler. `longestPrefixMatch` is the code's
loop (as a recursive function); `OwnerOf` is what it promises, and is what the
hub model uses: `LookupIsLongest` ties the two together.

### RoutingHub

One action per handler. `hubVars` is the state of class `Hub`; `envVars` is the
world (links that are gone, callees' work, writes that will be reported as
failed) and the history the properties need (open calls, responses, all entries
there ever were, the last frame relayed).

| Action | Code |
|---|---|
| `Attach`, `SetUplink`, `ClearLoopback`, `ReleasePrefix` | `attach`, `claimPrefix`, `setUplink`, `setLoopback`, `releasePrefix` |
| `Detach` | `_detach`: routes, slots, calls from and to the link |
| `RegisterServiceId` | the registry of `hubRegister.ts`: a handler hosted by the hub claims for the link its request came from |
| `AnswerDirectly`, `RouteRequest` | `_routeRequest`, by what `_resolve` returns |
| `HubRequest`, `Abandon` | `_requestOnLink` and its timeout |
| `HubWatch`, `WatchControl`, `DisposeWatch` | `_watchOnLink`, its pings and pongs, `stop(true)` |
| `SendError` | the `onSendError` continuation of a write; `stop(false)` of a watch |
| `Respond` | `_demux` |
| `IdleTimeout` | `_onIdleTimeout` |
| `StreamToCaller`, `StreamToCallee` | `_routeStream` |

A write has three outcomes: delivered, lost without a word, or reported as failed
some time later. A watch is a call of `Watcher`. Its pings restart its idle timer before
it can fire (`WatchControl`), so `IdleTimeout` is not for watches. When a ping or a
pong could not be written, `stop(false)` drops the entry without a cancel; `cut`
remembers the callees that work on, the exception in `NoOrphanedWork`. A caller does not reuse its ids (channels count upwards); a
peer may do anything else. An owner does not attach a link again whose
attachment it has disposed (`l \notin gone` in `Attach`). The code does not
check this, and configured participants break it (finding 3). The registry needs
no such assumption, and `DetachIsClean` shows it: the detach drops the pending
entry through which a handler finds its link.

Left out: notifications (forwarded without state), transit observers, topology
labels and directory listeners (they observe).

### JsonRpcChannel

Two channels, `wire[e]` the ordered queue of messages on their way to `e`. The
callback maps of the code are shared by both directions under the bare request
id. An entry here therefore is `"out"` or `"in"` after the request that
registered it, and an operation of one direction hits the other's entry just as
it does in the code. `result.then(stopPing)` is a microtask: `stopping` holds the
ids for which it is queued, and `StopPing` runs it, so that whatever can happen
in between does. `resumeRequests` is a loop that
dispatches synchronously, but a dispatched handler may send over an in-memory
transport, whose other end answers re-entrantly: messages can arrive inside the
loop. Each dispatch is a `Drain` step, and other steps may come in between; that
includes steps that in the code wait for the loop, so the model has more
behaviours than the code, never fewer. Deferral stays in force until the queue is
empty, as in the code.

`LatePing` says whether users call `ping()` on a call that has settled. With
FALSE `ProbeScope` holds, with TRUE it does not (section 6).

Frames are bounded by `MaxFrames`; a ping at the bound gets no pong. The
keepalive interval needs no action of its own: `CallerSends` and `Ping` may
happen at any time.

### The connect loops

In `ChannelConnector`, `pc` is the `await` the loop is in. Between the moment the
factory's promise is fulfilled (`OpenResolves`) and the moment the loop sees the
channel (`Adopt`), `stop()` and the peer's close can come. `onConnect` is user
code: it may succeed or fail at any time; the code decides by `isClosed` whether a
failure is genuine. `ConnectionLoop` has two variables, `stopped` and `phase`. The
refinement maps `phase` to "connected" while a channel is listened to and open.

`HubReconnect` is the same kind of loop, hand-written in the code, with the claimer
inside the try block: register; on `permissionRequired` ask the issuer, persist,
register again. Any of these awaits may throw. `registered` is the hub's side.
Capabilities do not expire in the model, and key files are left out.

`ConfiguredParticipants` publishes what `dispose()` can reach step by step
(`connectingAttachment`, `current`, the abort listener); each publication is an
assignment of the action that makes it.

### The hub's surroundings

`ConnectionAcceptor` takes connections with the same single-use token through the
handshake, which only peeks at the token, through attestation and redemption; the
socket closes and the acceptor is disposed anywhere in between. Two servers are
modelled, the one whose abort signal fires when the socket closes and the one that
looks afterwards. `ParticipantRoots` and `PeerDiscovery` are about attachments that
are replaced while a promise of the former one is pending. `OverlaySplitter`
models ids as what tagging can tell apart (number, string, already tagged).
`MessageTransports` runs one of six transports, chosen initially; they differ in
what an event carries, what dispose clears and what still arrives after it.

`DirectoryScopes` checks the worklist of the walk against the least fixed point
over every small graph of referrals, cycles included. `DirectoryExplorer` keeps
the graph a star (a root and children) and models the concurrency: exploration,
the reconciliation chain `_work`, `watch()`, ticks, failing watches with retry
timers, changes of scopes and pruning. Between two awaits each activity is atomic,
and no message comes in while one can go on.

### The daemon

`ServiceSupervisor` queues operations and interleaves exits, ignored SIGTERMs and
configuration changes. `ConnectionSupervisor` has async methods with a generation
number and nothing else to keep them apart. Of its managers one (`Reloader`) applies
configurations, one at a time as the reload queue does, and all may call `restart()`.
Where a `dispose()` finds after its await that a newer attempt was begun
(`overtaken`), or a `restart()` connects what was removed (`revived`), the code has no
guard; the property says that these two are the only ways out. `ManagedEndpoints` reduces a supervisor
to whether its workload runs and keeps what callers were told. `IdentitySlot` and
`SlotStorage` are concurrent users of one slot, with crashes between the steps of
the migration, and the write chain.

### Capabilities

`CapabilityIssuance` translates the matchers of permissions, the coverage of one
permission by another, `_verifyLink` and `permits`, and the way from
`prepareCapabilityIssuance` over a person's consent to `issue()`, with time going on
in between. A capability is a record that holds its parent (the code: its hash) and
says whether its signature is genuine. Anybody may sign anything for anybody from
any parent, so bags hold over-broad delegations, delegations of what may only be
invoked, and capabilities that were made up. The order of the bag, in which the
code takes the first capability that fits, is a choice. The depths 16 of `permits`
and 15 of issuing are 3 and 2 (`DepthAssumption` keeps their distance), so that a
chain of full length is issued and used. The coverage of permissions is compared
for all pairs of 112 permissions on 80 calls, in initial states of their own.

### Consent, graphs, bridges

`ConsentRendezvous` has the whole way of a request: parked at the host, announced
by a coarse tick, read as a snapshot, queued by the approver, decided by an
operator or by somebody else, written by id, delivered to the consumer. An entry
for which resolving, prompting, minting or writing fails leaves the queue (`failed`)
until the next snapshot.
`AggregatingManifest` follows one source, since sources are independent of each
other (ids carry the source's tag); `same` says whether the source a decision was
sent to is still the incarnation that is watched. `GraphClient` has epochs for connections;
`RootWatch` a promise chain that the end of the watch does not wait for.
`McpSessions` has both callers of `_getEntry`: `use()` begins an operation, `get()`
only touches. `JsonRpcPeer` keeps requests of a foreign server for polling clients. In
`TcpTunnel` frames are counted in bytes (a window of three, frames of at most two)
and both ends follow the code; a chunk is written or read whole and sent as far as
credit reaches. The limit of 256 KiB on pending data cannot be reached: by
`CreditIsConserved` it is never more than the window.

### Rust

`RustChannel` models `channel.rs` and `streaming.rs`: the read loop, in whose task
handlers are polled, and callers and stream senders in other threads. Half-open
transports (`recv` ends, `send` still succeeds) are an initial choice.
`RustMultiplexer` takes its three locks one after the other, `RustRegistry` tells
watchers after the lock is released and is listed page by page.

## 3. Runs

In parentheses the distinct states; for `hub_safety` up to the renaming of links.

| Run | Checks | Shows |
|---|---|---|
| `hub_safety` (1 116 436) | `TypeOK`, `NoLostCall`, `OneReply`, `OwnAnswer`, `DetachIsClean`, `EndIsClean`, `ClaimOnce`, `StreamFollowsCall` | two links and the hub call each other over nested prefixes while links attach, register and detach, and a watch of the hub is pinged |
| `hub_liveness` (339 027) | `EveryCallSettles` | calls of links and requests of the hub end although requests get lost and peers never answer |
| `channel_safety` (1 158 769) | `CallTracked`, `EntryScope`, `StreamHasItsEntry`, `ProbeScope`, `CloseIsFinal` | one caller with two calls and two frames against a deferring server |
| `channel_liveness` (161 361) | `EveryCallSettles` | both call and both defer: nobody waits for ever, unless the two set-ups wait for each other |
| `parts_safety` (1 347 668) | `IndexInLockStep`, `LookupIsLongest`, `RootsAreKnown`, `PortsKeptApart`, `RegistryIsConsistent`, `DirectoryIsExplored`, `ManagedIsKept`, `SlotIsKept`, `IssuanceIsSound`, `BridgesAreContained`, `AggregateIsCurrent`, `RustTablesAreRight`, `TransportIsFaithful`, `GraphIsShared` | what the parts keep is complete, in order and cleaned up |
| `parts_liveness` (126 102) | `NoLeak`, `ImplementsLoop`, `ReconnectKeepsClaim`, `ParticipantIsTidy`, `PeerIsSearched`, `ConnectionsAreTracked`, `ServiceIsControlled`, `ConsoleIsComplete`, `TrafficIsAccounted`, `ConsentIsReached`, `RustChannelKeepsPromises` | loops, searches, supervisors and streams get where they have to, wherever stop, dispose, exits and failures fall |
| `channel_id_collision`, `reconnect_stop`, `participant_dispose`, `single_instance`, `endpoint_reload`, `identity_race` | one property each, violated | the findings of section 6 |

`parts_safety` and `parts_liveness` each check many parts that share no state. An
initial state chooses a *focus*; the focused part takes steps, the others stay in
one initial state. So the state space is the sum of the parts', each part is
explored completely within its bounds, and a property of a part means what it
would mean in a run of its own. Some parts have two foci where the product of two
independent dimensions would be large: names and watch of the Rust registry,
the callee and the caller half of the Rust channel, the queue and the faults of
the rendezvous, the slots and the credits of the tunnel. Each of these was also
explored with the dimensions together, outside the runs:

| Larger instance | Distinct states |
|---|---|
| `DirectoryScopes`, four directories | 402 543 |
| `DirectoryExplorer`, two changes, one trouble, one job | 3.16 million |
| `RustChannel`, both halves together | 782 162 |
| `RustRegistry`, three keys, two prefixes, two threads, with the watch | 3 771 951 |
| `ConsentRendezvous`, two slots with a fault; two calls | 269 713; 756 576 |
| `AggregatingManifest`, two entries, two faults | 3 253 500 |
| `TcpTunnel`, data in both directions; three connections | 563 275; 493 070 |
| `CapabilityIssuance`, a second plan; a third capability without a plan | 86 485; 117 164 |

### Bounds

- `MaxHubId = 2`: two requests through the hub can be in flight together, which
  is what responses, frames and detaches can confuse. The hub treats requests
  alike, and the theorems of section 5 hold for every bound and any number of links.
- Two service ids in `hub_safety`, one the ancestor of the other: the smallest set
  in which longest-prefix resolution has a choice. The table has five in
  `parts_safety`, three levels deep. `hub_liveness` has none: calls go to the
  uplink, and routing does not matter for whether they end.
- `MaxOwn = 1`: of the two requests one is the hub's, a request or a watch, so that
  it meets one of a link.
- Two managers of a connection, the reload queue and one that restarts beside it.
- One request id per link, besides the ids of the hub itself: two links may use
  the same id at the same time, which is why ids are rewritten.
- Channel: two calls by one caller, two frames, so that a cancel and a payload,
  or a ping and its pong, can be in flight at once. Both sides calling (one call
  each) is the id collision.
- `MaxBackoff = 6` with an initial backoff of 1 is no power of two, so the cap
  really cuts (1, 2, 4, 6). The same holds for `MaxRetry` and `MaxDelay`.
- Attachments, generations, instances, processes, epochs (`MaxWatchState`,
  `MaxAttempt`, `MaxInstance`, `MaxProcess`, `MaxEpoch`, `MaxPeerState`): two or
  three, so that something of a former one can meet its successor.
- Limits of the code (`QueueLimit`, `MaxHistory`, `EventLimit`, `MaxSessions`,
  `MaxConnections`, `StreamBuffer`, `MaxSuperseded`) are one or two, so that they
  are reached and passed; `MaxTraffic = 6`, `MaxOutput = 4`, `MaxBridgeEvents = 3`
  go beyond them.
- Faults (`MaxTroubles`, `MaxFaults`, `MaxMergeFaults`): one or two, so that one
  can hit the handling of another.
- Tunnel: a window of three bytes and frames of at most two, so that a chunk of
  four needs credit to come back, and the window is no multiple of the frame.

The runs switch the deadlock check off: peers may stop talking, calls, frames and
faults are bounded, and a loop that has ended stays so.

### Fairness

- Hub: `WF(IdleTimeout(h))`: `setTimeout` fires, except for a watch, whose pings
  restart it in time; watches are not among the calls that have to end. Nothing else; callees need not
  answer and writes need not fail visibly. Frames restart the timer, so a peer
  that streams for ever keeps its call open for ever, as intended; `MaxFrames`
  stands for streams that end. With `idleTimeoutMs = 0` the property does not
  hold and is not claimed.
- Channels: messages on an open transport arrive; a handler finishes; a failed
  write is reported (the promise of `send` rejects); a deferring endpoint is
  resumed once `onConnection` has returned (`endpoint.ts:91-92`, 227-228), which is
  certain only while it has no open call it might await (`SetUp`); the close of one end of the
  transport reaches the other. The channel has no timeout of its own, so without
  these a call may wait for ever, in the code too. `EveryCallSettles` excepts
  `CircularWait`: both ends still deferring, each with an open call in the other's
  queue. With one deferring end that cannot happen. Frames are left out of this run
  (`MaxFrames = 0`): no call waits for one.
- Connect loops: promises the loop awaits settle, timers fire. Neither a close
  nor a `stop()` has to come. `ClaimsAgain` assumes in its statement that
  eventually sockets stay open and calls stop failing.
- Peer search: microtasks run, the retry timer fires; `SF` on the answer of a
  peer that is asked again and again: a peer that answers sooner or later.
  `PeerFound` assumes in its statement that the link stays attached.
- Acceptor: its own steps (the handshake's timeout among them); clients owe nothing.
- Service supervisor: its own steps and timers; a process that was sent SIGKILL
  exits. It need not exit on SIGTERM.
- Console and traffic: reads of the history and sends settle, microtasks run.
- Rendezvous: ticks, reads and answers on an open watch arrive, the reconnect timer
  fires; the operator answers the prompt in front of him. No fairness for faults
  or for other approvers.
- Rust: the read loop sees the end of its transport; tasks that can go on do. No
  fairness for handlers and peers.

## 4. Properties worth knowing

Properties about one hazard are stated as named parts and checked together under
one name, in the module or, for parts that only meet in a run, in `MCSafetyParts`.

- `OneReply`, `NoLostCall` (hub): a response, an idle timeout, a failed write
  and a detach compete for one `_pending` entry. Together with `EveryCallSettles`:
  a call gets exactly one response.
- `OwnAnswer`, `StreamFollowsCall`: hub ids are sequential and visible, so peers
  can name requests that are not theirs. Nothing they send reaches a caller
  unless it comes from that caller's callee, and no frame follows the response.
- `DetachIsClean` (`RoutesAttached`, `NoZombie`): a registration that finishes
  after its link has been detached does not bring the link back.
- `EndIsClean` (`NoOrphanedWork`, `NoTimerLeak`): a callee that still works can be
  told to stop. It fails as soon as one path deletes an entry without cancelling,
  but for the one of a watch whose control frame could not be written.
- `EntryScope`, `StreamHasItsEntry` (channel): callbacks do not outlive their
  request and are not lost before it ends; a cancel does not overtake its deferred
  request. The first holds with both sides calling, the second only with one
  caller (finding 1).
- `ImplementsLoop`, `ParticipantIsTidy`: no connection once `stop()` or `dispose()`
  was called, wherever it falls; the loop ends.
- `RootsAreKnown` (`RootsCovered`, `NoRootMissed`): a link that leaves and comes
  back while a watch settles is watched once; an answer that falls between the
  budget's end and the result is in the result or announced.
- `ConnectionsAreTracked`: the token that several connections were shown is
  redeemed by one, and a socket that closes during attestation leaves no link.
- `DirectoryIsExplored` (`WalkIsCorrect`, `ExplorerKeepsUp`): the walk ends in
  the least fixed point although referrals form cycles; no change is missed
  between a list and its watch; pruned nodes have no watch.
- `ServiceIsControlled`, `ManagedIsKept` (`ConnectionIsContained`,
  `EndpointsAreKept`): one process, nothing open that nobody holds, and what callers were told is restored.
- `SlotIsKept` (`MigrationKeepsPrincipal`, `StoredOnceDone`): the identity
  survives crashes in the middle of its migration, and queued writes keep each
  other's entries.
- `IssuanceIsSound` (`CoverageIsSound`, `AuthorityOnlyNarrows`,
  `IssuedIsPermitted`, `LifetimesNest`, `RootsAreOffered`): coverage is never wider
  than what calls are judged by; a permitted call was passed on from the accepted
  root step by step, by those it was passed on to (a closure over the signed
  capabilities, independent of chains and hashes); what `issue()` returns is
  sufficient by itself until the expiry of the preview, although several grants may
  cover one permission and the capabilities may change in between.
- `ConsentIsReached`, `AggregateIsCurrent`: a request is decided once and the
  consumer gets the accepted decision; the operator is asked about every request
  whose preparation does not fail;
  caches are fresh whenever nothing is on its way.
- `GraphIsShared` (`GraphIsServed`, and the parts of `RootWatch`): late answers of a
  former connection change nothing, the root does not go back, leases are disposed
  of once and not before their successor was sent.
- `BridgesAreContained` (`SessionsAreContained`, `BridgeIsSettled`,
  `TunnelIsFair`): timers close only their own session, but for one that `get()` may
  arm too late; each request of a foreign
  server is answered once, also when the ring overflows; a tunnel's credit is
  neither lost nor made, whoever is destroyed and when, so that correct ends
  never accuse each other, and a connection is refused for want of room only if
  an acknowledgement took longer than its timer.
- `RustTablesAreRight`, `RustChannelKeepsPromises`: ids are retired for good,
  readers are released, one response per request, no frame after it, and no
  waiter that is not told, between any two critical sections.

## 5. Proofs

TLAPS checks them for every value of the constants that satisfies the named
assumptions; TLC evaluates the assumptions in the runs.

| Assumption | Says |
|---|---|
| `ServiceIdAssumption`, `NoneAssumption`, `HubAssumption` | service ids are non-empty sequences of segments and their ancestors are service ids; "no owner" and the hub are not links |
| `ChannelAssumption`, `BackoffAssumption` | there are two peers; the initial backoff is at most the maximum |
| `RegistryAssumption` | the root of a connection is no named service, the inspection interface no business interface, and "nothing" none of them |
| `SignableAssumption`, `IssueOptionAssumption`, `ScopeAssumption`, `CallAssumption`, `DepthAssumption` | what is signed, asked for and called has the shape of the types in `L/protocol/capability.ts`; a request names members; a verifier follows one parent more than an issuer starts from |
| `SlotAssumption`, `StorageAssumption`, `OverlayAssumption`, `RetryAssumption`, `MergeAssumption`, `ConnectionAssumption`, `EndpointsAssumption` | the bounds are natural numbers, the smallest retry delay at most the largest |
| `GraphAssumption`, `RootWatchAssumption`, `MuxAssumption` | the same, and a batch and an epoch exist; "no root" is not a root, "nobody" and "ended" are not threads |
| `RustRegistryAssumption` | a page holds at least one entry, the watched keys are keys, "no work" is none, prefixes and bare members are sequences |
| `SessionsAssumption`, `BridgeAssumption`, `TransportAssumption`, `RustAssumption` | bounds are natural numbers; there is a session key; the transports are among the six kinds |
| `TunnelAssumption` | window, frame limit, high-water mark and number of connections are at least 1 |
| `DelayAssumption`, `PeerAssumption`, `TrafficAssumption`, `SupervisorAssumption`, `ConsoleAssumption`, `ConsentAssumption` | bounds are natural numbers, a first delay is at most the last, a queue has room for an event |

Two theorems have a hypothesis that is not about the constants' types: `SingleCaller`
(`StreamsKeepEntries`) excludes what finding 1 shows, `~LatePing` (`ProbesScoped`)
pings on settled calls (section 6). Where the code leaves a gap the
property names it (`cut`, `forgotten`, `overtaken`, `revived`, `stray`, `lost`,
`missed`, `failed`), and the invariant says that nothing else is one.

- **`RoutingHub_proofs`**.
  *Table*: what each table operator does to a table in
  lock-step, and `TableLockStep`. `LookupLongest`: the loop of `longestPrefixMatch`
  returns what the reference definition names, for ids of any length. The loop is a
  recursive function on the number of segments that are left; instead of an
  induction, which the provers cannot instantiate, `LookupFinds` takes the
  *least* length at which loop and reference would disagree and unfolds the loop
  there. `OwnerIsClaimed` (the lookup returns a link or None) is used by the hub's
  proof.
  *Hub*: `Invariance`, one step per action. None of the
  properties is inductive alone. That a settled entry's caller was still waiting
  (`OneReply`) needs that entries hold open calls and no two entries the same
  call (`CallsUnique`), which needs that hub ids are never handed out twice
  (`HubIdsUnique`); that a timer belongs to an entry needs that ids identify
  entries; that a failed write leaves no work behind needs that the request was never
  delivered, or is a watch that was cut (`FailedUndelivered`); that a detach clears all routes needs the
  table's lock-step. From `IInv` follow `TypeCorrect`, `CallsAnsweredOnce`,
  `AnswersNotForged`, `CallsNotLost`, `DetachIsFinal` (`DetachIsClean`),
  `NothingLeaks` (`EndIsClean`), and the action properties `PrefixesClaimedOnce`
  and `StreamsFollowCalls`.
- **`JsonRpcChannel_proofs`**: `Invariance` for either or both sides calling and
  deferring, any number of calls and frames. `CallTracked` and `EntryScope` need
  `CallsKnown` (an id below the counter is used once, and only streaming calls
  own "out" entries: this is what makes a fresh request's entries its own);
  `CloseIsFinal` needs that every running handler has its abort controller
  (`HandlersAbortable`) and that nothing is queued for a closed channel
  (`ClosedQuiet`). The lemmas on `settled`, `dropEntry` and `withoutProbes` are
  used by all the paths on which a request can end. `ProbesScoped` assumes
  `~LatePing`. `InputInOrder` rests on `QInv`: in the queue of the wire, in the
  deferral queue and across both, a request stands before everything that belongs
  to it (`QueuesOrdered`), and deferral ends only with an empty queue
  (`DeferredInTurn`). Without the second conjunct the first is lost when a message
  arrives while the queue is drained. `StreamsKeepEntries` adds that with one
  caller no side has both calls and handlers (`SidesKeptApart`), so that no two
  requests share an id.
- **`Connections_proofs`**.
  *Connector*: `NoLeak` with `CloseObserved` is inductive. `Refinement` maps each
  step of the loop to a step or a stutter of `ConnectionLoop`: `Adopt` is Connect,
  `PeerCloses` is Lose while listening, `Stop` is LoopStop, and the ends are End.
  *Splitter*: `OverlayPortsKeptApart` from `OverlayInv`. An answer under way carries
  the tag of the port it is meant for (`AnswersAreTagged`), an id is open once
  (`IdsOpenOnce`), a request under way is an open call without an entry
  (`RequestsAreOpen`), and a frame follows its request (`FramesFollow`).
  *Registry*: `RegistryConsistent` from `RegistryInv`, which is short; the work is
  that a registration that fails half-way and is undone leaves, with what it
  installed for inspection and what it told the watchers, a state in which all
  agree (`RegisterStep`, `DisposedCorrect`). `Tells` says of a sequence of changes
  that whatever changes a watcher's listing is told to it.
  *Capabilities*: `IssuanceSoundness`. Coverage of patterns,
  parameters and scopes is shown to imply permission for every call
  (`ScopeCoverage`). A plan is backed (`PlanIsBacked`) if each of its grants has a
  chain of genuine, fresh, accepted ancestors whose permissions cover it; this is
  stable although capabilities are added and time passes before the plan is
  issued. Chains are sequences, so that "authority only narrows" takes the
  *first* place of a chain where it would not.
  *Reconnect loop*: `ReconnectTidy` from `ReconnectInv`: a handle that is open is one
  the loop can still close, and a capability that is cached or about to be used is
  on disk.
  *Participants*: `ParticipantRefinement` from `ParticipantInv`: before it is attached a
  link has no routes, one that is attached or routed while the loop goes on is not
  disposed of, and a loop that serves knows the transport `dispose()` has to close;
  `dispose()` between any two awaits then maps to LoopStop or a stutter of
  `ConnectionLoop`.
  *Peer search*: `PeerSearchKept` from `PeerInv`: attempts belong to attachments that
  were made, and one that has settled for the current attachment has left what it
  found, or a timer.
  *Acceptor*: `AcceptorTracked` from `AcceptorInv`: as long as the token is live it has
  bound nothing, and every link hears of the close of its socket.
  *Service supervisor*: `ServiceControlled` from `SupervisorInv`: what the operation at
  the head of the queue is doing says which process there is (`ProcessInv`);
  whatever the service is not yet, an operation or a ticking timer is there to make
  it so (`DesiredInv`), and a timer belongs to a process that has exited, or has
  fired for an operation that waits (`TimersOK`).
  *Console*: `ConsoleReplays` from `ConsoleOK`: sent, chained, replayed and pending
  output together are a run of consecutive outputs to the newest; a run stays one
  when it is cut, joined or extended (`RunTo`).
  *Rendezvous*: `ConsentKept` from `ConsentOK`: an entry is pending if and only if it
  was parked and nobody was told (`HostInv`); a watch that is down is retried and one
  that is being opened is read after (`WatchInv`), a snapshot that is wrong will be
  replaced (`FreshInv`); the queue lists what is in flight, each once (`QueueInv`).
  The first two are not enough for a decision: between acceptance and
  acknowledgement the head of the queue carries what was told (`AcceptedInv`).
- **`Parts_proofs`**, **`MCSafetyParts_proofs`**. `PartSteps` says that a step of
  the composed specification is a step of each part or leaves it alone; each
  theorem combines it with the inductive invariants of its parts.
  `SlotKept`: a resolution that has not returned carries the key of the older
  build, or has seen that there is none (`MigrationInv`); what the write chain has
  promised is in the map its next write starts from (`PromiseInv`).
  `RootsKnown`: what is live, waiting or settled is a known watch of its link, and
  none is settled and live at once (`WatchesInv`); what a query did not answer was
  late (`QueryInv`).
  `AggregateCurrent`: what is opened, read or cached and no longer right will be
  read again by a tick, a retry or the loop itself (`WatchInv`, `FreshInv`), the
  consumer will be told (`ToldInv`), and a decision in progress is in no read that
  will not be repeated (`DecidedInv`). `lost`, `failed` and `missed` mark the gaps described
  in section 6.
  `ManagedKept`: attempts of an older generation only have to settle
  (`AttemptsInv`), what is open is held by the last one (`OpenInv`), a manager that
  disposes waits for it (`ManagerInv`); an operation in progress still sees what it
  looked up (`OperationInv`), and what was promised is in the list, the file and
  the snapshot (`PromisedInv`).
  `MultiplexerTidy`: an id is reserved by one thread before its channel is made
  (`ReservedInv`); a channel that is live after the end was begun before it
  (`LiveInv`).
- **`Graph_proofs`**: `GraphShared`, of which the step of the root is an action
  property. Client: the loop of `_flush` runs if and only if it awaits a batch of
  the current epoch, and what is in flight is in that batch (`FlightInv`); this is
  why a queued object is looked at by a loop that is running, and why an answer to
  a former epoch finds nothing to change. Source: the retained offers are in the
  order of their versions with the newest last (`RetainedInv`), a lease is disposed
  of if it was issued and is not retained (`LeaseInv`), what was issued was sent or
  is being sent (`SentInv`), and the last root published is offered, or wanted with
  a send queued (`NewestInv`).
  *Traffic*: `TrafficAccounted` from `TrafficOK`: the queue follows the events in
  order and knows what was dropped in front of each, and what was made is what was
  delivered, dropped, lost, on its way and queued together.
- **`JsonRpcChannel_proofs`**, *Rust*: `RustChannelSafe` from `RustOK`: the answer of a
  request is claimed once, under the gate, by whoever settles it; frames come only
  from requests that nobody has claimed; calls that are registered or wait for a
  pong are waiting (`RequestInv`, `CallInv`).
- **`Bridges_proofs`**, **`TcpTunnel_proofs`**: invariants of records, stated as
  operators on a state, so that a handler is proved as the composition it is.
  `RustTablesRight` (`LiveRegistryInv`): the entries are exactly the registrations in
  force and the bare bindings are theirs, one per prefix; as long as no tick is due,
  the pages that were read are the first of what there is.
  `BridgesContained`: the entries of the session map are sessions made for their key,
  an eviction has made room for the head of the creation chain, and a timer is that
  of a session in the map, of one a user is about to use, or one that a `get()`
  touched too late (`SessionsInv`); the ring
  holds the newest consecutive events, and a reverse request is kept with its timer
  and in the ring, or was answered once (`BridgeInv`); slots are the sockets there
  are or that were granted (`Orderly`), and for each connection the credit of the
  sender, what is pending, withheld and on its way add up to the window (`Owed`).
  The lemmas of the tunnel speak of a state in which n bytes of credit are still owed,
  which is what holds between the two halves of a handler. Sums over messages under
  way are functions of partial sums, and what is claimed of all of them is shown with
  the *least* place at which it would fail, since an induction cannot be used.
  `TransportFaithful` (`TransportInv`): the activations of nested listeners form a
  stack; a buffer that is not empty while there is a listener is being drained by one
  of them, and what was delivered comes before the buffer, the buffer before the rest
  of the event.

The type invariants of these modules are parts of the inductive invariants; in
the runs they are not repeated.

Only model-checked:

- all liveness (fairness and ENABLED are out of the prover's reach), and so the
  liveness halves of the properties of `parts_liveness` and of `ImplementsLoop`. The
  safety halves of that run's properties are proved in `Connections_proofs`,
  `Graph_proofs` (traffic) and `JsonRpcChannel_proofs` (Rust);
- `DirectoryIsExplored`: the fixed point of a worklist over recursively defined
  scopes, and an explorer whose invariant speaks about all nodes of a changing
  graph. There is always a number for a new node only as long as a run keeps within
  its bound of nodes, so what is checked is a statement about that bound;
- the properties of the runs that state a violation.

## 6. Findings

1. **Shared callback maps** (`channel_id_collision`, `L/connection/jsonRpcChannel.ts:484`).
   Both sides number requests from 1 and the maps are keyed by the bare id: when
   the handler of an incoming request finishes, it removes the payload listener of
   an open outgoing streaming call with the same id.
2. **`stop()` forgotten** (`reconnect_stop`, `L/node/hubReconnect.ts:137`). During
   `connectToHub` there is no handle to close, and `stopped` is not looked at
   before the next failure or close. `ChannelConnector` has the check that is
   missing here.
3. **A disposed participant that routes** (`participant_dispose`,
   `E/configuredParticipants.ts:228`). If `dispose()` falls between the answer of
   the last remote registration and its continuation, `claimPrefix` attaches the
   disposed link again, and nobody detaches it.
4. **Two daemons** (`single_instance`, `D/singleInstance.ts:23`). Two processes
   find the same stale socket; the second removes the first one's fresh socket.
5. **A creation that is lost** (`endpoint_reload`, `D/daemon.ts:227`). The snapshot
   of the dynamic endpoints is taken before the queued operations of the old hub
   are over.
6. **Two identities for one slot** (`identity_race`,
   `H/sqliteIdentityKeystore.ts:307`). Two first resolutions each make a key; the
   later one replaces the row.

Observations without a run of their own, met while modelling.

Channel, hub, loops:
- A `ping()` on a call that has settled is neither resolved nor rejected
  (`L/connection/jsonRpcChannel.ts:280`; `channel.ts:159-163` says it "Rejects if
  the request settles first"): `ProbeScope` fails with `LatePing = TRUE`.
- After an established connection closes the connector dials again at once
  (`L/connection/channelConnector.ts:182`), although lines 83-84 document a backoff.
  Its `done` rejects when `stop()` comes during an open that then fails (135,
  against 28).
- A capability that was persisted is not used if the registration that followed
  failed; approval is asked for twice (`L/node/hubReconnect.ts:237`, against 80-82).
- A ping or pong of a watch that cannot be written ends it without telling the callee,
  which works on (`H/routing/routingHub.ts:822-827`, 807-809).
- Two ends that both defer hang if each set-up awaits a method the other has not
  resumed; `resumeRequests(methods)` is there to avoid it.
- `_onIdleTimeout` sends the cancel before it deletes the entry
  (`H/routing/routingHub.ts:1191`), and `_detach` answers callers one after the
  other with `void to.send` (584): a synchronous link may re-enter the first, a
  `send` that throws ends the second early.
- `describePeer` and the topology registration are outside of the try block of
  `_wire` (`H/hubConnectionAcceptor.ts:236-239`).
- `openParticipantSocket` may finish after `dispose()`; its transport is closed by
  the loop, not by `dispose()`.
- The in-memory transport reorders if a listener sends to itself while the buffer
  is drained (`L/transport/messageTransport.ts:107-109`).

Daemon and identities:
- `restartService` runs beside the reload queue (`D/daemon.ts:147-149`): a restart may
  start a removed endpoint again (`D/connectionSupervisor.ts:82-83`), and a
  `dispose()` says "stopped" (90) over an attempt begun during its await, beside
  which the next `sync()` starts another. `register` has no timeout (107).
- A forced reload whose `restore()` fails is not retried (`D/daemon.ts:140-141`);
  a service whose hub socket fails in `_spawn` is not retried either; a child that
  lingers may satisfy readiness.
- Slot storage: a `get` beside a `set` may lose it (comment at
  `H/identityKeystore.ts:719-724`), a `set` queued behind `delete()` writes old
  entries (601-602), a failed write stays in the cache. The legacy file's
  `.migrated` copy is overwritten by a second migration.

Graphs, directories, bridges:
- `I/graph/client.ts`: a failed pin is cleared by a later batch (202 against 333).
- The explorer: a failed list drops a requested reload until the next tick or
  retry; `watch()` on an initialised explorer works outside of `_work`; after
  dispose `watch()` and `explore()` reject.
- The description of a service is dropped after the notification
  (`L/connection/linkRpcConnection.ts:407`, 413): a watcher of a foreign host's
  inspection entry there keeps listing it (`forgotten`).
- MCP: "at most one live task" is not kept by the task registry
  (`M/taskRegistry.ts:37-39`, 90-95); the pool deletes by key
  (`M/connectionPool.ts:173`, 248); `get()` arms an idle timer for an entry
  whose opening failed meanwhile (`M/hub/sessionManager.ts:91`), which closes the
  successor under its key.
- JSON-RPC bridge: `_finish('remoteClosed')` from `_sendErrorOrClose`
  (`I/json-rpc/jsonRpcPeer.ts:364-366`) leaves the transport open and kept reverse
  requests unanswered.
- Tunnel: `closed` arriving while data is buffered at the client drops that data
  (`I/http-export/tcpMultiplexer.ts:293`); `ByteCredit.take` after `close` still
  hands out what is left (474); a socket destroyed before `opened` never settles
  its `_ready` (344). At the node the target's end destroys its socket, so what the
  client is still sending is dropped in spite of `allowHalfOpen`
  (`I/compute-node/node.ts:635`, the iterator's exit).

Approval:
- `_readInto` may lose a requested reread between the end of its loop and its
  `finally` (`I/approval/aggregatingManifest.ts:235-236`; `ApproveClient.refresh`
  closes the same gap). A progressive read that fails drops the source's entries
  until the next tick; a late failing read of a removed source sets
  `onSourceError` for good; after a decision whose source was replaced meanwhile (359)
  nothing is read before the next tick; `dispose()` never calls `_sourcesWatchOff`.
- An entry for which the directory cannot be fetched or nothing can be minted
  (`E/manifestApprover.ts:110`, 192-196) is neither prompted nor decided until the
  next snapshot.
- `runManifestApprover` keeps an aborted entry in `inFlight`, so that an entry that
  vanishes and comes back is prompted again only with the next snapshot; a
  decision that could not be written only with the next tick.

Rust:
- After EOF `NdjsonTransport::recv` ends but `send` still succeeds, so that later
  calls wait for ever (`halfOpen` in `RustChannel`). A plain call that is dropped
  leaves its entry.
- A channel added while the multiplexer is being disposed stays live and its
  reader waits (`R/transport/multiplexed.rs:164`, against 16-19). `dispose` of a
  channel keeps what is buffered, and is skipped while a reader holds the lock.
- `mount_reflection` looks and then registers: two threads that mount at once
  panic at the `unwrap`.

## 7. Plan, and what is not modelled

Next, in the order of importance:

1. An abstract call ledger (open, answered once, ended) that `RoutingHub` refines,
   and that a pair of channels, in TypeScript and in Rust, refines as well.
2. A proof of `DirectoryIsExplored`, with the scope algebra written as a function.
3. Nested hubs: `OverlaySplitter` composed with the hub, uplinks, no forwarding
   loops, ids rewritten twice.
4. The connection pool and the task registry of the MCP bridge; the store of the
   graph source; `prepareApproval` and `runInteractive`.
5. Signed calls: the order in which `signingSender.ts` sends what it signs, and the
   serial queue and the nonces of `forwardedCallGate.ts` (a listener that throws ends
   the queue's promise chain at line 147; nonces are kept for the life of a link).

Not modelled: cryptography and the content of policies and provenance (pure
functions over data); hub services and runtime (they wire the other parts); node transit, inspector and call log (they observe); files,
commands and power of the compute node, protocol sniffing, browser consent and
SQL (I/O); schema, typing, code generation, macros, the command line, the dev
tunnel and the user interfaces. These are most of the repository's lines, and
hold no state that two actors could bring out of step; the modules map the files
that do. Where a component is only partly modelled, its note in `PROJECT.json`
says what is left out.
