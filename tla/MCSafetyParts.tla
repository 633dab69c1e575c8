--------------------------- MODULE MCSafetyParts ----------------------------
(***************************************************************************)
(* The parts that are about what they keep: tables, directories, stores,   *)
(* sessions and caches, each with an instance of its own.  They share no   *)
(* state, so a behaviour is about one of them, its focus, and the others   *)
(* stay in one of their initial states.                                    *)
(***************************************************************************)
EXTENDS ForwardingTable, ParticipantRoots, RootsQuery, OverlaySplitter,
        ConnectionRegistry, DirectoryScopes, DirectoryExplorer, MessageTransports,
        ConnectionSupervisor, IdentitySlot, SlotStorage, ManagedEndpoints,
        McpSessions, GraphClient, AggregatingManifest, RustMultiplexer, RustRegistry,
        JsonRpcPeer, RootWatch, TcpTunnel, CapabilityIssuance

CONSTANTS segA, segB, reqX, reqY, paramKey, ann, bob

\* A tree of five ids over two segments.
MCServiceId == {<<segA>>, <<segB>>, <<segA, segA>>, <<segA, segB>>, <<segA, segB, segA>>}

Below(id) == [kind |-> "prefix", id |-> id]
Just(id) == [kind |-> "exact", id |-> id]

MCWalkId == {<<>>, <<segA>>, <<segB>>, <<segA, segB>>, <<segA, segB, segA>>}

\* Ids on both sides of the overlay splitter; one of P's reads as a tag of this splitter.
MCOwnId == {numberId, encodeId("H", numberId)}
MCUpstreamId == {numberId, stringId}

\* Bare prefixes and methods of the Rust registry.
MCRegPrefix == {<<>>, <<segA>>}
MCBareMember == {<<>>, <<segA>>, <<segA, segB>>}

\* Two directories that may refer to each other, each in two ways.
MCReferral ==
    {[target |-> <<segA>>, reach |-> {Below(<<segA>>)}, requires |-> <<reqX>>],
     [target |-> <<segA>>, reach |-> {Just(<<segB>>), Below(<<segA, segB>>), Just(<<segA, segB>>)}, requires |-> <<>>],
     [target |-> <<segA, segB>>, reach |-> {Below(<<>>)}, requires |-> <<reqY>>],
     [target |-> <<segA, segB>>, reach |-> {Just(<<segA>>), Just(<<segA, segB>>)}, requires |-> <<>>]}

\* Permissions, the values of a parameter and its matchers, and calls.
Permission(can, service, members) ==
    [can |-> can, service |-> service, hash |-> Free, members |-> members, params |-> Free, bind |-> Free]

TextValue(t) == [kind |-> "string", text |-> t]
ListValue(s) == [kind |-> "list", items |-> s]

MCMatcher ==
    {[kind |-> "any"], [kind |-> "exact", value |-> TextValue(<<segA>>)],
     [kind |-> "enum", values |-> {TextValue(<<segA>>), ListValue({<<segA>>})}],
     [kind |-> "prefix", text |-> <<segA>>], [kind |-> "subsetOf", items |-> {<<segA>>}]}

MCScope ==
    [can : {{"invoke"}}, service : {Below(<<segA>>), Just(<<segA>>)}, hash : {Free, segA},
     members : {{Below(<<segA>>)}, {Just(<<segA>>), Just(<<segA, segB>>)}},
     params : {Free, <<>>} \cup [{paramKey} -> MCMatcher], bind : {Free, segA}]

MCScopeCall ==
    [service : {<<segA>>, <<segA, segB>>}, hash : {Free, segA}, member : {<<segA>>, <<segA, segA>>},
     params : {<<>>} \cup [{paramKey} -> {TextValue(<<segA>>), TextValue(<<segA, segB>>),
                                          ListValue({<<segA>>}), ListValue({<<segB>>})}],
     payload : {segA, segB}]

MCCapCall ==
    [signer : {ann, bob}, service : {<<segA>>, <<segB>>}, hash : {Free}, member : {<<segA>>, <<segB>>},
     params : {<<>>}, payload : {segB}]

Wide(can) == Permission(can, Below(<<>>), {Below(<<>>)})
Narrow(can) == Permission(can, Below(<<segA>>), {Just(<<segA>>), Just(<<segB>>)})
OneMember(s) == Permission({"delegate"}, Below(<<segA>>), {Just(<<s>>)})

Unsigned(issuer, audience, permissions, expires, genuine) ==
    [issuer |-> issuer, audience |-> audience, permissions |-> permissions, expires |-> expires,
     ancestors |-> <<>>, genuine |-> genuine]

\* What the authority has granted to ann or is said to have granted to bob, and what these pass on.
MCSignable ==
    {Unsigned(Authority, ann, {Narrow({"invoke", "delegate"})}, 1, TRUE),
     Unsigned(Authority, ann, {OneMember(segA), OneMember(segB)}, Never, TRUE),
     Unsigned(Authority, ann, {OneMember(segA)}, Never, TRUE),
     Unsigned(Authority, ann, {Wide({"invoke"})}, Never, TRUE),
     Unsigned(Authority, bob, {Wide({"delegate"})}, Never, FALSE),
     Unsigned(bob, ann, {Wide({"invoke", "delegate"})}, 2, TRUE),
     Unsigned(ann, bob, {Wide({"invoke", "delegate"})}, Never, TRUE)}

Option(issuer, audience, permissions, expires, accepted) ==
    [issuer |-> issuer, audience |-> audience, permissions |-> permissions, expires |-> expires, accepted |-> accepted]

\* They issue under authority they name, or under whatever they have.
MCIssueOption ==
    {Option(ann, bob, {Narrow({"invoke", "delegate"})}, Never, Unset),
     Option(ann, bob, {Narrow({"invoke", "delegate"}), Wide({"invoke"})}, 2, Unset),
     Option(ann, bob, {Narrow({"invoke", "delegate"})}, Never, {Authority}),
     Option(bob, ann, {Narrow({"invoke"})}, Never, {Authority}),
     Option(Authority, bob, {Wide({"invoke"})}, 2, {Authority})}
VARIABLE focus

safetyVars ==
    <<focus, table, roots, query, overlay, registry, walk, explorer, transport,
      connection, slot, storage, endpoints, sessions, graph, merge, mux, live, bridge, rootWatch,
      tunnel, issuance>>

SafetyPart ==
    {"table", "roots", "query", "overlay", "registry", "walk", "explorer",
     "transport", "connection", "slot", "storage", "endpoints", "sessions", "graph",
     "merge", "mux", "liveNames", "liveWatch", "bridge", "rootWatch", "tunnelSlots", "tunnelData",
     "issuance"}

\* The slots of the tunnel are about several connections, its credits about one direction of one.
TunnelFocus(t) ==
    /\ focus # "tunnelData" => \A c \in TunnelConn : t.unwritten[c] = 0 /\ t.unread[c] = 0
    /\ focus = "tunnelData" => \A c \in TunnelConn : (t.unwritten[c] = 0) # (t.unread[c] = 0)

SafetyPartsInit ==
    /\ focus \in SafetyPart
    /\ FTInit
    /\ RootsInit
    /\ QueryInit /\ (focus = "query" \/ query.asked = {})
    /\ OverlayInit
    /\ RegistryInit
    /\ WalkInit /\ (focus = "walk" \/ \A d \in Directory : walk.listing[d] = <<>>)
    /\ ExplorerInit /\ (focus = "explorer" \/ \A c \in ChildDir : explorer.refers[c] = Unlisted)
    /\ TransportInit /\ (focus = "transport" \/ transport.kind = "memory")
    /\ ConnectionInit /\ (focus = "connection" \/ connection.policy = "never")
    /\ SlotInit /\ (focus = "slot" \/ slot.legacy)
    /\ StorageInit
    /\ EndpointsInit
    /\ SessionsInit
    /\ GraphInit
    /\ MergeInit
    /\ MuxInit /\ (focus = "mux" \/ \A k \in MuxAdder : mux.id[k] = CHOOSE i \in MuxId : TRUE)
    /\ LiveInit
    /\ BridgeInit /\ (focus = "bridge" \/ bridge.policy = "queue")
    /\ RootWatchInit
    /\ TunnelInit /\ TunnelFocus(tunnel)
    /\ IssuanceInit /\ (focus = "issuance" \/ issuance.compared = Unset)

\* A step of one part leaves the others alone.
About(part) ==
    /\ focus = part
    /\ UNCHANGED focus
    /\ part # "table" => UNCHANGED table
    /\ part # "roots" => UNCHANGED roots
    /\ part # "query" => UNCHANGED query
    /\ part # "overlay" => UNCHANGED overlay
    /\ part # "registry" => UNCHANGED registry
    /\ part # "walk" => UNCHANGED walk
    /\ part # "explorer" => UNCHANGED explorer
    /\ part # "transport" => UNCHANGED transport
    /\ part # "connection" => UNCHANGED connection
    /\ part # "slot" => UNCHANGED slot
    /\ part # "storage" => UNCHANGED storage
    /\ part # "endpoints" => UNCHANGED endpoints
    /\ part # "sessions" => UNCHANGED sessions
    /\ part # "graph" => UNCHANGED graph
    /\ part # "merge" => UNCHANGED merge
    /\ part # "mux" => UNCHANGED mux
    /\ part \notin {"liveNames", "liveWatch"} => UNCHANGED live
    /\ part # "bridge" => UNCHANGED bridge
    /\ part # "rootWatch" => UNCHANGED rootWatch
    /\ part \notin {"tunnelSlots", "tunnelData"} => UNCHANGED tunnel
    /\ part # "issuance" => UNCHANGED issuance

SafetyPartsNext ==
    \/ About("table") /\ FTNext
    \/ About("roots") /\ RootsNext
    \/ About("query") /\ QueryNext
    \/ About("overlay") /\ OverlayNext
    \/ About("registry") /\ RegistryNext
    \/ About("walk") /\ WalkStep
    \/ About("explorer") /\ ExplorerNext
    \/ About("transport") /\ TransportNext
    \/ About("connection") /\ ConnectionNext
    \/ About("slot") /\ SlotNext
    \/ About("storage") /\ StorageNext
    \/ About("endpoints") /\ EndpointsNext
    \/ About("sessions") /\ SessionsNext
    \/ About("graph") /\ GraphNext
    \/ About("merge") /\ MergeNext
    \/ About("mux") /\ MuxNext
    \/ About("liveNames") /\ LiveNext /\ live'.watch = live.watch
    \/ About("liveWatch") /\ LiveNext /\ live'.bare = live.bare
    \/ About("bridge") /\ BridgeNext
    \/ About("rootWatch") /\ RootWatchNext
    \/ About("tunnelSlots") /\ TunnelNext
    \/ About("tunnelData") /\ TunnelNext
        /\ \A c \in TunnelConn \ {CHOOSE d \in TunnelConn : TRUE} : tunnel'.opener[c] = "none"
    \/ About("issuance") /\ IssuanceNext

SafetyPartsSpec == SafetyPartsInit /\ [][SafetyPartsNext]_safetyVars

-----------------------------------------------------------------------------
(* What concerns several parts is said of the behaviours about them; in the others these *)
(* parts rest in initial states that are initial states of the behaviours about them, too. *)

\* The hub knows the roots of its participants: those of every watch that is up or about to
\* be retried (participantRoots.ts), and those that answer a query late (RootsQuery).
RootsAreKnown ==
    focus \in {"roots", "query"} => RootsCovered /\ NoRootMissed

\* The identity of a slot survives: the migration from an older build (IdentitySlot), and
\* overlapping writes of its storage (SlotStorage).
SlotIsKept ==
    focus \in {"slot", "storage"} => MigrationKeepsPrincipal /\ StoredOnceDone

\* The walk of the directories computes the scopes their cycles call for (DirectoryScopes),
\* and the explorer keeps its graph up to date with them (DirectoryExplorer).
DirectoryIsExplored ==
    focus \in {"walk", "explorer"} => WalkIsCorrect /\ ExplorerKeepsUp

\* What the threads of a Rust process share is right between any two critical sections: the
\* channels of a multiplexer and the interfaces of a connection.
RustTablesAreRight ==
    focus \in {"mux", "liveNames", "liveWatch"} => MultiplexerIsTidy /\ RustRegistryIsRight

\* What an owner manages stays his: the connections that are supervised for him
\* (ConnectionSupervisor) and the endpoints he keeps (ManagedEndpoints).
ManagedIsKept ==
    focus \in {"connection", "endpoints"} => ConnectionIsContained /\ EndpointsAreKept

\* What the bridges to other protocols hold for others is settled once and given back: the
\* sessions of MCP clients (McpSessions), and the requests in both directions, the events and
\* the waiters of a JSON-RPC server's clients (JsonRpcPeer), and the slots and credits of TCP
\* connections (TcpTunnel).
BridgesAreContained ==
    focus \in {"sessions", "bridge", "tunnelSlots", "tunnelData"} => SessionsAreContained /\ BridgeIsSettled /\ TunnelIsFair

\* Both ends of a graph agree on its objects: the client's cache through reconnects and
\* eviction (GraphClient), and the roots the source retains for it (RootWatch).
GraphIsShared ==
    /\ GraphIsServed
    /\ [](RootWatchTypeOK /\ LeasesAreDisposedOnce /\ SuccessorIsSentFirst /\ NewestRootIsSent)
=============================================================================
