------------------------ MODULE MCSafetyParts_proofs ------------------------
(***************************************************************************)
(* What the parts keep together, for every value of their constants.  They *)
(* share no state: a step of the whole is a step of one part and leaves    *)
(* every other part alone, so the inductive invariant of each part         *)
(* (Parts_proofs, Graph_proofs, Bridges_proofs, TcpTunnel_proofs) is one of*)
(* the whole, whatever a behaviour is about.                               *)
(***************************************************************************)
EXTENDS MCSafetyParts, Parts_proofs, Graph_proofs, Bridges_proofs, TcpTunnel_proofs

-----------------------------------------------------------------------------
(* The parts of the whole.                                                 *)

\* Every step of the whole is a step of a part, or leaves it alone.
LEMMA PartSteps ==
    ASSUME [SafetyPartsNext]_safetyVars
    PROVE  /\ [SlotNext]_slot /\ [StorageNext]_storage
           /\ [RootsNext]_roots /\ [QueryNext]_query
           /\ [MergeNext]_merge
           /\ [ConnectionNext]_connection /\ [EndpointsNext]_endpoints
           /\ [GraphNext]_graph
           /\ [RootWatchNext]_rootWatch
           /\ [MuxNext]_mux /\ [LiveNext]_live
           /\ [SessionsNext]_sessions /\ [BridgeNext]_bridge /\ [TunnelNext]_tunnel
           /\ [TransportNext]_transport
<1>1. CASE UNCHANGED safetyVars BY <1>1 DEF safetyVars
<1>2. CASE \E part \in {"slot", "storage", "roots", "query", "merge", "connection", "endpoints", "graph", "rootWatch", "mux",
                             "liveNames", "liveWatch", "sessions", "bridge", "tunnelSlots", "tunnelData", "transport"} :
              About(part) /\ ((part = "slot" /\ SlotNext) \/ (part = "storage" /\ StorageNext)
                 \/ (part = "roots" /\ RootsNext) \/ (part = "query" /\ QueryNext) \/ (part = "merge" /\ MergeNext)
                 \/ (part = "connection" /\ ConnectionNext) \/ (part = "endpoints" /\ EndpointsNext)
                 \/ (part = "graph" /\ GraphNext)
                 \/ (part = "rootWatch" /\ RootWatchNext)
                 \/ (part = "mux" /\ MuxNext)
                 \/ (part \in {"liveNames", "liveWatch"} /\ LiveNext)
                 \/ (part = "sessions" /\ SessionsNext) \/ (part = "bridge" /\ BridgeNext)
                 \/ (part \in {"tunnelSlots", "tunnelData"} /\ TunnelNext)
                 \/ (part = "transport" /\ TransportNext))
  BY <1>2 DEF About
<1>3. CASE \E part \in SafetyPart \ {"slot", "storage", "roots", "query", "merge", "connection", "endpoints", "graph", "rootWatch", "mux",
                             "liveNames", "liveWatch", "sessions", "bridge", "tunnelSlots", "tunnelData", "transport"} : About(part)
  BY <1>3 DEF About
<1> QED BY <1>1, <1>2, <1>3, Zenon DEF SafetyPartsNext, SafetyPart

\* The invariant of the tunnel, as a state.
TunnelInv == Orderly(tunnel)

-----------------------------------------------------------------------------
(* The theorems.                                                           *)

\* The identity of a slot survives, however many connections resolve it at once, wherever the
\* hub crashes (runHub.ts, IdentityProvisioner), and whatever changes of its entries are queued
\* (identityKeystore.ts, _FileBackedStorage).
THEOREM SlotKept == SafetyPartsSpec => []SlotIsKept
<1>1. SafetyPartsInit => SlotInv /\ StorageInv BY SlotInitial, StorageInitial DEF SafetyPartsInit
<1>2. SlotInv /\ StorageInv /\ [SafetyPartsNext]_safetyVars => SlotInv' /\ StorageInv'
  BY SlotStep, StorageStep, PartSteps
<1>3. SlotInv /\ StorageInv => SlotIsKept
  BY DEF SlotInv, MigrationInv, MigrationKeepsPrincipal, StorageInv, PromiseInv, StoredOnceDone, SlotIsKept
<1> QED BY <1>1, <1>2, <1>3, PTL DEF SafetyPartsSpec

\* The hub knows the roots of its participants: every link is watched, by one watch
\* (participantRoots.ts, watch), and a query gives or announces every result (query).
THEOREM RootsKnown == SafetyPartsSpec => []RootsAreKnown
<1>1. SafetyPartsInit => RootsInv /\ QueryInv BY RootsInitial, QueryInitial DEF SafetyPartsInit
<1>2. RootsInv /\ QueryInv /\ [SafetyPartsNext]_safetyVars => RootsInv' /\ QueryInv'
  BY RootsStep, QueryStep, PartSteps
<1>3. RootsInv /\ QueryInv => RootsAreKnown
  <2>1. QueryInv => NoRootMissed BY DEF QueryInv, NoRootMissed, rootsWith
  <2> QED BY <2>1 DEF RootsInv, RootsAreKnown
<1> QED BY <1>1, <1>2, <1>3, PTL DEF SafetyPartsSpec

\* The merged manifest follows its sources, its consumer is told of every change, and a
\* decision that was taken does not come back (aggregatingManifest.ts), whatever reads,
\* watches and decisions overlap; CacheIsFresh and DecisionIsReflected name the gaps.
THEOREM AggregateCurrent == SafetyPartsSpec => []AggregateIsCurrent
<1>1. SafetyPartsInit => MergeInv BY MergeInitial DEF SafetyPartsInit
<1>2. MergeInv /\ [SafetyPartsNext]_safetyVars => MergeInv' BY MergeStep, PartSteps
<1>3. MergeInv => AggregateIsCurrent
  <2>1. MergeInv => MergeTypeOK BY DEF MergeInv, MergeType, MergeTypeOK
  <2> QED
    BY <2>1 DEF MergeInv, MergeRest, FreshInv, ToldInv, DecidedInv, AggregateIsCurrent,
                CacheIsFresh, ConsumerIsTold, DecisionIsReflected
<1> QED BY <1>1, <1>2, <1>3, PTL DEF SafetyPartsSpec

\* The hub's managed things are contained: a supervised connection holds what is open and
\* restarts after nothing it was told to drop, however many calls of its methods overlap, until
\* one of them is overtaken or revives what was removed (connectionSupervisor.ts), and every running endpoint is listed and
\* every answer outlives the daemon (managedEndpoints.ts).
THEOREM ManagedKept == SafetyPartsSpec => []ManagedIsKept
<1>1. SafetyPartsInit => ConnectionInv /\ EndpointsInv BY ConnectionInitial, EndpointsInitial DEF SafetyPartsInit
<1>2. ConnectionInv /\ EndpointsInv /\ [SafetyPartsNext]_safetyVars => ConnectionInv' /\ EndpointsInv'
  BY ConnectionStep, EndpointsStep, PartSteps
<1>3. ConnectionInv /\ EndpointsInv => ManagedIsKept BY ConnectionContained, EndpointsKept DEF ManagedIsKept
<1> QED BY <1>1, <1>2, <1>3, PTL DEF SafetyPartsSpec

\* An id names one channel of a multiplexer only, however its threads' critical sections
\* interleave, and a channel that is closed, or a multiplexer that is disposed of, leaves no
\* reader behind (transport/multiplexed.rs).
THEOREM MultiplexerTidy == SafetyPartsSpec => []MultiplexerIsTidy
<1>1. SafetyPartsInit => MuxInv BY MuxInitial DEF SafetyPartsInit
<1>2. MuxInv /\ [SafetyPartsNext]_safetyVars => MuxInv' BY MuxStep, PartSteps
<1> QED BY <1>1, <1>2, MuxTidy, PTL DEF SafetyPartsSpec

\* What the threads of a Rust process share is right between any two critical sections.  Next to
\* the channels of its multiplexer these are the interfaces of a connection: one is registered
\* until its own registration is disposed of, also when a registration was refused or is disposed
\* of twice, a bare method goes to the longest prefix that fits, and a client that watches the
\* interfaces is not left with a listing that is wrong (hub_connection.rs, RegistryInner).
THEOREM RustTablesRight == SafetyPartsSpec => []RustTablesAreRight
<1>1. SafetyPartsInit => MuxInv /\ LiveRegistryInv BY MuxInitial, LiveInitial DEF SafetyPartsInit
<1>2. MuxInv /\ LiveRegistryInv /\ [SafetyPartsNext]_safetyVars => MuxInv' /\ LiveRegistryInv'
  BY MuxStep, LiveStep, PartSteps
<1>3. MuxInv /\ LiveRegistryInv => RustTablesAreRight BY MuxTidy, LiveShows DEF RustTablesAreRight
<1> QED BY <1>1, <1>2, <1>3, PTL DEF SafetyPartsSpec

\* What the bridges hold for others is settled once and given back.  An MCP session that is
\* open is in the map or about to be closed, within the capacity, and its timers close it and
\* none of its successors, but for the idle timer a get() arms for one that has gone already
\* (sessionManager.ts).  A request of a JSON-RPC server gets one answer, a
\* reader of its events waits for nothing that is there, and the end of the peer leaves no call
\* behind (jsonRpcPeer.ts).  The credits and the slots of tunnelled connections are neither lost
\* nor made, whoever closes or fails first, and both ends hear of it (tcpMultiplexer.ts).
THEOREM BridgesContained == SafetyPartsSpec => []BridgesAreContained
<1>1. SafetyPartsInit => SessionsInv /\ BridgeInv /\ TunnelInv
  BY SessionsInitial, BridgeInitial, TunnelInitial DEF SafetyPartsInit, TunnelInv
<1>2. SessionsInv /\ BridgeInv /\ TunnelInv /\ [SafetyPartsNext]_safetyVars
        => SessionsInv' /\ BridgeInv' /\ TunnelInv'
  BY SessionsStep, BridgeStep, TunnelStep, PartSteps DEF TunnelInv
<1>3. SessionsInv /\ BridgeInv /\ TunnelInv => BridgesAreContained
  BY SessionsShow, BridgeShows, TunnelShows DEF BridgesAreContained, TunnelInv
<1> QED BY <1>1, <1>2, <1>3, PTL DEF SafetyPartsSpec

\* What a channel relies on, whatever transport is below it and whatever its listeners do to the
\* transport while they run: until it is closed every message that arrived was delivered once
\* or is buffered for the next listener, in their order; onClose is called once; and a line
\* transport or a multiplexed channel is silent once disposed (transport/*.ts).
THEOREM TransportFaithful == SafetyPartsSpec => TransportIsFaithful
<1>1. SafetyPartsInit => TransportInv BY TransportInitial DEF SafetyPartsInit
<1>2. TransportInv /\ [SafetyPartsNext]_safetyVars => TransportInv' BY TransportStep, PartSteps
<1>3. TransportInv /\ [SafetyPartsNext]_safetyVars
        => [transportIs({"ndjson", "mux"}) /\ transport.closed => transport'.delivered = transport.delivered]_transport
  BY TransportStep, PartSteps DEF transportIs
<1>4. TransportInv => NothingSwallowed /\ DeliveredInOrder /\ ClosesOnce BY TransportShows
<1> QED BY <1>1, <1>2, <1>3, <1>4, PTL DEF SafetyPartsSpec, TransportIsFaithful, DisposedIsSilent

\* Both ends of a graph agree on its objects.  The client (graph/client.ts) demands what is
\* held and nothing else, over no connection that is gone; what loads is on its way through
\* every swap of the connection, retry and eviction; and its root does not go back.  The
\* source (graph/rootWatch.ts) disposes of every lease exactly once, releases an offer only
\* after its successor was sent, and sends the newest root.
THEOREM GraphShared == SafetyPartsSpec => GraphIsShared
<1>1. SafetyPartsInit => GraphInv /\ RootWatchInv
  BY GraphInitial, RootWatchInitial DEF SafetyPartsInit
<1>2. GraphInv /\ RootWatchInv /\ [SafetyPartsNext]_safetyVars => GraphInv' /\ RootWatchInv'
  BY GraphStep, RootWatchStep, PartSteps
<1>3. GraphInv /\ [SafetyPartsNext]_safetyVars
        => [graph'.applied < graph.applied => graph'.applied = 0 /\ graph'.offered = 0]_graph
  BY GraphStep, PartSteps DEF RootKept
<1>4. RootWatchInv => RootWatchTypeOK /\ LeasesAreDisposedOnce /\ SuccessorIsSentFirst /\ NewestRootIsSent
  BY RootWatchIsRight
<1>5. GraphInv => NoIdleDemand /\ LoadingIsUnderWay BY GraphDemanded
<1> QED BY <1>1, <1>2, <1>3, <1>4, <1>5, PTL DEF SafetyPartsSpec, GraphIsShared, GraphIsServed, RootNeverRegresses

=============================================================================
