CONSTANTS
    segA = segA
    segB = segB
    None = None
    Link = {v1, v2}
    ServiceId <- MCServiceId
    RootLink = {l1, l2}
    MaxWatchState = 3
    RetryMin = 1
    RetryMax = 2
    QueriedLink = {q1, q2, q3}
    OwnId <- MCOwnId
    UpstreamId <- MCUpstreamId
    MaxFromP = 2
    MaxOverlay = 5
    Service = {s1}
    Unnamed = Unnamed
    Business = {i1, i2}
    Description = {d1}
    BarePrefix = {p1}
    Nothing = Nothing
    reqX = reqX
    reqY = reqY
    WalkId <- MCWalkId
    Referral <- MCReferral
    MaxListed = 2
    MaxWalkDepth = 2
    ChildDir = {n1}
    DirScopes = {w1, w2}
    Unlisted = Unlisted
    MaxChanges = 1
    MaxTroubles = 1
    MaxNode = 3
    MaxJobs = 1
    TransportKind = {"memory", "ndjson", "websocket", "header", "mux", "window"}
    MaxMessages = 4
    MaxChunk = 2
    MaxDepth = 3
    MaxPending = 2
    Manager = {m1, m2}
    Reloader = m1
    MaxAttempt = 3
    MaxCommands = 3
    Resolver = {r1, r2}
    MaxKey = 4
    EntryKey = {k1, k2}
    MaxMap = 3
    MaxStorageOp = 3
    MaxInstance = 3
    MaxEndpointOps = 3
    SessionKey = {k1, k2}
    SessionUser = {u1, u2}
    MaxSessions = 1
    MaxSession = 2
    GraphRef = {o1, o2}
    MaxBatch = 2
    MaxEpoch = 3
    MaxVersion = 2
    MaxDemand = 2
    ManifestEntry = {e1}
    MaxMergeFaults = 2
    MuxAdder = {k1, k2}
    MuxId = {i1, i2}
    MaxBuffered = 2
    Registrar = {t1, t2}
    RegKey = {k1, k2}
    WatchedKey = {k1, k2}
    RegPrefix <- MCRegPrefix
    BareMember <- MCBareMember
    PageLimit = 1
    MaxRegistration = 3
    ReverseRequest = {q1, q2}
    BridgeCall = {c1}
    BridgeReader = {k1, k2}
    EventLimit = 1
    MaxBridgeEvents = 3
    GraphRoot = {g1, g2}
    NoRoot = NoRoot
    MaxSuperseded = 1
    MaxOffer = 4
    MaxRootOps = 2
    TunnelConn = {c1, c2}
    MaxConnections = 1
    TunnelWindow = 3
    FrameLimit = 2
    HighWater = 2
    MaxTunnelBytes = 4
    paramKey = paramKey
    ann = ann
    bob = bob
    Authority = authority
    Symbol = {segA, segB}
    Signable <- MCSignable
    IssueOption <- MCIssueOption
    Scope <- MCScope
    ScopeCall <- MCScopeCall
    CapCall <- MCCapCall
    Free = Free
    Unset = Unset
    VerifyDepth = 3
    IssueDepth = 2
    MaxTime = 2
    MaxDirect = 2
    MaxPlans = 1
SPECIFICATION SafetyPartsSpec
INVARIANTS
    IndexInLockStep
    LookupIsLongest
    RootsAreKnown
    PortsKeptApart
    RegistryIsConsistent
    DirectoryIsExplored
    ManagedIsKept
    SlotIsKept
    IssuanceIsSound
    BridgesAreContained
    AggregateIsCurrent
    RustTablesAreRight
PROPERTIES
    TransportIsFaithful
    GraphIsShared
CHECK_DEADLOCK FALSE
