CONSTANTS
    InitialBackoff = 1
    MaxBackoff = 6
    InitialRetry = 1
    MaxRetry = 3
    MaxProcess = 3
    MaxQueue = 3
    MaxRequests = 2
    Attachment = {a1}
    MaxOutput = 4
    MaxHistory = 2
    MaxRun = 2
    QueueLimit = 2
    MaxTraffic = 6
    InitialDelay = 2
    MaxDelay = 5
    MaxPeerState = 2
    PeerDelayMin = 1
    PeerDelayMax = 3
    Conn = {c1, c2}
    ConsentCall = {c1}
    MaxSlots = 2
    MaxFaults = 2
    InRequest = {i1}
    StreamCall = {s1}
    PlainCall = {p1}
    StreamBuffer = 1
    MaxRustFrames = 2
SPECIFICATION LivePartsSpec
INVARIANTS
    NoLeak
PROPERTIES
    ImplementsLoop
    ReconnectKeepsClaim
    ParticipantIsTidy
    PeerIsSearched
    ConnectionsAreTracked
    ServiceIsControlled
    ConsoleIsComplete
    TrafficIsAccounted
    ConsentIsReached
    RustChannelKeepsPromises
CHECK_DEADLOCK FALSE
