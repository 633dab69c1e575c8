CONSTANTS
    Peer = {client, server}
    Caller = {client, server}
    Deferring = {}
    LatePing = FALSE
    MaxCalls = 1
    MaxFrames = 1
SPECIFICATION Spec
INVARIANTS
    ListenerKept
CHECK_DEADLOCK FALSE
