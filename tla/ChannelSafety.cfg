CONSTANTS
    Peer = {client, server}
    Caller = {client}
    Deferring = {server}
    LatePing = FALSE
    MaxCalls = 2
    MaxFrames = 2
SPECIFICATION Spec
INVARIANTS
    CallTracked
    EntryScope
    StreamHasItsEntry
    ProbeScope
    CloseIsFinal
CHECK_DEADLOCK FALSE
