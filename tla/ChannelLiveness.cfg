CONSTANTS
    Peer = {client, server}
    Caller = {client, server}
    Deferring = {client, server}
    LatePing = FALSE
    MaxCalls = 1
    MaxFrames = 0
SPECIFICATION LiveSpec
PROPERTIES
    EveryCallSettles
CHECK_DEADLOCK FALSE
