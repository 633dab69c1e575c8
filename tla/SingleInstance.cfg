CONSTANTS
    Daemon = {d1, d2}
    NoSocket = NoSocket
    Stale = Stale
SPECIFICATION LockSpec
INVARIANTS
    OneDaemon
CHECK_DEADLOCK FALSE
