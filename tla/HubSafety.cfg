CONSTANTS
    a = a
    b = b
    None = None
    Self = Self
    Watcher = Watcher
    Root = Root
    NodeId = NodeId
    Malformed = Malformed
    Link = {l1, l2}
    Id = {1}
    ServiceId <- MCServiceId
    IdleEnabled = TRUE
    MaxHubId = 2
    MaxOwn = 1
    MaxFrames = 1
SPECIFICATION Spec
SYMMETRY LinkSymmetry
INVARIANTS
    TypeOK
    NoLostCall
    OneReply
    OwnAnswer
    DetachIsClean
    EndIsClean
PROPERTIES
    ClaimOnce
    StreamFollowsCall
CHECK_DEADLOCK FALSE
