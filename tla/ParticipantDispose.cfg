CONSTANTS
    InitialDelay = 2
    MaxDelay = 5
SPECIFICATION ParticipantSpec
INVARIANTS
    DisposedStopsRouting
CHECK_DEADLOCK FALSE
