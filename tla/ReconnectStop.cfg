CONSTANTS
    InitialRetry = 1
    MaxRetry = 3
SPECIFICATION ReconnectLiveSpec
PROPERTIES
    StopEndsLoop
CHECK_DEADLOCK FALSE
