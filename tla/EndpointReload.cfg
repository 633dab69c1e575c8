CONSTANTS
    MaxInstance = 3
    MaxEndpointOps = 3
SPECIFICATION EndpointsSpec
INVARIANTS
    ReloadKeepsDefinitions
CHECK_DEADLOCK FALSE
