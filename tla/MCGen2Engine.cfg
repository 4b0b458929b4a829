CONSTANTS
    a = a
    b = b
    Ids <- MCIds
    Devices <- MCDevices
    Malformed = {}
    Misconfigured <- MCMisconfigured
    NoId = NoId
    Scenarios <- MCScenarios
SPECIFICATION EngineSpec
INVARIANTS
    EngineTypeOK
    OutOfReachIsLost
PROPERTY
    FollowsManifest
\* The instances of a scenario may all have died.
CHECK_DEADLOCK FALSE
