CONSTANTS
    a = a
    b = b
    c = c
    Ids <- MCIds
    Devices <- MCDevices
    Malformed <- MCMalformed
    NoId = NoId
    Scenarios <- MCScenarios
SPECIFICATION Spec
INVARIANTS
    OwnerProcesses
    ExclusiveUnlessLost
PROPERTIES
    ImplementsExclusiveLock
    EventuallyServed
\* The daemons of a scenario may all have died.
CHECK_DEADLOCK FALSE
