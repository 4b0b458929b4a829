CONSTANTS
    IdCodes = {1, 2}
    QueueSize = 3
    MaxBatch = 2
    MaxNet = 2
    Scenarios <- MCScenarios
SPECIFICATION Spec
INVARIANTS
    TypeOK
    EveryFrameAccounted
    DecodedAsEncoded
PROPERTIES
    StoredInOrder
    QueuesDrain
    Reconnects
