CONSTANTS
    IdCodes = {1, 2}
    QueueSize = 3
    MaxBatch = 2
    MaxNet = 2
    Scenarios <- JunkAndDrop
SPECIFICATION Spec
PROPERTY
    Reconnects
