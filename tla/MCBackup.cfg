CONSTANTS
    Objects = {1, 2, 3}
    Workers = {v, w}
    Values <- MCValues
    TodoLen = 1
    ToWriteLen = 1
    TicksPerSecond = 2
    Empty = Empty
    Garbage = Garbage
    None = None
    Scenarios <- MCScenarios
SPECIFICATION Spec
INVARIANTS
    TypeOK
    MetadataMeansArchived
    RestoredIsFinal
PROPERTY
    Ends
\* The procedure ends.
CHECK_DEADLOCK FALSE
