CONSTANTS
    Devs = {1, 2}
    Workers = {v, w}
    Keys = {1, 2, 3}
    Name <- MCName
    MaxSize = 300
    None = None
    Scenarios <- MCScenarios
SPECIFICATION Spec
INVARIANTS
    TypeOK
    QueueBounded
    EveryRecordAccounted
    OneStream
    AnnotationKept
PROPERTY
    Drains
\* The devices run out of records.
CHECK_DEADLOCK FALSE
