CONSTANTS
    k1 = k1
    k2 = k2
    w1 = w1
    w2 = w2
    w3 = w3
    Keys <- MCKeys
    Workers <- MCWorkers
    Capacity = 1
    None = None
    Scenarios <- MCScenarios
SPECIFICATION Spec
INVARIANTS
    TypeOK
    HandlesAreLive
    CompleteIsComplete
PROPERTY
    ImportEnds
\* The import ends.
CHECK_DEADLOCK FALSE
