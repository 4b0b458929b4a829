CONSTANTS
    p = p
    q = q
    Conns = {1, 2, 3}
    Serials = {p, q}
    Serial <- MCSerial
    Garbage = Garbage
    NumFiles = 2
    Scenarios <- MCScenarios
SPECIFICATION Spec
INVARIANTS
    TypeOK
    AnswersAreTrue
PROPERTY
    EveryFileAnswered
\* The clients run out of files.
CHECK_DEADLOCK FALSE
