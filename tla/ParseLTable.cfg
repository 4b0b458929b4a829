\* Every lock table of up to four instances with up to four devices each.
CONSTANTS
    Nodes = {n1, n2, n3, n4}
    MaxLocks = 4
SPECIFICATION LoopSpec
INVARIANT
    DeclinesOnlyForTwoOthers
\* The loop ends.
CHECK_DEADLOCK FALSE
